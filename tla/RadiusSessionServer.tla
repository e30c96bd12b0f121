------------------------ MODULE RadiusSessionServer ------------------------
(***************************************************************************)
(* Several RadiusSessionServers (sessionserver/session_server.go) that send  *)
(* each other copies of the accounting packets they handle, each with its    *)
(* RadiusServer (radiusserver/radius_server.go), over a network that loses,  *)
(* repeats, delays and reorders packets.                                     *)
(*                                                                          *)
(* The store of one session is the newest packet that it took, by the order  *)
(* of checkInsert; RadiusSessionStore has its details and its expiration.    *)
(* A packet that a RadiusServer reads is handled by a goroutine of its own:  *)
(* handling[i] is the i-th one.  The RadiusClient is its channel, which is   *)
(* open or closed, and its answer to an exchange: see RadiusClient.          *)
(***************************************************************************)
EXTENDS Integers, Sequences, FiniteSets, SequencesExt

CONSTANTS
    Names,        \* the servers
    SendTo,       \* of each server, the servers of its configuration
    OwnName,      \* the name in the configuration of each server
    KnownAs,      \* its name in the configurations of the others, which should be the same
    MaxSeenBy,    \* names in SessionStore-SeenBy with which a packet is still sent (4)
    Sources,      \* packets of the origins: [to, ver, access]
    MayClose,     \* servers that may be closed
    Queries, QueryAt, \* http queries, and the server of each
    MaxCopies,    \* bound: copies of a replicated packet received
    MaxHandled    \* bound: packets handled

ASSUME SessionServerAssumption ==
    /\ IsFiniteSet(Names) /\ SendTo \in [Names -> SUBSET Names] /\ MayClose \subseteq Names
    /\ {OwnName, KnownAs} \subseteq [Names -> STRING]
    /\ IsFiniteSet(Sources) /\ Sources \subseteq [to : Names, ver : Nat, access : BOOLEAN]
    /\ QueryAt \in [Queries -> Names]
    /\ {MaxSeenBy, MaxCopies, MaxHandled} \subseteq Nat

VARIABLES
    store,        \* the newest packet of the session in each server, 0 for none
    terminated,   \* ss.status = StatusTerminated
    loop,         \* the event loop: "running", "done"
    update,       \* updateChannel, with room for one
    control,      \* controlChannel
    chanClosed,   \* the channels are closed
    client,       \* the RadiusClient: "nil" until run() creates it, "open", "closed"
    socketOpen,   \* the socket of the RadiusServer
    wg,
    closing,      \* Close(): "open", "http", "wg", "radius", "loop", "closed"
    handling,     \* [at, ver, access, seenBy, parent, st] of the packets read
    sending,      \* replication goroutines <<i, n>>: packet i, to server n
    sent,         \* the copies that were sent
    acked, gaveUp,\* history: what became of them
    received,     \* packets of the origins that were read
    query,        \* of each query: "idle", "posted", "answered", "refused"
    crashed       \* a Go panic

serverVars == <<store, terminated, loop, update, control, chanClosed, client, socketOpen,
                wg, closing>>
packetVars == <<handling, sending, sent, acked, gaveUp, received>>
vars == <<serverVars, packetVars, query, crashed>>

Handled == 1..Len(handling)

Init ==
    /\ store = [n \in Names |-> 0]
    /\ terminated = [n \in Names |-> FALSE]
    /\ loop = [n \in Names |-> "running"]
    /\ update = [n \in Names |-> <<>>] /\ control = [n \in Names |-> <<>>]
    /\ chanClosed = [n \in Names |-> FALSE]
    /\ client = [n \in Names |-> "nil"] /\ socketOpen = [n \in Names |-> TRUE]
    /\ wg = [n \in Names |-> 0]
    /\ closing = [n \in Names |-> "open"]
    /\ handling = <<>>
    /\ sending = {} /\ sent = {} /\ acked = {} /\ gaveUp = {}
    /\ received = {}
    /\ query = [q \in Queries |-> "idle"]
    /\ crashed = FALSE

-----------------------------------------------------------------------------
(* run() has started the event loop and the RadiusServer, which takes packets, *)
(* when it creates the RadiusClient and then starts the http server          *)

StartClient(n) ==
    /\ ~crashed
    /\ client[n] = "nil"
    /\ client' = [client EXCEPT ![n] = "open"]
    /\ UNCHANGED <<store, terminated, loop, update, control, chanClosed, socketOpen, wg, closing,
                   packetVars, query, crashed>>

-----------------------------------------------------------------------------
(* The RadiusServer.  A packet from an unknown client, that cannot be decoded *)
(* or has a bad authenticator is as good as lost; the others are handled by  *)
(* a goroutine, whatever is left of them when the socket is closed.          *)

\* readLoop, and the start of HandlePacket, which adds the name of the server to the packet
Read(n, ver, access, seenBy, parent) ==
    /\ ~crashed
    /\ socketOpen[n]
    /\ Len(handling) < MaxHandled
    /\ handling' = Append(handling, [at |-> n, ver |-> ver, access |-> access,
                                     seenBy |-> Append(seenBy, OwnName[n]), parent |-> parent,
                                     st |-> "new"])
    /\ UNCHANGED <<serverVars, sending, sent, acked, gaveUp, query, crashed>>

ReadFromOrigin(p) ==
    /\ p \notin received
    /\ received' = received \cup {p}
    /\ Read(p.to, p.ver, p.access, <<>>, 0)

Copies(i, n) == {j \in Handled : handling[j].parent = i /\ handling[j].at = n}

\* A copy is received any number of times, also after its sender has given up
ReadCopy(i, n) ==
    /\ <<i, n>> \in sent
    /\ Cardinality(Copies(i, n)) < MaxCopies
    /\ Read(n, handling[i].ver, FALSE, handling[i].seenBy, i)
    /\ UNCHANGED received

\* HandlePacket sends the packet to the event loop
PostUpdate(i) ==
    LET n == handling[i].at IN
    /\ ~crashed
    /\ handling[i].st = "new"
    /\ chanClosed[n] \/ Len(update[n]) < 1
    /\ crashed' = chanClosed[n]
    /\ update' = IF chanClosed[n] THEN update ELSE [update EXCEPT ![n] = Append(@, i)]
    /\ handling' = [handling EXCEPT ![i].st = "posted"]
    /\ UNCHANGED <<store, terminated, loop, control, chanClosed, client, socketOpen, wg,
                   closing, sending, sent, acked, gaveUp, received, query>>

-----------------------------------------------------------------------------
(* The event loop *)

LoopRuns(n) == ~crashed /\ loop[n] = "running"

\* Mutant: the second answer is sent also when the server is not terminated
UpdateTerminated_Always(n) ==
    /\ LoopRuns(n)
    /\ update[n] # <<>>
    /\ update' = [update EXCEPT ![n] = Tail(@)]
    /\ handling' = [handling EXCEPT ![Head(update[n])].st = "error"]
    /\ crashed' = TRUE
    /\ UNCHANGED <<store, terminated, loop, control, chanClosed, client, socketOpen, wg,
                   closing, sending, sent, acked, gaveUp, received, query>>

\* The response channel is closed already when the second error is sent: a panic
UpdateTerminated(n) ==
    /\ LoopRuns(n) /\ terminated[n]
    /\ update[n] # <<>>
    /\ update' = [update EXCEPT ![n] = Tail(@)]
    /\ handling' = [handling EXCEPT ![Head(update[n])].st = "error"]
    /\ crashed' = TRUE
    /\ UNCHANGED <<store, terminated, loop, control, chanClosed, client, socketOpen, wg,
                   closing, sending, sent, acked, gaveUp, received, query>>

\* Mutants: one name more; the name that HandlePacket has just added
Destinations_OneMore(i) ==
    LET p == handling[i] IN
    {d \in SendTo[p.at] : ~p.access /\ KnownAs[d] \notin ToSet(p.seenBy) /\ Len(p.seenBy) <= MaxSeenBy + 1}
Destinations_OwnName(i) ==
    LET p == handling[i] IN
    {d \in SendTo[p.at] : ~p.access /\ OwnName[p.at] \notin ToSet(p.seenBy) /\ Len(p.seenBy) <= MaxSeenBy}

\* The destinations that have not seen the packet
Destinations(i) ==
    LET p == handling[i] IN
    {d \in SendTo[p.at] : ~p.access /\ KnownAs[d] \notin ToSet(p.seenBy) /\ Len(p.seenBy) <= MaxSeenBy}

\* Mutant of OnUpdate: an older packet is taken
OnUpdate_OlderToo(n) ==
    LET i == Head(update[n])
        p == handling[i]
    IN /\ LoopRuns(n) /\ ~terminated[n]
       /\ update[n] # <<>>
       /\ update' = [update EXCEPT ![n] = Tail(@)]
       /\ store' = [store EXCEPT ![n] = p.ver]
       /\ handling' = [handling EXCEPT ![i].st = "accepted"]
       /\ sending' = sending \cup {<<i, d>> : d \in Destinations(i)}
       /\ wg' = [wg EXCEPT ![n] = @ + Cardinality(Destinations(i))]
       /\ UNCHANGED <<terminated, loop, control, chanClosed, client, socketOpen, closing, sent,
                      acked, gaveUp, received, query, crashed>>

\* PushPacket takes the packet if it is newer, and may refuse an Access-Request; then a
\* goroutine for each destination sends a copy of the packet, be it newer or not
OnUpdate(n) ==
    LET i == Head(update[n])
        p == handling[i]
    IN /\ LoopRuns(n) /\ ~terminated[n]
       /\ update[n] # <<>>
       /\ update' = [update EXCEPT ![n] = Tail(@)]
       /\ \/ /\ store' = [store EXCEPT ![n] = IF p.ver > @ THEN p.ver ELSE @]
             /\ handling' = [handling EXCEPT ![i].st = "accepted"]
          \/ /\ p.access /\ p.ver > store[n]
             /\ handling' = [handling EXCEPT ![i].st = "rejected"]
             /\ UNCHANGED store
       /\ sending' = sending \cup {<<i, d>> : d \in Destinations(i)}
       /\ wg' = [wg EXCEPT ![n] = @ + Cardinality(Destinations(i))]
       /\ UNCHANGED <<terminated, loop, control, chanClosed, client, socketOpen, closing, sent,
                      acked, gaveUp, received, query, crashed>>

OnControl(n) ==
    /\ LoopRuns(n)
    /\ control[n] # <<>>
    /\ control' = [control EXCEPT ![n] = Tail(@)]
    /\ terminated' = [terminated EXCEPT ![n] = @ \/ Head(control[n]) = "SetDown"]
    /\ loop' = [loop EXCEPT ![n] = IF Head(control[n]) = "Close" THEN "done" ELSE @]
    /\ UNCHANGED <<store, update, chanClosed, client, socketOpen, wg, closing, packetVars,
                   query, crashed>>

\* FindByIndex, or the error of a server that is terminated
OnQuery(q) ==
    LET n == QueryAt[q] IN
    /\ LoopRuns(n)
    /\ query[q] = "posted"
    /\ query' = [query EXCEPT ![q] = IF terminated[n] THEN "refused" ELSE "answered"]
    /\ UNCHANGED <<serverVars, packetVars, crashed>>

-----------------------------------------------------------------------------
(* The goroutine that sends packet i to server d *)

\* RadiusExchange sends to the channel of the client
SendCopy(i, d) ==
    /\ ~crashed
    /\ <<i, d>> \in sending \ sent
    /\ sent' = sent \cup {<<i, d>>}
    /\ crashed' = (client[handling[i].at] # "open")
    /\ UNCHANGED <<serverVars, handling, sending, acked, gaveUp, received, query>>

CopyEnds(i, d) ==
    /\ ~crashed
    /\ <<i, d>> \in sending \cap sent
    /\ sending' = sending \ {<<i, d>>}
    /\ wg' = [wg EXCEPT ![handling[i].at] = @ - 1]
    /\ UNCHANGED <<store, terminated, loop, update, control, chanClosed, client, socketOpen,
                   closing, handling, sent, received, query, crashed>>

\* Mutants: the answer is sent before the packet is pushed; a failure without wg.Done()
CopyAnswered_Early(i, d) ==
    /\ \E j \in Copies(i, d) : handling[j].st # "new"
    /\ acked' = acked \cup {<<i, d>>}
    /\ CopyEnds(i, d)
    /\ UNCHANGED gaveUp

\* The answer of the other server arrives; it sends one if the packet was accepted or rejected
CopyAnswered(i, d) ==
    /\ \E j \in Copies(i, d) : handling[j].st \in {"accepted", "rejected"}
    /\ acked' = acked \cup {<<i, d>>}
    /\ CopyEnds(i, d)
    /\ UNCHANGED gaveUp

\* All the serverTries have timed out, or the exchange was cancelled; this is only logged
CopyFails(i, d) ==
    /\ gaveUp' = gaveUp \cup {<<i, d>>}
    /\ CopyEnds(i, d)
    /\ UNCHANGED acked

-----------------------------------------------------------------------------
(* Queries, and Close() *)

\* getQueryHandler and HandleQuery: the http server takes requests until it is shut down
PostQuery(q) ==
    /\ ~crashed
    /\ query[q] = "idle"
    /\ closing[QueryAt[q]] = "open" /\ client[QueryAt[q]] = "open"
    /\ query' = [query EXCEPT ![q] = "posted"]
    /\ UNCHANGED <<serverVars, packetVars, crashed>>

CloseStep(n, from, to) ==
    /\ ~crashed
    /\ closing[n] = from
    /\ closing' = [closing EXCEPT ![n] = to]
    /\ UNCHANGED <<store, terminated, loop, update, wg, packetVars, query, crashed>>

CloseBegin(n) ==
    /\ CloseStep(n, "open", "http")
    /\ UNCHANGED <<control, chanClosed, client, socketOpen>>

\* Shutdown waits for the requests that the http server has taken, and httpDoneChannel for run()
CloseHttp(n) ==
    /\ client[n] # "nil"
    /\ \A q \in Queries : QueryAt[q] = n => query[q] # "posted"
    /\ CloseStep(n, "http", "wg")
    /\ control' = [control EXCEPT ![n] = Append(@, "SetDown")]
    /\ UNCHANGED <<chanClosed, client, socketOpen>>
\* The RadiusServer does not wait for its goroutines; the RadiusClient ends
CloseRadius(n) ==
    /\ wg[n] = 0
    /\ CloseStep(n, "wg", "radius")
    /\ socketOpen' = [socketOpen EXCEPT ![n] = FALSE]
    /\ client' = [client EXCEPT ![n] = "closed"]
    /\ UNCHANGED <<control, chanClosed>>
\* The channel has room for one command
ClosePost(n) ==
    /\ control[n] = <<>>
    /\ CloseStep(n, "radius", "loop")
    /\ control' = [control EXCEPT ![n] = Append(@, "Close")]
    /\ UNCHANGED <<chanClosed, client, socketOpen>>
CloseChannels(n) ==
    /\ loop[n] = "done"
    /\ CloseStep(n, "loop", "closed")
    /\ chanClosed' = [chanClosed EXCEPT ![n] = TRUE]
    /\ UNCHANGED <<control, client, socketOpen>>

-----------------------------------------------------------------------------
LoopSteps(n) == UpdateTerminated(n) \/ OnUpdate(n) \/ OnControl(n)
Closer(n) == CloseHttp(n) \/ CloseRadius(n) \/ ClosePost(n) \/ CloseChannels(n)
CopySteps(i, d) == SendCopy(i, d) \/ CopyAnswered(i, d) \/ CopyFails(i, d)

\* What runs by itself.  Packets, queries and calls of Close() come if they want to.  None of
\* these goes on forever, so that it is enough that something runs as long as something can.
Running ==
    \/ \E n \in Names : StartClient(n) \/ LoopSteps(n) \/ Closer(n)
    \/ \E i \in Handled : PostUpdate(i)
    \/ \E copy \in sending : CopySteps(copy[1], copy[2])
    \/ \E q \in Queries : OnQuery(q)

Next ==
    \/ Running
    \/ \E p \in Sources : ReadFromOrigin(p)
    \/ \E copy \in sent : ReadCopy(copy[1], copy[2])
    \/ \E q \in Queries : PostQuery(q)
    \/ \E n \in MayClose : CloseBegin(n)

Spec == Init /\ [][Next]_vars
FairSpec == Spec /\ WF_vars(Running)

-----------------------------------------------------------------------------
(* Properties *)

\* The variables keep their types.
TypeOK ==
    /\ store \in [Names -> Nat] /\ wg \in [Names -> Nat]
    /\ \A n \in Names : Len(update[n]) <= 1 /\ Len(control[n]) <= 1
    /\ \A i \in Handled : handling[i].st \in {"new", "posted", "accepted", "rejected", "error"}
    /\ sending \subseteq Handled \X Names /\ acked \subseteq sent
    /\ query \in [Queries -> {"idle", "posted", "answered", "refused"}]

\* Replication does not loop, whatever the configuration: a server that the others know by its
\* name never handles a packet that has been through it ("that would be a loop"), and when
\* names are wrong a packet makes a bounded number of hops ("Session Replica loop aborted").
NoReplicationLoop ==
    \A i \in Handled :
        LET p == handling[i] IN
        /\ Len(p.seenBy) <= MaxSeenBy + 1
        /\ OwnName[p.at] = KnownAs[p.at] => OwnName[p.at] \notin ToSet(Front(p.seenBy))

\* A packet that another server acknowledged is in its store, or a newer one, in whatever order
\* the copies arrived: the answer is sent after the packet was pushed.
AckedIsStored == \A copy \in acked : store[copy[2]] >= handling[copy[1]].ver

\* A server never goes back to an older packet, however late or often the copies arrive.
StoreAdvances == [][\A n \in Names : store'[n] >= store[n]]_vars

\* There is no panic once the clients are created and as long as no Close() was called.
NoPanicInService == crashed => \E n \in Names : closing[n] # "open" \/ client[n] = "nil"

\* When nobody is closed and no copy is given up, the servers of the configuration of one that
\* took an accounting packet come to have it or a newer one for good, directly or, when the
\* packet has seen them, from whoever sent it.
Replicated ==
    <>[](\/ gaveUp # {} \/ crashed \/ \E n \in Names : closing[n] # "open"
         \/ \A i \in Handled :
                handling[i].st = "accepted" /\ ~handling[i].access =>
                    \A d \in SendTo[handling[i].at] : store[d] >= handling[i].ver)

-----------------------------------------------------------------------------
(* Expectations that the code does not meet; see README.md *)

\* "Graceful shutdown", "Make sure goroutines are executed before closing"
NoPanic == ~crashed
=============================================================================
