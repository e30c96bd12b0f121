--------------------------- MODULE DiameterRouter ---------------------------
(***************************************************************************)
(* The DiameterRouter (router/diameter_router.go): an actor that keeps the   *)
(* table of peers, creates the active ones, takes in those of accepted       *)
(* connections, routes requests to them or to handlers, and shuts down.      *)
(*                                                                          *)
(* A DiameterPeer appears as what it does to the router: it reports PeerUp   *)
(* at most once, if SetDown() does not come first, and then PeerDown; it     *)
(* answers every exchange that begins before its Close() has waited for      *)
(* them.  DiameterPeer has the details, and the cases in which a peer does   *)
(* not keep to this.  SetDown() of a peer does not wait.                     *)
(***************************************************************************)
EXTENDS Integers, Sequences, FiniteSets

CONSTANTS
    Hosts,          \* Diameter-Hosts that may be configured
    ActiveHosts,    \* those with ConnectionPolicy "active"
    Peers,          \* DiameterPeer objects
    NoPeer,         \* the nil pointer
    NoHost,         \* the host of a passive peer that has received no CER
    Reqs,           \* requests given to RouteDiameterRequest, one response channel each
    PeersOf,        \* the peers of the routing rule of each request; {} for a handler
    Unroutable,     \* requests without a routing rule
    Capacity,       \* CONTROL_QUEUE_SIZE and DIAMETER_REQUESTS_QUEUE_SIZE
    MayClose,       \* is Close() called?
    LateRequests,   \* may RouteDiameterRequest be called once Close() has started?
    MaxAccepts,     \* bound: connections accepted
    MaxReconfigs    \* bound: changes of diameterPeers.json

ASSUME HostsAssumption ==
    /\ ActiveHosts \subseteq Hosts
    /\ NoPeer \notin Peers /\ NoHost \notin Hosts
    /\ PeersOf \in [Reqs -> SUBSET Hosts]
    /\ Unroutable \subseteq Reqs
ASSUME RouterBounds ==
    /\ Capacity \in Nat \ {0} /\ MaxAccepts \in Nat /\ MaxReconfigs \in Nat
    /\ MayClose \in BOOLEAN /\ LateRequests \in BOOLEAN

VARIABLES
    \* the event loop
    status,         \* router.status: "operational", "terminated"
    loop,           \* "running", "done", "stuck" writing to a nil channel
    listed,         \* the keys of diameterPeersTable
    peerOf,         \* the peer field of each entry; as in a Go map, nil if there is none
    engaged,        \* the hosts whose isEngaged is true
    \* channels
    control,        \* peerControlChannel: [kind, peer]
    commands,       \* routerControlChannel
    requests,       \* diameterRequestsChan
    done,           \* routerDoneChannel is closed
    chansClosed,    \* the three channels above it are closed
    crashed,        \* a goroutine panicked
    \* peers
    life,           \* "unborn", "starting", "up", "down", "closing" (Close() runs), "closed"
    hostOf,         \* the Diameter-Host of each peer
    told,           \* the peers whose SetDown() was called
    \* requests
    caller,         \* progress of RouteDiameterRequest
    rchan,          \* how many times each response channel was written
    sending,        \* <<request, peer>>: goroutines about to call DiameterExchange
    inPeer,         \* <<request, peer>>: exchanges in progress
    handling,       \* requests that a handler is treating
    lost,           \* requests given to a peer that was already closed
    \* the rest
    conf,           \* the hosts in diameterPeers.json
    accepted,       \* the accepter loop has a connection and has not created its peer yet
    closing,        \* progress of Close()
    accepts, reconfigs

loopVars == <<status, loop, done>>
tableVars == <<listed, peerOf, engaged>>
chanVars == <<control, commands, requests, chansClosed>>
peerVars == <<life, hostOf, told>>
requestVars == <<caller, rchan, sending, inPeer, handling, lost>>
confVars == <<conf, accepted, closing, accepts, reconfigs>>
vars == <<loopVars, tableVars, chanVars, crashed, peerVars, requestVars, confVars>>

Unborn == {p \in Peers : life[p] = "unborn"}

\* One new peer for each of these hosts
NewPeers(hs) == {f \in [hs -> Unborn] : \A g, h \in hs : f[g] = f[h] => g = h}

-----------------------------------------------------------------------------
(* updatePeersTable *)

\* Entries of hosts that are not configured any more: deleted if they have no peer
Unconfigured == listed \ conf
Deleted == {h \in Unconfigured : peerOf[h] = NoPeer}

\* Active hosts that need a peer
Wanted_NotListed == {h \in conf \cap ActiveHosts : h \notin listed}
Wanted == {h \in conf \cap ActiveHosts : peerOf[h] = NoPeer}

SetDownPeers == {peerOf[h] : h \in Unconfigured \ Deleted}

\* isEngaged is cleared in a copy of the entry of an unconfigured host: it stays as it was
UpdatePeersTable ==
    \E new \in NewPeers(Wanted) :
      LET born == {new[h] : h \in Wanted} IN
      /\ listed' = (listed \ Deleted) \cup conf
      /\ peerOf' = [h \in Hosts |-> IF h \in Wanted THEN new[h] ELSE peerOf[h]]
      /\ engaged' = engaged \ (Deleted \cup Wanted)
      /\ life' = [p \in Peers |-> IF p \in born THEN "starting" ELSE life[p]]
      /\ hostOf' = [p \in Peers |-> IF p \in born THEN CHOOSE h \in Wanted : new[h] = p ELSE hostOf[p]]
      /\ told' = told \cup SetDownPeers

\* startAndAccept runs updatePeersTable on an empty table
Init ==
    /\ conf = Hosts /\ listed = Hosts /\ engaged = {}
    /\ \E new \in {f \in [ActiveHosts -> Peers] : \A g, h \in ActiveHosts : f[g] = f[h] => g = h} :
         /\ peerOf = [h \in Hosts |-> IF h \in ActiveHosts THEN new[h] ELSE NoPeer]
         /\ hostOf = [p \in Peers |-> IF \E h \in ActiveHosts : new[h] = p
                                      THEN CHOOSE h \in ActiveHosts : new[h] = p ELSE NoHost]
         /\ life = [p \in Peers |-> IF \E h \in ActiveHosts : new[h] = p THEN "starting" ELSE "unborn"]
    /\ told = {}
    /\ status = "operational" /\ loop = "running" /\ done = FALSE
    /\ control = <<>> /\ commands = <<>> /\ requests = <<>> /\ chansClosed = FALSE /\ crashed = FALSE
    /\ caller = [r \in Reqs |-> "idle"]
    /\ rchan = [r \in Reqs |-> 0]
    /\ sending = {} /\ inPeer = {} /\ handling = {} /\ lost = {}
    /\ accepted = FALSE /\ closing = "idle"
    /\ accepts = 0 /\ reconfigs = 0

-----------------------------------------------------------------------------
(* Peers, seen from the router *)

\* A peer writes to peerControlChannel: waits while it is full, panics if it is closed
Report(kind, p) ==
    /\ ~crashed
    /\ chansClosed \/ Len(control) < Capacity
    /\ control' = IF chansClosed THEN control ELSE Append(control, [kind |-> kind, peer |-> p])
    /\ crashed' = chansClosed
    /\ UNCHANGED <<commands, requests, chansClosed>>

\* The peer gets engaged.  A passive one learns its host, which must be configured, from the CER
PeerUp(p, h) ==
    /\ life[p] = "starting"
    /\ hostOf[p] = h \/ (hostOf[p] = NoHost /\ h \in conf)
    /\ Report("up", p)
    /\ life' = [life EXCEPT ![p] = "up"]
    /\ hostOf' = [hostOf EXCEPT ![p] = h]
    /\ UNCHANGED <<loopVars, tableVars, told, requestVars, confVars>>

\* The peer is set down, cannot connect or loses its connection
PeerDown(p) ==
    /\ life[p] \in {"starting", "up"}
    /\ Report("down", p)
    /\ life' = [life EXCEPT ![p] = "down"]
    /\ UNCHANGED <<loopVars, tableVars, hostOf, told, requestVars, confVars>>

\* Close() of the peer has waited for its exchanges
PeerClosed(p) ==
    /\ ~crashed
    /\ life[p] = "closing"
    /\ \A x \in inPeer : x[2] # p
    /\ life' = [life EXCEPT ![p] = "closed"]
    /\ UNCHANGED <<loopVars, tableVars, chanVars, crashed, hostOf, told, requestVars, confVars>>

-----------------------------------------------------------------------------
(* The accepter loop, and changes of the configuration *)

\* The listener is closed when the router is set down
Accept ==
    /\ ~crashed
    /\ status = "operational"
    /\ ~accepted
    /\ accepts < MaxAccepts
    /\ accepts' = accepts + 1
    /\ accepted' = TRUE
    /\ UNCHANGED <<loopVars, tableVars, chanVars, crashed, peerVars, requestVars, conf, closing, reconfigs>>

NewPassivePeer ==
    /\ ~crashed
    /\ accepted
    /\ accepted' = FALSE
    /\ \E p \in Unborn : life' = [life EXCEPT ![p] = "starting"]
    /\ UNCHANGED <<loopVars, tableVars, chanVars, crashed, hostOf, told, requestVars, conf, closing,
                   accepts, reconfigs>>

Reconfigure ==
    /\ ~crashed
    /\ reconfigs < MaxReconfigs
    /\ reconfigs' = reconfigs + 1
    /\ conf' \in SUBSET Hosts
    /\ UNCHANGED <<loopVars, tableVars, chanVars, crashed, peerVars, requestVars, accepted, closing, accepts>>

-----------------------------------------------------------------------------
(* RouteDiameterRequest, and the goroutines that answer *)

\* wg.Add(1), then the send
RouteBegin(r) ==
    /\ ~crashed
    /\ caller[r] = "idle"
    /\ LateRequests \/ closing = "idle"
    /\ caller' = [caller EXCEPT ![r] = "sending"]
    /\ UNCHANGED <<loopVars, tableVars, chanVars, crashed, peerVars, rchan, sending, inPeer, handling,
                   lost, confVars>>

RoutePost(r) ==
    /\ ~crashed
    /\ caller[r] = "sending"
    /\ chansClosed \/ Len(requests) < Capacity
    /\ requests' = IF chansClosed THEN requests ELSE Append(requests, r)
    /\ crashed' = chansClosed
    /\ caller' = [caller EXCEPT ![r] = "sent"]
    /\ UNCHANGED <<loopVars, tableVars, control, commands, chansClosed, peerVars, rchan, sending, inPeer,
                   handling, lost, confVars>>

\* The response channel is written and closed: a panic if it was closed before
Reply(r) ==
    /\ rchan' = [rchan EXCEPT ![r] = @ + 1]
    /\ crashed' = (rchan[r] > 0)

\* DiameterExchange begins.  A closed peer panics or never answers
ExchangeBegin(r, p) ==
    /\ ~crashed
    /\ <<r, p>> \in sending
    /\ sending' = sending \ {<<r, p>>}
    /\ \/ /\ life[p] # "closed"
          /\ inPeer' = inPeer \cup {<<r, p>>}
          /\ UNCHANGED <<crashed, lost>>
       \/ /\ life[p] = "closed"
          /\ crashed' \in BOOLEAN
          /\ lost' = lost \cup {r}
          /\ UNCHANGED inPeer
    /\ UNCHANGED <<loopVars, tableVars, chanVars, peerVars, caller, rchan, handling, confVars>>

\* The answer, a timeout or another error comes from the peer
ExchangeEnd(r, p) ==
    /\ ~crashed
    /\ <<r, p>> \in inPeer
    /\ inPeer' = inPeer \ {<<r, p>>}
    /\ Reply(r)
    /\ UNCHANGED <<loopVars, tableVars, chanVars, peerVars, caller, sending, handling, lost, confVars>>

\* The http or local handler returns
HandlerEnd(r) ==
    /\ ~crashed
    /\ r \in handling
    /\ handling' = handling \ {r}
    /\ Reply(r)
    /\ UNCHANGED <<loopVars, tableVars, chanVars, peerVars, caller, sending, inPeer, lost, confVars>>

-----------------------------------------------------------------------------
(* The event loop: select takes from any of the channels that is ready *)

Idle == ~crashed /\ loop = "running"

\* The ticker of the peers table, stopped when the router is set down
OnTick ==
    /\ Idle
    /\ status = "operational"
    /\ UpdatePeersTable
    /\ UNCHANGED <<loopVars, chanVars, crashed, requestVars, confVars>>

TakeEvent(kind) ==
    /\ Idle
    /\ control # <<>> /\ Head(control).kind = kind
    /\ control' = Tail(control)
    /\ UNCHANGED <<commands, requests, chansClosed, requestVars, confVars>>

Sender == Head(control).peer

\* The peer that reports is in the table, finds an engaged one there, or takes the place
OnPeerUp ==
    LET h == hostOf[Sender]
        old == peerOf[h]
        last == IF status = "terminated" THEN {Sender} ELSE {}
    IN  /\ TakeEvent("up")
        /\ \/ /\ h \in listed /\ old = Sender
              /\ engaged' = engaged \cup {h}
              /\ told' = told \cup last
              /\ UNCHANGED peerOf
           \/ /\ h \in listed /\ old \notin {Sender, NoPeer} /\ h \in engaged
              /\ told' = told \cup {Sender}
              /\ UNCHANGED <<peerOf, engaged>>
           \/ /\ h \in listed /\ old # Sender /\ (old = NoPeer \/ h \notin engaged)
              /\ peerOf' = [peerOf EXCEPT ![h] = Sender]
              /\ engaged' = engaged \cup {h}
              /\ told' = told \cup ({old} \ {NoPeer}) \cup last
           \/ /\ h \notin listed
              /\ told' = told \cup {Sender}
              /\ UNCHANGED <<peerOf, engaged>>
        /\ UNCHANGED <<loopVars, listed, crashed, life, hostOf>>

\* close(routerDoneChannel) when no entry has a peer: a panic if it was closed before
CheckExit_NotSignalled(table) == UNCHANGED <<done, crashed>>
CheckExit(table) ==
    LET exit == \A h \in listed : table[h] = NoPeer IN
    /\ done' = (done \/ exit)
    /\ crashed' = (done /\ exit)

Forgotten_KeptInTable(p) == peerOf
Forgotten(p) == [h \in Hosts |-> IF peerOf[h] = p THEN NoPeer ELSE peerOf[h]]

Disengaged_KeptEngaged(p) == engaged
Disengaged(p) == {h \in engaged : peerOf[h] # p}

\* Close() of the peer is started.  The entry of a host that is not configured any more is meant
\* to be deleted, but with the key of a configuration that was not found: it stays until a tick
OnPeerDown ==
    /\ TakeEvent("down")
    /\ life' = [life EXCEPT ![Sender] = "closing"]
    /\ peerOf' = Forgotten(Sender)
    /\ engaged' = Disengaged(Sender)
    /\ \/ status = "terminated" /\ CheckExit(Forgotten(Sender))
       \/ status = "operational" /\ UNCHANGED <<done, crashed>>
    /\ UNCHANGED <<status, loop, listed, hostOf, told>>

\* A request is given to every engaged peer of its route, whatever the policy
Targets(r) == {peerOf[h] : h \in PeersOf[r] \cap engaged}

Refused_UnlessNoPeer(r) == status = "terminated" \/ r \in Unroutable
Refused(r) == status = "terminated" \/ r \in Unroutable \/ (PeersOf[r] # {} /\ Targets(r) = {})

OnRequest ==
    LET r == Head(requests) IN
    /\ Idle
    /\ requests # <<>>
    /\ requests' = Tail(requests)
    /\ \/ Refused(r) /\ Reply(r) /\ UNCHANGED <<sending, handling>>
       \/ /\ ~Refused(r) /\ PeersOf[r] # {}
          /\ sending' = sending \cup {<<r, p>> : p \in Targets(r)}
          /\ UNCHANGED <<crashed, rchan, handling>>
       \/ /\ ~Refused(r) /\ PeersOf[r] = {}
          /\ handling' = handling \cup {r}
          /\ UNCHANGED <<crashed, rchan, sending>>
    /\ UNCHANGED <<loopVars, tableVars, control, commands, chansClosed, peerVars, caller, inPeer,
                   lost, confVars>>

\* A request channel that is closed gives zero values: the error is written to a nil channel
OnClosedRequests ==
    /\ Idle
    /\ chansClosed /\ requests = <<>>
    /\ loop' = "stuck"
    /\ UNCHANGED <<status, done, tableVars, chanVars, crashed, peerVars, requestVars, confVars>>

TakeCommand(command) ==
    /\ Idle
    /\ commands # <<>> /\ Head(commands) = command
    /\ commands' = Tail(commands)
    /\ UNCHANGED <<tableVars, control, requests, chansClosed, life, hostOf, requestVars, confVars>>

OnSetDown ==
    /\ TakeCommand("SetDown")
    /\ status' = "terminated"
    /\ told' = told \cup ({peerOf[h] : h \in listed} \ {NoPeer})
    /\ CheckExit(peerOf)
    /\ UNCHANGED loop

OnClose ==
    /\ TakeCommand("Close")
    /\ loop' = "done"
    /\ UNCHANGED <<status, done, crashed, told>>

-----------------------------------------------------------------------------
(* Close() *)

CloseStep(from, to) ==
    /\ ~crashed
    /\ closing = from
    /\ closing' = to
    /\ UNCHANGED <<loopVars, tableVars, control, requests, crashed, peerVars, requestVars, conf,
                   accepted, accepts, reconfigs>>

CloseBegin ==
    /\ MayClose
    /\ CloseStep("idle", "done")
    /\ commands' = Append(commands, "SetDown")
    /\ UNCHANGED chansClosed

CloseDone ==
    /\ done
    /\ CloseStep("done", "wg")
    /\ UNCHANGED <<commands, chansClosed>>

\* router.wg counts the requests that are being sent, or wait in the channel
CloseGroupDone ==
    /\ requests = <<>> /\ \A r \in Reqs : caller[r] # "sending"
    /\ CloseStep("wg", "post")
    /\ UNCHANGED <<commands, chansClosed>>

ClosePost ==
    /\ CloseStep("post", "close")
    /\ commands' = Append(commands, "Close")
    /\ UNCHANGED chansClosed

CloseChannels ==
    /\ CloseStep("close", "closed")
    /\ chansClosed' = TRUE
    /\ UNCHANGED commands

-----------------------------------------------------------------------------
EventLoop ==
    \/ OnPeerUp \/ OnPeerDown
    \/ OnRequest \/ OnClosedRequests
    \/ OnSetDown \/ OnClose

Closer == CloseDone \/ CloseGroupDone \/ ClosePost \/ CloseChannels

Next ==
    \/ EventLoop \/ OnTick
    \/ CloseBegin \/ Closer
    \/ \E p \in Peers, h \in Hosts : PeerUp(p, h)
    \/ \E p \in Peers : PeerDown(p) \/ PeerClosed(p)
    \/ Accept \/ NewPassivePeer
    \/ Reconfigure
    \/ \E r \in Reqs : RouteBegin(r) \/ RoutePost(r) \/ HandlerEnd(r)
    \/ \E r \in Reqs, p \in Peers : ExchangeBegin(r, p) \/ ExchangeEnd(r, p)

\* Goroutines run when they can; select, which chooses at random among the channels that are
\* ready, leaves none of them out for ever; the ticker ticks; peers that are set down report it
\* (ShutdownCompletes of DiameterPeer), and exchanges and handlers end, by their timeouts at the
\* latest.  Nothing is assumed of the connections of the peers, nor of who calls the router.
Fairness ==
    /\ WF_vars(OnPeerUp \/ OnPeerDown) /\ WF_vars(OnRequest) /\ WF_vars(OnSetDown \/ OnClose)
    /\ WF_vars(OnTick)
    /\ WF_vars(Closer)
    /\ \A p \in Peers : WF_vars(p \in told /\ PeerDown(p)) /\ WF_vars(PeerClosed(p))
    /\ \A r \in Reqs : WF_vars(RoutePost(r)) /\ WF_vars(HandlerEnd(r))
    /\ \A r \in Reqs, p \in Peers : WF_vars(ExchangeBegin(r, p)) /\ WF_vars(ExchangeEnd(r, p))

Spec == Init /\ [][Next]_vars
FairSpec == Spec /\ Fairness

-----------------------------------------------------------------------------
(* Properties *)

\* The variables keep their types.
TypeOK ==
    /\ status \in {"operational", "terminated"} /\ loop \in {"running", "done", "stuck"}
    /\ listed \subseteq Hosts /\ engaged \subseteq Hosts /\ peerOf \in [Hosts -> Peers \cup {NoPeer}]
    /\ control \in Seq([kind : {"up", "down"}, peer : Peers])
    /\ commands \in Seq({"SetDown", "Close"}) /\ requests \in Seq(Reqs)
    /\ done \in BOOLEAN /\ chansClosed \in BOOLEAN /\ crashed \in BOOLEAN
    /\ life \in [Peers -> {"unborn", "starting", "up", "down", "closing", "closed"}]
    /\ hostOf \in [Peers -> Hosts \cup {NoHost}] /\ told \subseteq Peers
    /\ caller \in [Reqs -> {"idle", "sending", "sent"}] /\ rchan \in [Reqs -> Nat]
    /\ sending \subseteq Reqs \X Peers /\ inPeer \subseteq Reqs \X Peers
    /\ handling \subseteq Reqs /\ lost \subseteq Reqs
    /\ conf \subseteq Hosts /\ accepted \in BOOLEAN
    /\ closing \in {"idle", "done", "wg", "post", "close", "closed"}
    /\ accepts \in Nat /\ reconfigs \in Nat

Waiting(kind, p) == \E i \in 1..Len(control) : control[i] = [kind |-> kind, peer |-> p]

\* A peer that was given to Close() is not in the table and has no event waiting: the router has
\* no way left to call SetDown() or DiameterExchange() on it, which would use a closed channel,
\* except for exchanges that it has already started in goroutines.
ClosedPeersForgotten ==
    \A p \in Peers : life[p] \in {"closing", "closed"} =>
        /\ \A h \in Hosts : peerOf[h] # p
        /\ ~Waiting("up", p) /\ ~Waiting("down", p)

\* A host is engaged only with a peer that reported PeerUp for that very host and whose PeerDown
\* was not handled: requests are not given to a nil peer, nor to the peer of another host.
EngagedPeersUp ==
    \A h \in engaged : /\ h \in listed /\ peerOf[h] # NoPeer
                       /\ hostOf[peerOf[h]] = h
                       /\ life[peerOf[h]] \in {"up", "down"} /\ ~Waiting("up", peerOf[h])

\* There is one connection for each Diameter-Host: a live peer that has lost the place in the
\* table to another one, or that was never given it, is told to go down; none is left connected
\* and unknown to the router.  (A connection that has not sent its CER is not known yet.)
NoStrayPeers ==
    crashed \/ \A p \in Peers :
        life[p] \in {"starting", "up"} /\ hostOf[p] # NoHost /\ p \notin told =>
            Waiting("up", p) \/ peerOf[hostOf[p]] = p

\* A response channel is written at most once: it is closed after the first value, and a second
\* send would panic.
OneAnswerPerRequest == \A r \in Reqs : rchan[r] <= 1

\* When the channels of the router are closed no peer is left that could report to them.
NoReporterLeft == chansClosed => \A p \in Peers : life[p] \notin {"starting", "up"}

\* Every request is answered, unless it was given to a peer that was closed in the meantime.
RequestAnswered ==
    \A r \in Reqs : caller[r] = "sending" ~> (rchan[r] > 0 \/ r \in lost \/ crashed)

\* Close() finishes: the peers of the table go down one by one and the router notices the last.
CloseCompletes == (closing # "idle") ~> (closing = "closed" \/ crashed)

\* The peer of an active host that went down is replaced ("another peer is created when checking
\* periodically the peers table"), as long as the host is configured and the router operates.
ActiveRedialed ==
    \A h \in ActiveHosts :
        (h \in conf /\ peerOf[h] = NoPeer) ~>
            \/ peerOf[h] # NoPeer \/ h \notin conf
            \/ status = "terminated" \/ crashed
            \/ Cardinality(Unborn) < Cardinality(ActiveHosts)  \* the bound of the model
=============================================================================
