----------------------------- MODULE RadiusWire -----------------------------
(***************************************************************************)
(* Radius exchanges through a proxy: a client, this program as a proxy (a  *)
(* server on hop 1, a client on hop 2) and a server, all of which encode   *)
(* and decode as this program does. Each hop has its own secret, so that   *)
(* what is hidden is revealed and hidden again. The network is UDP: the    *)
(* packets may be lost, repeated and overtaken, and the identifier of a    *)
(* request that was given up is used again.                                *)
(***************************************************************************)
EXTENDS RadiusCodec, FiniteSets

CONSTANTS Packets,         \* the requests of the client: [code, avps]
          Secrets,         \* the ways to configure them: <<node, hop>> -> secret
          Salt,            \* the random salt
          Ids,             \* bound: the identifiers of a hop
          MaxRequests,     \* bound: the requests of the client
          MaxExtra         \* bound: losses and repetitions

VARIABLES secretOf, \* the secrets as they are configured
          asked,    \* asked[h][id]: the outstanding request, or Nothing
          net,      \* the packets in flight: [hop, answer, bytes]
          proxied,  \* proxied[id]: the request of hop 1 behind id on hop 2
          served,   \* the requests that reached the handler of the server
          results,  \* the answers the client got, with their requests
          sent,     \* the number of requests of the client
          extra,    \* losses, repetitions and requests given up so far
          drawn,    \* the number of random authenticators drawn
          faults    \* packets refused and panics, as records

vars == <<secretOf, asked, net, proxied, served, results, sent, extra, drawn, faults>>

Nothing == [none |-> TRUE]
Hops == {1, 2}
Sender == <<"client", "proxy">>
Receiver == <<"proxy", "server">>

Init ==
    /\ secretOf \in Secrets
    /\ asked = [h \in Hops |-> [id \in Ids |-> Nothing]]
    /\ net = {}
    /\ proxied = [id \in Ids |-> Nothing]
    /\ served = {} /\ results = {} /\ faults = {}
    /\ sent = 0 /\ extra = 0 /\ drawn = 0

\* BuildRandomAuthenticator: no two of sixteen random bytes are the same.
BuildRandomAuthenticator == Fill(32 + drawn, 16)

Datagram(h, answer, bytes) == [hop |-> h, answer |-> answer, bytes |-> bytes]
Fault(node, what) == [node |-> node, what |-> what]

\* UDP may deliver a packet and keep a copy.
Consumed(d) ==
    \/ net' = net \ {d} /\ UNCHANGED extra
    \/ extra < MaxExtra /\ extra' = extra + 1 /\ UNCHANGED net

---------------------------------------------------------------------------
(* The client socket of a hop: a request with a free identifier, whose      *)
(* authenticator is kept for the answer.                                    *)

Ask(h, packet, id, written) ==
    /\ asked[h][id] = Nothing
    /\ asked' = [asked EXCEPT ![h][id] =
                    IF written.st = "ok"
                    THEN [packet |-> packet, auth |-> AuthenticatorOf(written.bytes)]
                    ELSE Nothing]

Sends(h, written) ==
    IF written.st = "ok" THEN {Datagram(h, FALSE, written.bytes)} ELSE {}

Failed(node, result) ==
    IF result.st = "ok" THEN {} ELSE {Fault(node, result.st)}

SendRequest(packet, id) ==
    \E written \in {WritePacket(packet, secretOf[<<"client", 1>>], id,
                                BuildRandomAuthenticator, Salt)} :
        /\ sent < MaxRequests
        /\ Ask(1, packet, id, written)
        /\ net' = net \cup Sends(1, written)
        /\ faults' = faults \cup Failed("client", written)
        /\ sent' = sent + 1 /\ drawn' = drawn + 1
        /\ UNCHANGED <<secretOf, proxied, served, results, extra>>

\* The timer of the request: nobody waits for the answer any more.
GiveUp(h, id) ==
    /\ extra < MaxExtra
    /\ asked[h][id] # Nothing
    /\ asked' = [asked EXCEPT ![h][id] = Nothing]
    /\ extra' = extra + 1
    /\ UNCHANGED <<secretOf, net, proxied, served, results, sent, faults, drawn>>

---------------------------------------------------------------------------
(* The server of a hop: decoded, validated if it is not an Access-Request,  *)
(* and given to the handler.                                                *)

Accepted(bytes, read, secret) ==
    /\ read.st = "ok"
    /\ \/ read.value.code = AccessRequest
       \/ ValidateRequestAuthenticator(bytes, secret)

Dropped(node, bytes, read, secret) ==
    IF read.st = "ok" /\ ~Accepted(bytes, read, secret)
    THEN {Fault(node, "invalid")} ELSE Failed(node, read)

Discard(d, h, read, secret) ==
    /\ ~Accepted(d.bytes, read, secret)
    /\ faults' = faults \cup Dropped(Receiver[h], d.bytes, read, secret)
    /\ Consumed(d)
    /\ UNCHANGED <<secretOf, asked, proxied, served, results, sent, drawn>>

\* The handler of the proxy sends a copy of the request, and keeps the
\* original for the answer.
ProxyRequest(d, id) ==
    LET secret == secretOf[<<"proxy", 1>>] IN
    \E read \in {ReadPacket(d.bytes, secret, ZeroAuthenticator)} :
        /\ d.hop = 1 /\ ~d.answer
        /\ \/ Discard(d, 1, read, secret)
           \/ /\ Accepted(d.bytes, read, secret)
              /\ proxied[id] = Nothing
              /\ \E written \in {WritePacket(read.value, secretOf[<<"proxy", 2>>],
                                             id, BuildRandomAuthenticator, Salt)} :
                     /\ Ask(2, read.value, id, written)
                     /\ \/ /\ net' = (net \ {d}) \cup Sends(2, written)
                           /\ UNCHANGED extra
                        \/ /\ extra < MaxExtra
                           /\ extra' = extra + 1
                           /\ net' = net \cup Sends(2, written)
                     /\ faults' = faults \cup Failed("proxy", written)
                     /\ proxied' = IF written.st # "ok" THEN proxied
                                   ELSE [proxied EXCEPT ![id] = read.value]
              /\ drawn' = drawn + 1
              /\ UNCHANGED <<secretOf, served, results, sent>>

\* The handler of the server answers with the attributes of the request.
ServeRequest(d) ==
    LET secret == secretOf[<<"server", 2>>] IN
    \E read \in {ReadPacket(d.bytes, secret, ZeroAuthenticator)} :
        /\ d.hop = 2 /\ ~d.answer
        /\ \/ Discard(d, 2, read, secret)
           \/ /\ Accepted(d.bytes, read, secret)
              /\ \E written \in {WritePacket(NewRadiusResponse(read.value, TRUE,
                                                               read.value.avps),
                                             secret, read.value.id, ZeroAuthenticator,
                                             Salt)} :
                     /\ net' = (net \ {d}) \cup
                                  (IF written.st = "ok"
                                   THEN {Datagram(2, TRUE, written.bytes)} ELSE {})
                     /\ faults' = faults \cup Failed("server", written)
              /\ served' = served \cup {[code |-> read.value.code,
                                         avps |-> read.value.avps]}
              /\ UNCHANGED <<secretOf, asked, proxied, results, sent, extra, drawn>>

---------------------------------------------------------------------------
(* An answer at the client socket of hop h: the request with its identifier *)
(* is forgotten, and the answer is validated and decoded.                   *)

Answer(d, h) ==
    LET id == d.bytes[2]
        context == asked[h][id]
        secret == secretOf[<<Sender[h], h>>]
    IN  IF ~ValidateResponseAuthenticator(d.bytes, context.auth, secret)
        THEN Refused("badAuthenticator")
        ELSE ReadPacket(d.bytes, secret, context.auth)

Solicited(d, h) == d.hop = h /\ d.answer /\ asked[h][d.bytes[2]] # Nothing

\* Unsolicited or stalled.
StalledAnswer(d) ==
    /\ d.answer
    /\ asked[d.hop][d.bytes[2]] = Nothing
    /\ net' = net \ {d}
    /\ UNCHANGED <<secretOf, asked, proxied, served, results, sent, extra, faults, drawn>>

ProxyAnswer(d) ==
    LET id == d.bytes[2] IN
    /\ Solicited(d, 2)
    /\ \E read \in {Answer(d, 2)} :
           /\ asked' = [asked EXCEPT ![2][id] = Nothing]
           /\ proxied' = [proxied EXCEPT ![id] = Nothing]
           /\ IF read.st # "ok"
              THEN net' = net \ {d} /\ faults' = faults \cup Failed("proxy", read)
              ELSE \E written \in {WritePacket(MakeResponseTo(read.value, proxied[id]),
                                               secretOf[<<"proxy", 1>>],
                                               proxied[id].id, ZeroAuthenticator, Salt)} :
                       /\ net' = (net \ {d}) \cup
                                    (IF written.st = "ok"
                                     THEN {Datagram(1, TRUE, written.bytes)} ELSE {})
                       /\ faults' = faults \cup Failed("proxy", written)
    /\ UNCHANGED <<secretOf, served, results, sent, extra, drawn>>

\* The proxy gives up its request, and with it the one of the client.
ProxyGiveUp(id) ==
    /\ extra < MaxExtra
    /\ proxied[id] # Nothing
    /\ asked' = [asked EXCEPT ![2][id] = Nothing]
    /\ proxied' = [proxied EXCEPT ![id] = Nothing]
    /\ extra' = extra + 1
    /\ UNCHANGED <<secretOf, net, served, results, sent, faults, drawn>>

ClientAnswer(d) ==
    LET id == d.bytes[2] IN
    /\ Solicited(d, 1)
    /\ \E read \in {Answer(d, 1)} :
           /\ asked' = [asked EXCEPT ![1][id] = Nothing]
           /\ Consumed(d)
           /\ faults' = faults \cup Failed("client", read)
           /\ results' = IF read.st # "ok" THEN results
                         ELSE results \cup {[request |-> asked[1][id].packet,
                                             answer |-> [code |-> read.value.code,
                                                         avps |-> read.value.avps]]}
    /\ UNCHANGED <<secretOf, proxied, served, sent, drawn>>

Next ==
    \/ \E packet \in Packets, id \in Ids : SendRequest(packet, id)
    \/ \E id \in Ids : GiveUp(1, id) \/ ProxyGiveUp(id)
    \/ \E d \in net :
           \/ \E id \in Ids : ProxyRequest(d, id)
           \/ ServeRequest(d) \/ ProxyAnswer(d) \/ ClientAnswer(d) \/ StalledAnswer(d)

Spec == Init /\ [][Next]_vars

---------------------------------------------------------------------------
(* The type invariant: bytes on the net, and every proxied request has its  *)
(* outstanding one on hop 2.                                                *)
TypeOK ==
    /\ \A d \in net : \A i \in DOMAIN d.bytes : d.bytes[i] \in 0..255
    /\ \A id \in Ids : proxied[id] # Nothing => asked[2][id] # Nothing
    /\ sent \in 0..MaxRequests /\ extra \in 0..MaxExtra

SecretsAgree == \A h \in Hops : secretOf[<<Sender[h], h>>] = secretOf[<<Receiver[h], h>>]

(***************************************************************************)
(* Where the secrets agree, the server sees only what the client made, with *)
(* the values, tags and vendors they had, although they were split, padded *)
(* and hidden with two secrets on the way.                                 *)
(***************************************************************************)
ServedAsSent == SecretsAgree => served \subseteq Packets

(***************************************************************************)
(* An answer that the client accepts is the one to its request, and to no  *)
(* other that had the identifier before, and its hidden attributes are     *)
(* revealed.                                                               *)
(***************************************************************************)
AnswersItsRequest ==
    \A r \in results :
        /\ r.answer.avps = r.request.avps
        /\ r.answer.code = r.request.code + 1

(***************************************************************************)
(* Where the secrets agree, nothing that this program wrote panics or is   *)
(* refused by its readers: the only packets that fail are answers to a     *)
(* request that was given up, because of their authenticator.              *)
(***************************************************************************)
OnlyLateAnswersFail ==
    SecretsAgree =>
        \A f \in faults : f.what = "badAuthenticator" /\ extra > 0

(***************************************************************************)
(* Where they do not, no answer is accepted, and of the requests only an   *)
(* Access-Request, which has no digest, reaches a handler.                 *)
(***************************************************************************)
WrongSecretRefused ==
    ~SecretsAgree =>
        /\ results = {}
        /\ \A p \in served : p.code = AccessRequest
===========================================================================
