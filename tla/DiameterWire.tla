---------------------------- MODULE DiameterWire ----------------------------
(***************************************************************************)
(* Messages on their way through two connections: an origin, a relay that  *)
(* reads them in the readLoop of one peer and has them written by another, *)
(* and a destination. A connection is a stream of bytes in which nothing   *)
(* but the lengths separates the messages, and may be cut at any byte.     *)
(* Hop 1 goes from the origin to the relay, hop 2 from the relay to the    *)
(* destination. All of them run this program, with dictionaries that may   *)
(* know different commands.                                                *)
(***************************************************************************)
EXTENDS FiniteSets, DiameterCodec

CONSTANTS Messages,     \* the messages the origin may write first
          Followers,    \* and those it may write after another
          Commands,     \* the commands each node knows
          MaxMessages,  \* bound: messages the origin writes
          MaxCuts       \* bound: connections that are lost

VARIABLES put,     \* put[h]: the messages written on hop h
          link,    \* link[h]: the bytes in flight
          got,     \* got[h]: the messages read at the end of hop h
          relayed, \* the indices in got[1] that the relay has written
          cut,     \* the hops whose connection is lost
          down,    \* the hops whose readLoop has ended
          crashed  \* the nodes where a panic ended the process

\* The origin writes what its application made: messages of commands that it
\* knows, not longer than their length can say.
MessageOK(m) ==
    /\ m \in [flags : SUBSET DOMAIN MessageFlags, cmd : 0..MaxLen, app : Word32,
              e2e : Word32, hbh : Word32, avps : Seq(Avps), read : BOOLEAN]
    /\ MessageLen(m) <= MaxLen

ASSUME OriginAssumption ==
    \A m \in Messages \cup Followers :
        MessageOK(m) /\ ~m.read /\ ~EnforcePanics(m, Commands["origin"])

vars == <<put, link, got, relayed, cut, down, crashed>>

Hops == {1, 2}
Writer == <<"origin", "relay">>
Reader == <<"relay", "destination">>

Init ==
    /\ put = [h \in Hops |-> <<>>]
    /\ link = [h \in Hops |-> <<>>]
    /\ got = [h \in Hops |-> <<>>]
    /\ relayed = {} /\ cut = {} /\ down = {} /\ crashed = {}

\* WriteTo into the buffered writer, and its flush.
Put(h, m) ==
    \E written \in {WriteMessage(m, Commands[Writer[h]])} :
        /\ Writer[h] \notin crashed
        /\ h \notin cut
        /\ IF written.st = "panic"
           THEN /\ crashed' = crashed \cup {Writer[h]}
                /\ UNCHANGED <<put, link>>
           ELSE /\ put' = [put EXCEPT ![h] = Append(@, m)]
                /\ link' = [link EXCEPT ![h] = @ \o written.bytes]
                /\ UNCHANGED crashed

Send(m) ==
    /\ Len(put[1]) < MaxMessages
    /\ m \in IF put[1] = <<>> THEN Messages ELSE Followers
    /\ Put(1, m)
    /\ UNCHANGED <<got, relayed, cut, down>>

\* The requests are routed by goroutines of their own, in any order.
Relay(i) ==
    /\ i \in DOMAIN got[1] \ relayed
    /\ Put(2, got[1][i])
    /\ relayed' = relayed \cup {i}
    /\ UNCHANGED <<got, cut, down>>

\* One turn of the readLoop. On a connection that is alive it waits for the
\* bytes that are missing.
Receive(h) ==
    \E result \in {ReadMessage(link[h], 0)} :
        /\ Reader[h] \notin crashed
        /\ h \notin down
        /\ CASE result.st = "ok" ->
                  /\ got' = [got EXCEPT ![h] = Append(@, result.value)]
                  /\ link' = [link EXCEPT ![h] = SubSeq(@, result.at + 1, Len(@))]
                  /\ UNCHANGED <<down, crashed>>
             [] result.st = "error" ->
                  /\ h \in cut
                  /\ down' = down \cup {h}
                  /\ UNCHANGED <<got, link, crashed>>
             [] result.st = "panic" ->
                  /\ crashed' = crashed \cup {Reader[h]}
                  /\ UNCHANGED <<got, link, down>>
        /\ UNCHANGED <<put, relayed, cut>>

\* The connection is lost, with only k of the bytes in flight delivered.
Cut(h, k) ==
    /\ Cardinality(cut) < MaxCuts
    /\ h \notin cut
    /\ link' = [link EXCEPT ![h] = SubSeq(@, 1, k)]
    /\ cut' = cut \cup {h}
    /\ UNCHANGED <<put, got, relayed, down, crashed>>

Next ==
    \/ \E m \in Messages \cup Followers : Send(m)
    \/ \E i \in DOMAIN got[1] : Relay(i)
    \/ \E h \in Hops : Receive(h) \/ \E k \in 0..Len(link[h]) : Cut(h, k)

Spec == Init /\ [][Next]_vars

---------------------------------------------------------------------------
(* The type invariant: bytes on the links, and no more messages than put. *)
TypeOK ==
    /\ \A h \in Hops :
           /\ \A i \in DOMAIN link[h] : link[h][i] \in 0..255
           /\ Len(got[h]) <= Len(put[h])
    /\ relayed \subseteq DOMAIN got[1]
    /\ cut \subseteq Hops /\ down \subseteq cut
    /\ crashed \subseteq {"origin", "relay", "destination"}

(***************************************************************************)
(* The reader of a connection gets what its writer wrote: the same         *)
(* messages with the same values, in order and without gaps, also if the   *)
(* connection is cut in the middle of a message. A short read must never   *)
(* be taken for a value.                                                   *)
(***************************************************************************)
ReadAsWritten ==
    \A h \in Hops : \A i \in DOMAIN got[h] :
        got[h][i] = [put[h][i] EXCEPT !.read = TRUE]

\* Where the message behind one at `start` begins, by the length that it
\* announces; beyond the end if there is no whole header.
NextStart(wire, start) ==
    IF start + 20 > Len(wire) THEN Len(wire) + 1
    ELSE start + LenOf(Slice(wire, start + 1, 3))

\* The hops over `wire` by the announced lengths, without looking inside, end
\* at its end after `count` messages of aligned size.
Framed(wire, count) ==
    LET starts[i \in 0..count] ==
            IF i = 0 THEN 0 ELSE NextStart(wire, starts[i - 1])
    IN  /\ starts[count] = Len(wire)
        /\ \A i \in 1..count : (starts[i] - starts[i - 1]) % 4 = 0

(***************************************************************************)
(* The stream stays in step: what is in flight is exactly the messages     *)
(* that were written and not yet read, as their announced lengths delimit  *)
(* them, and is enough for the reads that ReadFrom makes. It takes the     *)
(* AVPs one by one and counts by itself, so that one byte too many in any  *)
(* of them would shift all the messages behind, and one too few would      *)
(* leave it waiting, without a timeout, on a connection that is alive.     *)
(***************************************************************************)
StreamInStep ==
    \A h \in Hops \ cut :
        /\ Framed(link[h], Len(put[h]) - Len(got[h]))
        /\ link[h] # <<>> => ReadMessage(link[h], 0).st # "error"

(***************************************************************************)
(* No message that this program wrote, whole or cut, panics its reader,    *)
(* and the relay panics at no other message than the two kinds for which   *)
(* WriteTo does: one with an empty group, and a request whose command it   *)
(* does not know.                                                          *)
(***************************************************************************)
PanicsExplained ==
    /\ "origin" \notin crashed /\ "destination" \notin crashed
    /\ "relay" \in crashed =>
           \E i \in DOMAIN got[1] :
               LET m == got[1][i]
               IN  \/ \E j \in DOMAIN m.avps : EmptyGroupIn(m.avps[j])
                   \/ /\ "request" \in m.flags
                      /\ <<m.app, m.cmd>> \notin Commands["relay"]

(***************************************************************************)
(* Expected, and not so: a message that came in can be passed on.          *)
(***************************************************************************)
NoPanic == crashed = {}
===========================================================================
