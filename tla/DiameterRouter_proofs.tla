------------------------ MODULE DiameterRouter_proofs ------------------------
(***************************************************************************)
(* Proofs about the peers table of DiameterRouter, for any number of hosts,  *)
(* peers, requests and connections, with changes of the configuration and    *)
(* Close() at any time.                                                      *)
(***************************************************************************)
EXTENDS DiameterRouter, TLAPS

Events == [kind : {"up", "down"}, peer : Peers]

\* The types that the table depends on
TableTypes ==
    /\ listed \subseteq Hosts /\ engaged \subseteq Hosts /\ conf \subseteq Hosts
    /\ peerOf \in [Hosts -> Peers \cup {NoPeer}]
    /\ hostOf \in [Peers -> Hosts \cup {NoHost}]
    /\ life \in [Peers -> {"unborn", "starting", "up", "down", "closing", "closed"}]
    /\ control \in Seq(Events)

\* Two events of a peer in the channel are its PeerUp and its PeerDown, in this order
InOrder ==
    \A i, j \in 1..Len(control) :
        i < j /\ control[i].peer = control[j].peer => control[i].kind = "up" /\ control[j].kind = "down"

\* What the events in the channel say of the peers
EventsTrue ==
    \A p \in Peers :
        /\ Waiting("up", p) => life[p] \in {"up", "down"} /\ hostOf[p] \in Hosts
        /\ Waiting("down", p) => life[p] = "down"

\* What the table says of the peers
TableTrue ==
    \A h \in Hosts : peerOf[h] # NoPeer =>
        /\ h \in listed /\ hostOf[peerOf[h]] = h
        /\ life[peerOf[h]] \in {"starting", "up", "down"}

UnbornUnknown == \A p \in Unborn : hostOf[p] = NoHost

TableInv ==
    /\ TableTypes /\ InOrder /\ EventsTrue /\ TableTrue /\ UnbornUnknown
    /\ EngagedPeersUp /\ NoStrayPeers

-----------------------------------------------------------------------------
(* The channel *)

\* A report that does not panic adds one event at the end of the channel.
LEMMA ReportAppends ==
    ASSUME TableTypes, NEW kind \in {"up", "down"}, NEW p \in Peers, Report(kind, p), ~chansClosed
    PROVE  /\ control' = Append(control, [kind |-> kind, peer |-> p])
           /\ control' \in Seq(Events)
           /\ \A k \in {"up", "down"}, q \in Peers :
                Waiting(k, q)' <=> Waiting(k, q) \/ (k = kind /\ q = p)
  <1> DEFINE e == [kind |-> kind, peer |-> p]
  <1>1. control' = Append(control, e) /\ e \in Events /\ control \in Seq(Events)
    BY DEF Report, TableTypes, Events
  <1>2. /\ Len(control') = Len(control) + 1 /\ Len(control) \in Nat
        /\ \A i \in 1..Len(control) : control'[i] = control[i]
        /\ control'[Len(control) + 1] = e
        /\ control' \in Seq(Events)
    BY <1>1
  <1>3. ASSUME NEW k \in {"up", "down"}, NEW q \in Peers
        PROVE  Waiting(k, q)' <=> Waiting(k, q) \/ (k = kind /\ q = p)
    <2> DEFINE f == [kind |-> k, peer |-> q]
    <2>1. f = e <=> k = kind /\ q = p
      OBVIOUS
    <2>2. (\E i \in 1..Len(control') : control'[i] = f) <=> (\E i \in 1..Len(control) : control[i] = f) \/ f = e
      <3> HIDE DEF e, f
      <3> QED BY <1>2
    <2> QED
      BY <2>1, <2>2 DEF Waiting
  <1> QED
    BY <1>1, <1>2, <1>3

\* A report, also one that panics, leaves the events in order and the other peers alone.
LEMMA ReportEffect ==
    ASSUME TableTypes, InOrder, NEW kind \in {"up", "down"}, NEW p \in Peers, Report(kind, p),
           ~Waiting("down", p), kind = "up" => ~Waiting("up", p)
    PROVE  /\ control' \in Seq(Events) /\ InOrder'
           /\ \A k \in {"up", "down"}, q \in Peers : Waiting(k, q)' => Waiting(k, q) \/ (k = kind /\ q = p)
           /\ crashed' \/ (\A k \in {"up", "down"}, q \in Peers :
                             Waiting(k, q)' <=> Waiting(k, q) \/ (k = kind /\ q = p))
  <1>1. CASE chansClosed
    <2>1. control' = control /\ crashed'
      BY <1>1 DEF Report
    <2> QED
      BY <2>1 DEF TableTypes, InOrder, Waiting
  <1>2. CASE ~chansClosed
    <2> DEFINE e == [kind |-> kind, peer |-> p]
    <2>1. /\ control' = Append(control, e) /\ control' \in Seq(Events)
          /\ \A k \in {"up", "down"}, q \in Peers : Waiting(k, q)' <=> Waiting(k, q) \/ (k = kind /\ q = p)
      BY <1>2, ReportAppends
    <2>2. /\ Len(control') = Len(control) + 1 /\ Len(control) \in Nat
          /\ \A i \in 1..Len(control) : control'[i] = control[i] /\ control[i] \in Events
          /\ control'[Len(control) + 1] = e
      BY <2>1 DEF TableTypes
    <2>3. ASSUME NEW i \in 1..Len(control), control[i].peer = p PROVE control[i].kind = "up" /\ kind = "down"
      <3>1. control[i] = [kind |-> control[i].kind, peer |-> p] /\ control[i].kind \in {"up", "down"}
        BY <2>2, <2>3 DEF Events
      <3>2. Waiting(control[i].kind, p)
        BY <3>1 DEF Waiting
      <3> QED
        BY <3>1, <3>2
    <2>4. InOrder'
      <3> SUFFICES ASSUME NEW i \in 1..Len(control'), NEW j \in 1..Len(control'), i < j,
                          control'[i].peer = control'[j].peer
                   PROVE  control'[i].kind = "up" /\ control'[j].kind = "down"
        BY DEF InOrder
      <3>1. i \in 1..Len(control) /\ control'[i] = control[i]
        BY <2>2
      <3>2. CASE j \in 1..Len(control)
        BY <3>1, <3>2, <2>2 DEF InOrder
      <3>3. CASE j = Len(control) + 1
        <4>1. control'[j] = e /\ e.peer = p /\ e.kind = kind
          BY <3>3, <2>2
        <4> QED
          BY <4>1, <3>1, <2>3
      <3> QED
        BY <3>2, <3>3, <2>2
    <2> QED
      BY <2>1, <2>4
  <1> QED
    BY <1>1, <1>2

\* The event that is taken is the first of its peer, and the only one if it is PeerDown.
LEMMA TakeEffect ==
    ASSUME TableTypes, InOrder, NEW kind \in {"up", "down"}, TakeEvent(kind), NEW s, s = Sender
    PROVE  /\ s \in Peers /\ Waiting(kind, s)
           /\ control' \in Seq(Events) /\ InOrder'
           /\ \A k \in {"up", "down"}, q \in Peers : Waiting(k, q)' => Waiting(k, q)
           /\ \A k \in {"up", "down"}, q \in Peers \ {s} : Waiting(k, q) => Waiting(k, q)'
           /\ ~Waiting("up", s)'
           /\ kind = "down" => ~Waiting("down", s)'
  <1>1. /\ control \in Seq(Events) /\ control # <<>> /\ control' = Tail(control)
        /\ control[1].kind = kind /\ control[1].peer = s
    BY DEF TableTypes, TakeEvent, Sender
  <1>2. /\ Len(control) \in Nat \ {0} /\ Len(control') = Len(control) - 1
        /\ control' \in Seq(Events)
        /\ \A i \in 1..Len(control) : control[i] \in Events
        /\ \A i \in 1..Len(control') : control'[i] = control[i + 1]
    BY <1>1
  <1>3. s \in Peers /\ control[1] = [kind |-> kind, peer |-> s]
    BY <1>1, <1>2 DEF Events
  <1>4. Waiting(kind, s)
    BY <1>2, <1>3 DEF Waiting
  <1>5. InOrder'
    <2> SUFFICES ASSUME NEW i \in 1..Len(control'), NEW j \in 1..Len(control'), i < j,
                        control'[i].peer = control'[j].peer
                 PROVE  control'[i].kind = "up" /\ control'[j].kind = "down"
      BY DEF InOrder
    <2>1. i + 1 \in 1..Len(control) /\ j + 1 \in 1..Len(control) /\ i + 1 < j + 1
      BY <1>2
    <2> QED
      BY <2>1, <1>2 DEF InOrder
  <1>6. ASSUME NEW k \in {"up", "down"}, NEW q \in Peers, Waiting(k, q)' PROVE Waiting(k, q)
    BY <1>6, <1>2 DEF Waiting
  <1>7. ASSUME NEW k \in {"up", "down"}, NEW q \in Peers \ {s}, Waiting(k, q) PROVE Waiting(k, q)'
    <2>1. PICK i \in 1..Len(control) : control[i] = [kind |-> k, peer |-> q]
      BY <1>7 DEF Waiting
    <2>2. i # 1
      BY <2>1, <1>1
    <2>3. i - 1 \in 1..Len(control') /\ control'[i - 1] = control[i]
      BY <2>2, <1>2
    <2> QED
      BY <2>1, <2>3 DEF Waiting
  <1>8. ASSUME NEW k \in {"up", "down"}, Waiting(k, s)' PROVE kind = "up" /\ k = "down"
    <2>1. PICK i \in 1..Len(control') : control'[i] = [kind |-> k, peer |-> s]
      BY <1>8 DEF Waiting
    <2>2. i + 1 \in 1..Len(control) /\ 1 \in 1..Len(control) /\ 1 < i + 1 /\ control[i + 1] = [kind |-> k, peer |-> s]
      BY <2>1, <1>2
    <2> QED
      BY <2>2, <1>1 DEF InOrder
  <1>9. ~Waiting("up", s)' /\ (kind = "down" => ~Waiting("down", s)')
    BY <1>8
  <1> QED
    BY <1>2, <1>3, <1>4, <1>5, <1>6, <1>7, <1>9

-----------------------------------------------------------------------------
(* The steps *)

\* A step that leaves the table, the peers and their events alone, but may set peers down.
LEMMA Untouched ==
    ASSUME TableInv, ~crashed, UNCHANGED <<tableVars, control, life, hostOf>>,
           told \subseteq told', conf' \subseteq Hosts
    PROVE  TableInv'
  <1>1. \A k, q : Waiting(k, q)' <=> Waiting(k, q)
    BY DEF Waiting
  <1>2. TableTypes' /\ InOrder' /\ EventsTrue' /\ TableTrue' /\ UnbornUnknown'
    BY <1>1 DEF TableInv, tableVars, TableTypes, InOrder, EventsTrue, TableTrue, UnbornUnknown, Unborn
  <1>3. EngagedPeersUp' /\ NoStrayPeers'
    BY <1>1 DEF TableInv, tableVars, EngagedPeersUp, NoStrayPeers
  <1> QED
    BY <1>2, <1>3 DEF TableInv

\* startAndAccept builds a table that matches the peers it creates.
LEMMA InitTableInv == Init => TableInv
  <1> SUFFICES ASSUME Init PROVE TableInv
    OBVIOUS
  <1>1. control = <<>> /\ \A k, q : ~Waiting(k, q)
    BY DEF Init, Waiting
  <1>2. PICK new \in [ActiveHosts -> Peers] :
          /\ \A g, h \in ActiveHosts : new[g] = new[h] => g = h
          /\ peerOf = [h \in Hosts |-> IF h \in ActiveHosts THEN new[h] ELSE NoPeer]
          /\ hostOf = [p \in Peers |-> IF \E h \in ActiveHosts : new[h] = p
                                       THEN CHOOSE h \in ActiveHosts : new[h] = p ELSE NoHost]
          /\ life = [p \in Peers |-> IF \E h \in ActiveHosts : new[h] = p THEN "starting" ELSE "unborn"]
    BY DEF Init
  <1>3. ASSUME NEW h \in ActiveHosts PROVE hostOf[new[h]] = h /\ life[new[h]] = "starting"
    BY <1>2
  <1>4. ASSUME NEW p \in Peers, life[p] # "unborn" PROVE \E h \in ActiveHosts : p = new[h]
    BY <1>2, <1>4
  <1>5. \A p \in Peers : hostOf[p] \in Hosts \cup {NoHost}
    BY <1>2, <1>3, HostsAssumption
  <1>6. TableTypes
    BY <1>1, <1>2, <1>5, HostsAssumption DEF Init, TableTypes
  <1>7. InOrder /\ EventsTrue
    BY <1>1 DEF InOrder, EventsTrue
  <1>8. TableTrue
    BY <1>2, <1>3, HostsAssumption DEF Init, TableTrue
  <1>9. UnbornUnknown
    BY <1>2 DEF UnbornUnknown, Unborn
  <1>10. EngagedPeersUp
    BY DEF Init, EngagedPeersUp
  <1>11. NoStrayPeers
    <2> SUFFICES ASSUME NEW p \in Peers, life[p] # "unborn" PROVE peerOf[hostOf[p]] = p
      BY DEF NoStrayPeers
    <2>1. PICK h \in ActiveHosts : p = new[h]
      BY <1>4
    <2> QED
      BY <2>1, <1>2, <1>3, HostsAssumption
  <1> QED
    BY <1>6, <1>7, <1>8, <1>9, <1>10, <1>11 DEF TableInv

\* The periodic check creates peers for hosts that have none.
LEMMA TickTableInv ==
    ASSUME TableInv, OnTick
    PROVE  TableInv'
  <1>1. PICK new \in NewPeers(Wanted) :
          LET born == {new[h] : h \in Wanted} IN
          /\ listed' = (listed \ Deleted) \cup conf
          /\ peerOf' = [h \in Hosts |-> IF h \in Wanted THEN new[h] ELSE peerOf[h]]
          /\ engaged' = engaged \ (Deleted \cup Wanted)
          /\ life' = [p \in Peers |-> IF p \in born THEN "starting" ELSE life[p]]
          /\ hostOf' = [p \in Peers |-> IF p \in born THEN CHOOSE h \in Wanted : new[h] = p ELSE hostOf[p]]
          /\ told' = told \cup SetDownPeers
    BY DEF OnTick, UpdatePeersTable
  <1> DEFINE born == {new[h] : h \in Wanted}
  <1>2. ~crashed /\ UNCHANGED <<control, conf>> /\ told \subseteq told'
    BY <1>1 DEF OnTick, Idle, chanVars, confVars
  <1>3. \A k, q : Waiting(k, q)' <=> Waiting(k, q)
    BY <1>2 DEF Waiting
  <1>4. /\ TableTypes /\ InOrder /\ EventsTrue /\ TableTrue /\ UnbornUnknown
        /\ EngagedPeersUp /\ NoStrayPeers
    BY DEF TableInv
  <1>5. /\ new \in [Wanted -> Unborn] /\ born \subseteq Unborn
        /\ \A g, h \in Wanted : new[g] = new[h] => g = h
    BY DEF NewPeers
  <1>6. /\ Wanted \subseteq conf /\ Wanted \subseteq Hosts
        /\ \A h \in Wanted \cup Deleted : peerOf[h] = NoPeer
    BY <1>4 DEF Wanted, Deleted, TableTypes
  <1>7. \A p \in Unborn : p \in Peers /\ life[p] = "unborn"
    BY DEF Unborn
  <1>8. ASSUME NEW h \in Wanted
        PROVE  /\ new[h] \in Peers /\ new[h] \in born /\ peerOf'[h] = new[h]
               /\ hostOf'[new[h]] = h /\ life'[new[h]] = "starting"
    <2>1. new[h] \in Peers /\ new[h] \in born /\ peerOf'[h] = new[h]
      BY <1>1, <1>5, <1>6, <1>7
    <2>2. (CHOOSE g \in Wanted : new[g] = new[h]) = h
      BY <1>5
    <2> QED
      BY <2>1, <2>2, <1>1
  <1>9. ASSUME NEW p \in Peers \ born PROVE hostOf'[p] = hostOf[p] /\ life'[p] = life[p]
    BY <1>1
  <1>10. ASSUME NEW h \in Hosts \ Wanted PROVE peerOf'[h] = peerOf[h]
    BY <1>1
  <1>11. ASSUME NEW h \in Hosts, peerOf[h] # NoPeer PROVE peerOf[h] \in Peers \ born
    BY <1>4, <1>5, <1>7, <1>11 DEF TableTrue, TableTypes
  <1>12. ASSUME NEW p \in born PROVE \E h \in Wanted : p = new[h]
    OBVIOUS
  <1>13. ASSUME NEW p \in Peers, NEW k \in {"up", "down"}, Waiting(k, p) PROVE p \notin born
    BY <1>13, <1>4, <1>5, <1>7 DEF EventsTrue
  <1> HIDE DEF born
  <1>14. TableTypes'
    <2>1. \A p \in Peers : /\ hostOf'[p] \in Hosts \cup {NoHost}
                           /\ life'[p] \in {"unborn", "starting", "up", "down", "closing", "closed"}
      BY <1>4, <1>6, <1>8, <1>9, <1>12 DEF TableTypes
    <2>2. \A h \in Hosts : peerOf'[h] \in Peers \cup {NoPeer}
      BY <1>4, <1>8, <1>10 DEF TableTypes
    <2>3. listed' \subseteq Hosts /\ engaged' \subseteq Hosts
      BY <1>1, <1>4 DEF TableTypes
    <2>4. /\ peerOf' = [h \in Hosts |-> peerOf'[h]]
          /\ hostOf' = [p \in Peers |-> hostOf'[p]] /\ life' = [p \in Peers |-> life'[p]]
      BY <1>1
    <2> QED
      BY <1>2, <1>4, <2>1, <2>2, <2>3, <2>4 DEF TableTypes
  <1>15. InOrder'
    BY <1>2, <1>4 DEF InOrder
  <1>16. EventsTrue'
    BY <1>3, <1>4, <1>9, <1>13 DEF EventsTrue
  <1>17. TableTrue'
    <2> SUFFICES ASSUME NEW h \in Hosts, peerOf'[h] # NoPeer
                 PROVE  /\ h \in listed' /\ hostOf'[peerOf'[h]] = h
                        /\ life'[peerOf'[h]] \in {"starting", "up", "down"}
      BY DEF TableTrue
    <2>1. CASE h \in Wanted
      <3>1. h \in listed'
        BY <2>1, <1>1, <1>6
      <3> QED
        BY <2>1, <3>1, <1>8
    <2>2. CASE h \notin Wanted
      BY <2>2, <1>1, <1>4, <1>6, <1>9, <1>10, <1>11 DEF TableTrue
    <2> QED
      BY <2>1, <2>2
  <1>18. UnbornUnknown'
    BY <1>4, <1>8, <1>9, <1>12 DEF UnbornUnknown, Unborn
  <1>19. EngagedPeersUp'
    <2> SUFFICES ASSUME NEW h \in engaged'
                 PROVE  /\ h \in listed' /\ peerOf'[h] # NoPeer /\ hostOf'[peerOf'[h]] = h
                        /\ life'[peerOf'[h]] \in {"up", "down"} /\ ~Waiting("up", peerOf'[h])
      BY <1>3 DEF EngagedPeersUp
    <2>1. h \in engaged /\ h \in Hosts \ Wanted /\ h \notin Deleted
      BY <1>1, <1>4 DEF TableTypes
    <2> QED
      BY <2>1, <1>1, <1>4, <1>9, <1>10, <1>11 DEF EngagedPeersUp
  <1>20. NoStrayPeers'
    <2> SUFFICES ASSUME NEW p \in Peers, life'[p] \in {"starting", "up"}, hostOf'[p] # NoHost, p \notin told'
                 PROVE  Waiting("up", p) \/ peerOf'[hostOf'[p]] = p
      BY <1>3 DEF NoStrayPeers
    <2>1. CASE p \in born
      BY <2>1, <1>8, <1>12
    <2>2. CASE p \notin born
      <3>1. hostOf'[p] = hostOf[p] /\ life'[p] = life[p] /\ hostOf[p] \in Hosts
        BY <2>2, <1>4, <1>9 DEF TableTypes
      <3>2. Waiting("up", p) \/ peerOf[hostOf[p]] = p
        BY <3>1, <1>2, <1>4 DEF NoStrayPeers
      <3>3. p # NoPeer
        BY HostsAssumption
      <3> QED
        BY <3>1, <3>2, <3>3, <1>6, <1>10
    <2> QED
      BY <2>1, <2>2
  <1> QED
    BY <1>14, <1>15, <1>16, <1>17, <1>18, <1>19, <1>20 DEF TableInv

\* A peer reports PeerUp.
LEMMA PeerUpTableInv ==
    ASSUME TableInv, NEW p \in Peers, NEW h \in Hosts, PeerUp(p, h)
    PROVE  TableInv'
  <1>1. /\ life[p] = "starting" /\ hostOf[p] \in {h, NoHost} /\ Report("up", p) /\ ~crashed
        /\ life' = [life EXCEPT ![p] = "up"] /\ hostOf' = [hostOf EXCEPT ![p] = h]
        /\ UNCHANGED <<tableVars, told, conf>>
    BY DEF PeerUp, Report, confVars
  <1>2. /\ TableTypes /\ InOrder /\ EventsTrue /\ TableTrue /\ UnbornUnknown
        /\ EngagedPeersUp /\ NoStrayPeers
    BY DEF TableInv
  <1>3. ~Waiting("down", p) /\ ~Waiting("up", p)
    BY <1>1, <1>2 DEF EventsTrue
  <1>4. /\ control' \in Seq(Events) /\ InOrder'
        /\ \A k \in {"up", "down"}, q \in Peers : Waiting(k, q)' => Waiting(k, q) \/ (k = "up" /\ q = p)
        /\ crashed' \/ (\A k \in {"up", "down"}, q \in Peers :
                          Waiting(k, q)' <=> Waiting(k, q) \/ (k = "up" /\ q = p))
    BY <1>1, <1>2, <1>3, ReportEffect
  <1>5. /\ life'[p] = "up" /\ hostOf'[p] = h
        /\ \A q \in Peers \ {p} : life'[q] = life[q] /\ hostOf'[q] = hostOf[q]
    BY <1>1, <1>2 DEF TableTypes
  <1>6. ASSUME NEW g \in Hosts, peerOf[g] = p PROVE g = h
    BY <1>1, <1>2, <1>6, HostsAssumption DEF TableTrue
  <1>7. TableTypes'
    BY <1>1, <1>2, <1>4 DEF TableTypes, tableVars
  <1>8. EventsTrue'
    <2> SUFFICES ASSUME NEW q \in Peers
                 PROVE  /\ Waiting("up", q)' => life'[q] \in {"up", "down"} /\ hostOf'[q] \in Hosts
                        /\ Waiting("down", q)' => life'[q] = "down"
      BY DEF EventsTrue
    <2>1. CASE q = p
      BY <2>1, <1>3, <1>4, <1>5
    <2>2. CASE q # p
      BY <2>2, <1>2, <1>4, <1>5 DEF EventsTrue
    <2> QED
      BY <2>1, <2>2
  <1>9. TableTrue'
    <2> SUFFICES ASSUME NEW g \in Hosts, peerOf[g] # NoPeer
                 PROVE  g \in listed /\ hostOf'[peerOf[g]] = g /\ life'[peerOf[g]] \in {"starting", "up", "down"}
      BY <1>1 DEF TableTrue, tableVars
    <2>1. peerOf[g] \in Peers
      BY <1>2 DEF TableTypes
    <2>2. CASE peerOf[g] = p
      BY <2>2, <1>2, <1>5, <1>6 DEF TableTrue
    <2>3. CASE peerOf[g] # p
      BY <2>1, <2>3, <1>2, <1>5 DEF TableTrue
    <2> QED
      BY <2>2, <2>3
  <1>10. UnbornUnknown'
    BY <1>2, <1>5 DEF UnbornUnknown, Unborn
  <1>11. EngagedPeersUp'
    <2> SUFFICES ASSUME NEW g \in engaged, NEW q, q = peerOf[g]
                 PROVE  /\ g \in listed /\ q # NoPeer /\ hostOf'[q] = g
                        /\ life'[q] \in {"up", "down"} /\ ~Waiting("up", q)'
      BY <1>1 DEF EngagedPeersUp, tableVars, Waiting
    <2>1. /\ q \in Peers /\ q # p /\ g \in listed /\ q # NoPeer /\ hostOf[q] = g
          /\ life[q] \in {"up", "down"} /\ ~Waiting("up", q)
      BY <1>1, <1>2 DEF EngagedPeersUp, TableTypes
    <2> QED
      BY <2>1, <1>4, <1>5
  <1>12. NoStrayPeers'
    <2>1. CASE crashed'
      BY <2>1 DEF NoStrayPeers
    <2>2. CASE ~crashed'
      <3> SUFFICES ASSUME NEW q \in Peers, life'[q] \in {"starting", "up"}, hostOf'[q] # NoHost, q \notin told
                   PROVE  Waiting("up", q)' \/ peerOf[hostOf'[q]] = q
        BY <1>1 DEF NoStrayPeers, tableVars
      <3>1. CASE q = p
        BY <3>1, <2>2, <1>4
      <3>2. CASE q # p
        BY <3>2, <2>2, <1>1, <1>2, <1>4, <1>5 DEF NoStrayPeers
      <3> QED
        BY <3>1, <3>2
    <2> QED
      BY <2>1, <2>2
  <1> QED
    BY <1>4, <1>7, <1>8, <1>9, <1>10, <1>11, <1>12 DEF TableInv

\* A peer reports PeerDown.
LEMMA PeerDownTableInv ==
    ASSUME TableInv, NEW p \in Peers, PeerDown(p)
    PROVE  TableInv'
  <1>1. /\ life[p] \in {"starting", "up"} /\ Report("down", p) /\ ~crashed
        /\ life' = [life EXCEPT ![p] = "down"]
        /\ UNCHANGED <<tableVars, hostOf, told, conf>>
    BY DEF PeerDown, Report, confVars
  <1>2. /\ TableTypes /\ InOrder /\ EventsTrue /\ TableTrue /\ UnbornUnknown
        /\ EngagedPeersUp /\ NoStrayPeers
    BY DEF TableInv
  <1>3. ~Waiting("down", p)
    BY <1>1, <1>2 DEF EventsTrue
  <1>4. /\ control' \in Seq(Events) /\ InOrder'
        /\ \A k \in {"up", "down"}, q \in Peers : Waiting(k, q)' => Waiting(k, q) \/ (k = "down" /\ q = p)
        /\ crashed' \/ (\A k \in {"up", "down"}, q \in Peers :
                          Waiting(k, q)' <=> Waiting(k, q) \/ (k = "down" /\ q = p))
    BY <1>1, <1>2, <1>3, ReportEffect
  <1>5. life'[p] = "down" /\ \A q \in Peers \ {p} : life'[q] = life[q]
    BY <1>1, <1>2 DEF TableTypes
  <1>6. TableTypes'
    BY <1>1, <1>2, <1>4 DEF TableTypes, tableVars
  <1>7. EventsTrue'
    BY <1>1, <1>2, <1>4, <1>5 DEF EventsTrue
  <1>8. TableTrue'
    <2> SUFFICES ASSUME NEW g \in Hosts, peerOf[g] # NoPeer
                 PROVE  g \in listed /\ hostOf[peerOf[g]] = g /\ life'[peerOf[g]] \in {"starting", "up", "down"}
      BY <1>1 DEF TableTrue, tableVars
    <2>1. peerOf[g] \in Peers
      BY <1>2 DEF TableTypes
    <2> QED
      BY <2>1, <1>2, <1>5 DEF TableTrue
  <1>9. UnbornUnknown'
    BY <1>1, <1>2, <1>5 DEF UnbornUnknown, Unborn
  <1>10. EngagedPeersUp'
    <2> SUFFICES ASSUME NEW g \in engaged, NEW q, q = peerOf[g]
                 PROVE  /\ g \in listed /\ q # NoPeer /\ hostOf[q] = g
                        /\ life'[q] \in {"up", "down"} /\ ~Waiting("up", q)'
      BY <1>1 DEF EngagedPeersUp, tableVars, Waiting
    <2>1. /\ q \in Peers /\ g \in listed /\ q # NoPeer /\ hostOf[q] = g
          /\ life[q] \in {"up", "down"} /\ ~Waiting("up", q)
      BY <1>1, <1>2 DEF EngagedPeersUp, TableTypes
    <2> QED
      BY <2>1, <1>4, <1>5
  <1>11. NoStrayPeers'
    <2>1. CASE crashed'
      BY <2>1 DEF NoStrayPeers
    <2>2. CASE ~crashed'
      <3> SUFFICES ASSUME NEW q \in Peers, life'[q] \in {"starting", "up"}, hostOf[q] # NoHost, q \notin told
                   PROVE  Waiting("up", q)' \/ peerOf[hostOf[q]] = q
        BY <1>1 DEF NoStrayPeers, tableVars
      <3>1. q # p
        BY <1>5
      <3> QED
        BY <3>1, <2>2, <1>1, <1>2, <1>4, <1>5 DEF NoStrayPeers
    <2> QED
      BY <2>1, <2>2
  <1> QED
    BY <1>4, <1>6, <1>7, <1>8, <1>9, <1>10, <1>11 DEF TableInv

\* A peer that was unborn or closing goes on: the table knows nothing of it.
LEMMA UnknownPeerTableInv ==
    ASSUME TableInv, ~crashed, NEW p \in Peers,
           \/ life[p] = "closing" /\ life' = [life EXCEPT ![p] = "closed"]
           \/ life[p] = "unborn" /\ life' = [life EXCEPT ![p] = "starting"],
           UNCHANGED <<tableVars, control, hostOf, told, conf>>
    PROVE  TableInv'
  <1>1. /\ TableTypes /\ InOrder /\ EventsTrue /\ TableTrue /\ UnbornUnknown
        /\ EngagedPeersUp /\ NoStrayPeers
    BY DEF TableInv
  <1>2. \A k, q : Waiting(k, q)' <=> Waiting(k, q)
    BY DEF Waiting
  <1>3. /\ life[p] \in {"closing", "unborn"} /\ life'[p] \in {"closed", "starting"}
        /\ life'[p] = "starting" => hostOf[p] = NoHost
        /\ \A q \in Peers \ {p} : life'[q] = life[q]
    BY <1>1 DEF TableTypes, UnbornUnknown, Unborn
  <1>4. ~Waiting("up", p) /\ ~Waiting("down", p)
    BY <1>1, <1>3 DEF EventsTrue
  <1>5. \A h \in Hosts : peerOf[h] \in Peers \cup {NoPeer} /\ peerOf[h] # p
    BY <1>1, <1>3, HostsAssumption DEF TableTypes, TableTrue
  <1>6. TableTypes'
    BY <1>1 DEF TableTypes, tableVars
  <1>7. InOrder' /\ EventsTrue'
    BY <1>1, <1>2, <1>3, <1>4 DEF InOrder, EventsTrue
  <1>8. TableTrue'
    BY <1>1, <1>3, <1>5 DEF TableTrue, tableVars
  <1>9. UnbornUnknown'
    BY <1>1, <1>3 DEF UnbornUnknown, Unborn
  <1>10. EngagedPeersUp'
    BY <1>1, <1>2, <1>3, <1>5 DEF EngagedPeersUp, tableVars, TableTypes
  <1>11. NoStrayPeers'
    BY <1>1, <1>2, <1>3 DEF NoStrayPeers, tableVars
  <1> QED
    BY <1>6, <1>7, <1>8, <1>9, <1>10, <1>11 DEF TableInv

\* The router handles a PeerUpEvent: the sender gets the place in the table, or is set down.
LEMMA OnPeerUpTableInv ==
    ASSUME TableInv, OnPeerUp
    PROVE  TableInv'
  <1>1. /\ TableTypes /\ InOrder /\ EventsTrue /\ TableTrue /\ UnbornUnknown
        /\ EngagedPeersUp /\ NoStrayPeers
    BY DEF TableInv
  <1>2. PICK s : s = Sender
    OBVIOUS
  <1>3. TakeEvent("up") /\ ~crashed /\ UNCHANGED <<listed, life, hostOf, conf>>
    BY DEF OnPeerUp, TakeEvent, Idle, confVars
  <1>4. /\ s \in Peers /\ Waiting("up", s)
        /\ control' \in Seq(Events) /\ InOrder'
        /\ \A k \in {"up", "down"}, q \in Peers : Waiting(k, q)' => Waiting(k, q)
        /\ \A k \in {"up", "down"}, q \in Peers \ {s} : Waiting(k, q) => Waiting(k, q)'
        /\ ~Waiting("up", s)'
    BY <1>1, <1>2, <1>3, TakeEffect
  <1>5. PICK h \in Hosts : h = hostOf[s]
    BY <1>1, <1>4 DEF EventsTrue
  <1>6. life[s] \in {"up", "down"} /\ s # NoPeer /\ peerOf[h] \in Peers \cup {NoPeer}
    BY <1>1, <1>4, HostsAssumption DEF EventsTrue, TableTypes
  <1>7. /\ told \subseteq told'
        /\ \/ h \in listed /\ peerOf[h] = s /\ engaged' = engaged \cup {h} /\ peerOf' = peerOf
           \/ /\ h \in listed /\ peerOf[h] # s /\ engaged' = engaged \cup {h}
              /\ peerOf' = [peerOf EXCEPT ![h] = s] /\ {peerOf[h]} \ {NoPeer} \subseteq told'
           \/ UNCHANGED <<peerOf, engaged>> /\ s \in told'
    BY <1>2, <1>5 DEF OnPeerUp
  <1>8. CASE UNCHANGED <<peerOf, engaged>> /\ s \in told'
    <2>1. TableTypes' /\ TableTrue' /\ UnbornUnknown'
      BY <1>1, <1>3, <1>4, <1>8 DEF TableTypes, TableTrue, UnbornUnknown, Unborn
    <2>2. EventsTrue'
      BY <1>1, <1>3, <1>4 DEF EventsTrue
    <2>3. EngagedPeersUp'
      <3> SUFFICES ASSUME NEW g \in engaged, NEW q, q = peerOf[g]
                   PROVE  /\ g \in listed /\ q # NoPeer /\ hostOf[q] = g
                          /\ life[q] \in {"up", "down"} /\ ~Waiting("up", q)'
        BY <1>3, <1>8 DEF EngagedPeersUp, Waiting
      <3>1. q \in Peers
        BY <1>1 DEF EngagedPeersUp, TableTypes
      <3> QED
        BY <3>1, <1>1, <1>4 DEF EngagedPeersUp
    <2>4. NoStrayPeers'
      BY <1>1, <1>3, <1>4, <1>7, <1>8 DEF NoStrayPeers
    <2> QED
      BY <1>4, <2>1, <2>2, <2>3, <2>4 DEF TableInv
  <1>9. CASE /\ h \in listed /\ engaged' = engaged \cup {h}
             /\ peerOf'[h] = s /\ peerOf' \in [Hosts -> Peers \cup {NoPeer}]
             /\ \A g \in Hosts \ {h} : peerOf'[g] = peerOf[g]
             /\ peerOf[h] \in {s, NoPeer} \cup told'
    <2>1. TableTypes'
      BY <1>1, <1>3, <1>4, <1>9 DEF TableTypes
    <2>2. EventsTrue'
      BY <1>1, <1>3, <1>4 DEF EventsTrue
    <2>3. TableTrue'
      BY <1>1, <1>3, <1>5, <1>6, <1>9 DEF TableTrue
    <2>4. UnbornUnknown'
      BY <1>1, <1>3 DEF UnbornUnknown, Unborn
    <2>5. EngagedPeersUp'
      <3> SUFFICES ASSUME NEW g \in engaged', NEW q, q = peerOf'[g]
                   PROVE  /\ g \in listed /\ q # NoPeer /\ hostOf[q] = g
                          /\ life[q] \in {"up", "down"} /\ ~Waiting("up", q)'
        BY <1>3 DEF EngagedPeersUp, Waiting
      <3>1. CASE g = h
        BY <3>1, <1>4, <1>5, <1>6, <1>9
      <3>2. CASE g # h
        <4>1. g \in engaged /\ g \in Hosts /\ q = peerOf[g] /\ q \in Peers
          BY <3>2, <1>1, <1>9 DEF EngagedPeersUp, TableTypes
        <4> QED
          BY <4>1, <1>1, <1>4 DEF EngagedPeersUp
      <3> QED
        BY <3>1, <3>2
    <2>6. NoStrayPeers'
      <3> SUFFICES ASSUME NEW q \in Peers, life[q] \in {"starting", "up"}, hostOf[q] # NoHost, q \notin told'
                   PROVE  Waiting("up", q)' \/ peerOf'[hostOf[q]] = q
        BY <1>3 DEF NoStrayPeers
      <3>1. CASE q = s
        BY <3>1, <1>5, <1>9
      <3>2. CASE q # s
        <4>1. hostOf[q] \in Hosts /\ (Waiting("up", q) \/ peerOf[hostOf[q]] = q)
          BY <1>1, <1>3, <1>7 DEF NoStrayPeers, TableTypes
        <4>2. CASE Waiting("up", q)
          BY <3>2, <4>2, <1>4
        <4>3. CASE peerOf[hostOf[q]] = q
          <5>1. hostOf[q] # h
            BY <3>2, <4>3, <1>9, HostsAssumption
          <5> QED
            BY <5>1, <4>1, <4>3, <1>9
        <4> QED
          BY <4>1, <4>2, <4>3
      <3> QED
        BY <3>1, <3>2
    <2> QED
      BY <1>4, <2>1, <2>2, <2>3, <2>4, <2>5, <2>6 DEF TableInv
  <1>10. peerOf \in [Hosts -> Peers \cup {NoPeer}]
    BY <1>1 DEF TableTypes
  <1>11. CASE h \in listed /\ peerOf[h] = s /\ engaged' = engaged \cup {h} /\ peerOf' = peerOf
    BY <1>9, <1>10, <1>11
  <1>12. CASE /\ h \in listed /\ peerOf[h] # s /\ engaged' = engaged \cup {h}
              /\ peerOf' = [peerOf EXCEPT ![h] = s] /\ {peerOf[h]} \ {NoPeer} \subseteq told'
    BY <1>4, <1>9, <1>10, <1>12
  <1> QED
    BY <1>7, <1>8, <1>11, <1>12

\* The router handles a PeerDownEvent: the sender is forgotten and closed.
LEMMA OnPeerDownTableInv ==
    ASSUME TableInv, OnPeerDown
    PROVE  TableInv'
  <1>1. /\ TableTypes /\ InOrder /\ EventsTrue /\ TableTrue /\ UnbornUnknown
        /\ EngagedPeersUp /\ NoStrayPeers
    BY DEF TableInv
  <1>2. PICK s : s = Sender
    OBVIOUS
  <1>3. /\ TakeEvent("down") /\ ~crashed /\ UNCHANGED <<listed, hostOf, told, conf>>
        /\ life' = [life EXCEPT ![s] = "closing"]
        /\ peerOf' = [h \in Hosts |-> IF peerOf[h] = s THEN NoPeer ELSE peerOf[h]]
        /\ engaged' = {h \in engaged : peerOf[h] # s}
    BY <1>2 DEF OnPeerDown, TakeEvent, Idle, confVars, Forgotten, Disengaged
  <1>4. /\ s \in Peers /\ Waiting("down", s)
        /\ control' \in Seq(Events) /\ InOrder'
        /\ \A k \in {"up", "down"}, q \in Peers : Waiting(k, q)' => Waiting(k, q)
        /\ \A k \in {"up", "down"}, q \in Peers \ {s} : Waiting(k, q) => Waiting(k, q)'
        /\ ~Waiting("up", s)' /\ ~Waiting("down", s)'
    BY <1>1, <1>2, <1>3, TakeEffect
  <1>5. life'[s] = "closing" /\ \A q \in Peers \ {s} : life'[q] = life[q]
    BY <1>1, <1>3, <1>4 DEF TableTypes
  <1>6. /\ peerOf' \in [Hosts -> Peers \cup {NoPeer}]
        /\ \A g \in Hosts : peerOf'[g] # s /\ peerOf'[g] \in {peerOf[g], NoPeer}
        /\ \A g \in Hosts : peerOf[g] # s => peerOf'[g] = peerOf[g]
    BY <1>1, <1>3, <1>4, HostsAssumption DEF TableTypes
  <1>7. TableTypes'
    BY <1>1, <1>3, <1>4, <1>6 DEF TableTypes
  <1>8. EventsTrue'
    BY <1>1, <1>3, <1>4, <1>5 DEF EventsTrue
  <1>9. TableTrue'
    <2> SUFFICES ASSUME NEW g \in Hosts, NEW q, q = peerOf'[g], q # NoPeer
                 PROVE  g \in listed /\ hostOf[q] = g /\ life'[q] \in {"starting", "up", "down"}
      BY <1>3 DEF TableTrue
    <2>1. q = peerOf[g] /\ q \in Peers \ {s}
      BY <1>6
    <2> QED
      BY <2>1, <1>1, <1>5 DEF TableTrue
  <1>10. UnbornUnknown'
    BY <1>1, <1>3, <1>5 DEF UnbornUnknown, Unborn
  <1>11. EngagedPeersUp'
    <2> SUFFICES ASSUME NEW g \in engaged', NEW q, q = peerOf'[g]
                 PROVE  /\ g \in listed /\ q # NoPeer /\ hostOf[q] = g
                        /\ life'[q] \in {"up", "down"} /\ ~Waiting("up", q)'
      BY <1>3 DEF EngagedPeersUp, Waiting
    <2>1. g \in engaged /\ g \in Hosts /\ q = peerOf[g] /\ q \in Peers \ {s}
      BY <1>1, <1>3, <1>6 DEF EngagedPeersUp, TableTypes
    <2> QED
      BY <2>1, <1>1, <1>4, <1>5 DEF EngagedPeersUp
  <1>12. NoStrayPeers'
    <2> SUFFICES ASSUME NEW q \in Peers, life'[q] \in {"starting", "up"}, hostOf[q] # NoHost, q \notin told
                 PROVE  Waiting("up", q)' \/ peerOf'[hostOf[q]] = q
      BY <1>3 DEF NoStrayPeers
    <2>1. q # s
      BY <1>5
    <2>2. hostOf[q] \in Hosts /\ (Waiting("up", q) \/ peerOf[hostOf[q]] = q)
      BY <2>1, <1>1, <1>3, <1>5 DEF NoStrayPeers, TableTypes
    <2> QED
      BY <2>1, <2>2, <1>4, <1>6
  <1> QED
    BY <1>4, <1>7, <1>8, <1>9, <1>10, <1>11, <1>12 DEF TableInv

\* Every step keeps the invariant.
LEMMA NextTableInv ==
    ASSUME TableInv, [Next]_vars
    PROVE  TableInv'
  <1>0. conf \subseteq Hosts
    BY DEF TableInv, TableTypes
  <1>1. CASE OnTick
    BY <1>1, TickTableInv
  <1>2. CASE OnPeerUp
    BY <1>2, OnPeerUpTableInv
  <1>3. CASE OnPeerDown
    BY <1>3, OnPeerDownTableInv
  <1>4. CASE OnRequest \/ OnClosedRequests
    BY <1>0, <1>4, Untouched DEF OnRequest, OnClosedRequests, Idle, peerVars, confVars, tableVars, chanVars
  <1>5. CASE OnSetDown
    BY <1>0, <1>5, Untouched DEF OnSetDown, TakeCommand, Idle, confVars, tableVars
  <1>6. CASE OnClose
    BY <1>0, <1>6, Untouched DEF OnClose, TakeCommand, Idle, confVars, tableVars
  <1>7. CASE CloseBegin \/ Closer
    BY <1>0, <1>7, Untouched DEF CloseBegin, Closer, CloseDone, CloseGroupDone, ClosePost, CloseChannels,
       CloseStep, peerVars, tableVars
  <1>8. ASSUME NEW p \in Peers, NEW h \in Hosts, PeerUp(p, h) PROVE TableInv'
    BY <1>8, PeerUpTableInv
  <1>9. ASSUME NEW p \in Peers, PeerDown(p) PROVE TableInv'
    BY <1>9, PeerDownTableInv
  <1>10. ASSUME NEW p \in Peers, PeerClosed(p) PROVE TableInv'
    BY <1>10, UnknownPeerTableInv DEF PeerClosed, confVars, chanVars
  <1>11. CASE Accept
    BY <1>0, <1>11, Untouched DEF Accept, peerVars, tableVars, chanVars
  <1>12. CASE NewPassivePeer
    <2>1. PICK p \in Unborn : life' = [life EXCEPT ![p] = "starting"]
      BY <1>12 DEF NewPassivePeer
    <2>2. p \in Peers /\ life[p] = "unborn"
      BY DEF Unborn
    <2> QED
      BY <1>12, <2>1, <2>2, UnknownPeerTableInv DEF NewPassivePeer, chanVars
  <1>13. CASE Reconfigure
    BY <1>13, Untouched DEF Reconfigure, peerVars, tableVars, chanVars
  <1>14. ASSUME NEW r \in Reqs, RouteBegin(r) \/ RoutePost(r) \/ HandlerEnd(r) PROVE TableInv'
    BY <1>0, <1>14, Untouched DEF RouteBegin, RoutePost, HandlerEnd, peerVars, tableVars, chanVars, confVars
  <1>15. ASSUME NEW r \in Reqs, NEW p \in Peers, ExchangeBegin(r, p) \/ ExchangeEnd(r, p) PROVE TableInv'
    BY <1>0, <1>15, Untouched DEF ExchangeBegin, ExchangeEnd, peerVars, tableVars, chanVars, confVars
  <1>16. CASE UNCHANGED vars
    <2>1. /\ \A k, q : Waiting(k, q)' <=> Waiting(k, q)
          /\ UNCHANGED <<listed, peerOf, engaged, conf, hostOf, life, control, told, crashed>>
      BY <1>16 DEF Waiting, vars, tableVars, chanVars, peerVars, confVars
    <2>2. TableTypes' /\ InOrder' /\ EventsTrue' /\ TableTrue' /\ UnbornUnknown'
      BY <2>1 DEF TableInv, TableTypes, InOrder, EventsTrue, TableTrue, UnbornUnknown, Unborn
    <2>3. EngagedPeersUp' /\ NoStrayPeers'
      BY <2>1 DEF TableInv, EngagedPeersUp, NoStrayPeers
    <2> QED
      BY <2>2, <2>3 DEF TableInv
  <1> QED
    BY <1>1, <1>2, <1>3, <1>4, <1>5, <1>6, <1>7, <1>8, <1>9, <1>10, <1>11, <1>12, <1>13, <1>14, <1>15,
       <1>16 DEF Next, EventLoop

\* The table, the peers and the events in the channel always agree.
LEMMA TableCorrect == Spec => []TableInv
  <1> QED
    BY InitTableInv, NextTableInv, PTL DEF Spec

-----------------------------------------------------------------------------
\* A peer given to Close() is out of the table and has no event in the channel, so that the event
\* loop of the router cannot reach it any more.
THEOREM ClosedPeersOut == Spec => []ClosedPeersForgotten
  <1>1. TableInv => ClosedPeersForgotten
    BY HostsAssumption DEF TableInv, EventsTrue, TableTrue, ClosedPeersForgotten
  <1> QED
    BY <1>1, TableCorrect, PTL

\* The hosts that the table has as engaged have a peer, their own, that came up: requests are never
\* given to a nil peer or to the peer of another host.
THEOREM EngagedPeersLive == Spec => []EngagedPeersUp
  <1>1. TableInv => EngagedPeersUp
    BY DEF TableInv
  <1> QED
    BY <1>1, TableCorrect, PTL

\* A peer that comes up for a host that has another one is either given the place or set down, and
\* so is the one that was there: no connection is left that the router does not know.
THEOREM PeersKnown == Spec => []NoStrayPeers
  <1>1. TableInv => NoStrayPeers
    BY DEF TableInv
  <1> QED
    BY <1>1, TableCorrect, PTL
=============================================================================
