--------------------- MODULE RadiusSessionServer_proofs ---------------------
(***************************************************************************)
(* Proofs about the session servers, for any number of servers with any      *)
(* configuration and any names: replication does not loop, what was          *)
(* acknowledged is stored, stores never go back, and nothing panics in       *)
(* service.                                                                  *)
(***************************************************************************)
EXTENDS RadiusSessionServer, SequenceTheorems, TLAPS

-----------------------------------------------------------------------------
(* Types *)

PacketStates == {"new", "posted", "accepted", "rejected", "error"}
Packets == [at : Names, ver : Nat, access : BOOLEAN, seenBy : Seq(STRING), parent : Nat,
            st : PacketStates]

\* The packets read, and those that refer to them
PacketTypes ==
    /\ handling \in Seq(Packets)
    /\ store \in [Names -> Nat]
    /\ update \in [Names -> Seq(Nat)]
    /\ sending \subseteq Handled \X Names
    /\ sent \subseteq Handled \X Names
    /\ acked \subseteq Handled \X Names

\* A packet in the channel of a server is one that this server read
UpdatesTrue ==
    \A n \in Names : \A k \in 1..Len(update[n]) :
        /\ update[n][k] \in Handled
        /\ handling[update[n][k]].at = n

TypeInv == PacketTypes /\ UpdatesTrue

\* The constants as the proofs use them.
LEMMA Constants ==
    /\ SendTo \in [Names -> SUBSET Names] /\ MayClose \subseteq Names
    /\ OwnName \in [Names -> STRING] /\ KnownAs \in [Names -> STRING]
    /\ Sources \subseteq [to : Names, ver : Nat, access : BOOLEAN]
    /\ QueryAt \in [Queries -> Names]
    /\ MaxSeenBy \in Nat
  BY SessionServerAssumption

\* Every step but these leaves the packets alone.
LEMMA OtherSteps ==
    ASSUME [Next]_vars,
           ~\E n \in Names : UpdateTerminated(n) \/ OnUpdate(n),
           ~\E i \in Handled : PostUpdate(i),
           ~\E copy \in sending : CopySteps(copy[1], copy[2]),
           ~\E p \in Sources : ReadFromOrigin(p),
           ~\E copy \in sent : ReadCopy(copy[1], copy[2])
    PROVE  UNCHANGED <<handling, store, update, sending, sent, acked>>
  <1>1. CASE UNCHANGED vars
    BY <1>1 DEF vars, serverVars, packetVars
  <1>2. ASSUME NEW n \in Names, StartClient(n) \/ OnControl(n)
        PROVE  UNCHANGED <<handling, store, update, sending, sent, acked>>
    BY <1>2 DEF StartClient, OnControl, packetVars
  <1>3. ASSUME NEW n \in Names, Closer(n) \/ CloseBegin(n)
        PROVE  UNCHANGED <<handling, store, update, sending, sent, acked>>
    BY <1>3 DEF Closer, CloseBegin, CloseHttp, CloseRadius, ClosePost, CloseChannels, CloseStep,
                packetVars
  <1>4. ASSUME NEW q \in Queries, OnQuery(q) \/ PostQuery(q)
        PROVE  UNCHANGED <<handling, store, update, sending, sent, acked>>
    BY <1>4 DEF OnQuery, PostQuery, serverVars, packetVars
  <1> QED
    BY <1>1, <1>2, <1>3, <1>4, Constants DEF Next, Running, LoopSteps

\* A packet that is read is the last of handling, and has one name more.
LEMMA ReadPacket ==
    ASSUME TypeInv, NEW n \in Names, NEW ver \in Nat, NEW access \in BOOLEAN,
           NEW seenBy \in Seq(STRING), NEW parent \in Nat, Read(n, ver, access, seenBy, parent)
    PROVE  /\ TypeInv'
           /\ Len(handling') = Len(handling) + 1
           /\ \A i \in Handled : handling'[i] = handling[i]
           /\ handling'[Len(handling) + 1] =
                [at |-> n, ver |-> ver, access |-> access, seenBy |-> Append(seenBy, OwnName[n]),
                 parent |-> parent, st |-> "new"]
           /\ UNCHANGED <<store, update, sending, sent, acked, crashed>>
  <1> DEFINE p == [at |-> n, ver |-> ver, access |-> access, seenBy |-> Append(seenBy, OwnName[n]),
                   parent |-> parent, st |-> "new"]
  <1>1. OwnName[n] \in STRING
    BY Constants
  <1>2. Append(seenBy, OwnName[n]) \in Seq(STRING)
    BY <1>1
  <1>3. p \in Packets
    BY <1>2 DEF Packets, PacketStates
  <1>4. handling' = Append(handling, p) /\ UNCHANGED <<store, update, sending, sent, acked, crashed>>
    BY DEF Read, serverVars
  <1>5. handling \in Seq(Packets)
    BY DEF TypeInv, PacketTypes
  <1> HIDE DEF p
  <1>6. /\ handling' \in Seq(Packets) /\ Len(handling') = Len(handling) + 1
        /\ \A i \in Handled : handling'[i] = handling[i]
        /\ handling'[Len(handling) + 1] = p
    BY <1>3, <1>4, <1>5 DEF Handled
  <1>7. Handled \subseteq Handled'
    BY <1>5, <1>6 DEF Handled
  <1>8. PacketTypes'
    BY <1>4, <1>6, <1>7 DEF TypeInv, PacketTypes
  <1>9. UpdatesTrue'
    <2> SUFFICES ASSUME NEW m \in Names, NEW k \in 1..Len(update[m])
                 PROVE  update[m][k] \in Handled' /\ handling'[update[m][k]].at = m
      BY <1>4 DEF UpdatesTrue
    <2>1. update[m][k] \in Handled /\ handling[update[m][k]].at = m
      BY DEF TypeInv, UpdatesTrue
    <2> QED
      BY <2>1, <1>6, <1>7
  <1> QED
    BY <1>4, <1>6, <1>8, <1>9 DEF TypeInv, p

\* A packet changes its state only.
LEMMA SetState ==
    ASSUME PacketTypes, NEW i \in Handled, NEW s \in PacketStates,
           handling' = [handling EXCEPT ![i].st = s]
    PROVE  /\ handling' \in Seq(Packets) /\ Len(handling') = Len(handling)
           /\ Handled' = Handled
           /\ \A j \in Handled :
                /\ handling'[j].at = handling[j].at /\ handling'[j].ver = handling[j].ver
                /\ handling'[j].access = handling[j].access
                /\ handling'[j].seenBy = handling[j].seenBy
                /\ handling'[j].parent = handling[j].parent
                /\ handling'[j].st = IF j = i THEN s ELSE handling[j].st
  <1>1. handling \in Seq(Packets) /\ Handled = DOMAIN handling
    BY DEF PacketTypes, Handled
  <1>2. handling \in [1..Len(handling) -> Packets] /\ Len(handling) \in Nat
    BY <1>1
  <1>3. \A j \in Handled : handling[j] \in Packets
    BY <1>2 DEF Handled
  <1>4. handling' \in [1..Len(handling) -> Packets]
    BY <1>2, <1>3 DEF Packets, Handled
  <1>5. handling' \in Seq(Packets) /\ Len(handling') = Len(handling)
    BY <1>2, <1>4
  <1>6. \A j \in Handled : handling'[j] = [handling[j] EXCEPT !.st = IF j = i THEN s ELSE @]
    BY <1>2, <1>3 DEF Handled, Packets
  <1>7. ASSUME NEW j \in Handled
        PROVE  /\ handling'[j].at = handling[j].at /\ handling'[j].ver = handling[j].ver
               /\ handling'[j].access = handling[j].access
               /\ handling'[j].seenBy = handling[j].seenBy
               /\ handling'[j].parent = handling[j].parent
               /\ handling'[j].st = IF j = i THEN s ELSE handling[j].st
    BY <1>3, <1>6 DEF Packets
  <1> QED
    BY <1>5, <1>7 DEF Handled

\* The elements of a sequence with one more.
LEMMA Appended ==
    ASSUME NEW s \in Seq(Nat), NEW i \in Nat
    PROVE  /\ Append(s, i) \in Seq(Nat)
           /\ \A k \in 1..Len(Append(s, i)) :
                Append(s, i)[k] = i \/ (k \in 1..Len(s) /\ Append(s, i)[k] = s[k])
  OBVIOUS

\* The packet that the loop takes is one that its server read.
LEMMA HeadHandled ==
    ASSUME TypeInv, NEW n \in Names, update[n] # <<>>
    PROVE  Head(update[n]) \in Handled /\ handling[Head(update[n])].at = n
  <1>1. update[n] \in Seq(Nat)
    BY DEF TypeInv, PacketTypes
  <1>2. 1 \in 1..Len(update[n]) /\ Head(update[n]) = update[n][1]
    BY <1>1
  <1> QED
    BY <1>2 DEF TypeInv, UpdatesTrue

\* Every step keeps the types.
LEMMA TypeStep == TypeInv /\ [Next]_vars => TypeInv'
  <1> SUFFICES ASSUME TypeInv, [Next]_vars PROVE TypeInv'
    OBVIOUS
  <1> USE Constants
  <1>a. PacketTypes /\ UpdatesTrue
    BY DEF TypeInv
  <1>b. \A i \in Handled : handling[i] \in Packets
    BY <1>a DEF PacketTypes, Handled
  <1>c. ASSUME NEW n \in Names, update[n] # <<>>
        PROVE  /\ Head(update[n]) \in Handled /\ handling[Head(update[n])].at = n
               /\ Tail(update[n]) \in Seq(Nat)
               /\ \A k \in 1..Len(Tail(update[n])) : k + 1 \in 1..Len(update[n])
                                                    /\ Tail(update[n])[k] = update[n][k + 1]
    <2>1. update[n] \in Seq(Nat)
      BY <1>a DEF PacketTypes
    <2> QED
      BY <1>c, <2>1, HeadHandled
  <1>d. ASSUME NEW n \in Names, NEW s \in PacketStates, update[n] # <<>>,
               update' = [update EXCEPT ![n] = Tail(@)],
               handling' = [handling EXCEPT ![Head(update[n])].st = s]
        PROVE  /\ handling' \in Seq(Packets) /\ Handled' = Handled
               /\ update' \in [Names -> Seq(Nat)] /\ UpdatesTrue'
    <2>1. /\ Head(update[n]) \in Handled /\ Tail(update[n]) \in Seq(Nat)
          /\ \A k \in 1..Len(Tail(update[n])) : k + 1 \in 1..Len(update[n])
                                               /\ Tail(update[n])[k] = update[n][k + 1]
      BY <1>c, <1>d
    <2>2. /\ handling' \in Seq(Packets) /\ Handled' = Handled
          /\ \A j \in Handled : handling'[j].at = handling[j].at
      BY <1>a, <1>d, <2>1, SetState
    <2>3. update' \in [Names -> Seq(Nat)]
      BY <1>a, <1>d, <2>1 DEF PacketTypes
    <2>4. ASSUME NEW m \in Names, NEW k \in 1..Len(update'[m])
          PROVE  update'[m][k] \in Handled' /\ handling'[update'[m][k]].at = m
      <3>1. \E l \in 1..Len(update[m]) : update'[m][k] = update[m][l]
        <4>1. CASE m = n
          BY <1>a, <1>d, <2>1, <2>4, <4>1 DEF PacketTypes
        <4>2. CASE m # n
          BY <1>a, <1>d, <2>4, <4>2 DEF PacketTypes
        <4> QED
          BY <4>1, <4>2
      <3>2. update'[m][k] \in Handled /\ handling[update'[m][k]].at = m
        BY <1>a, <3>1 DEF UpdatesTrue
      <3> QED
        BY <2>2, <3>2
    <2> QED
      BY <2>2, <2>3, <2>4 DEF UpdatesTrue
  <1>1. ASSUME NEW n \in Names, UpdateTerminated(n) PROVE TypeInv'
    BY <1>1, <1>a, <1>d DEF UpdateTerminated, TypeInv, PacketTypes, PacketStates
  <1>2. ASSUME NEW n \in Names, OnUpdate(n) PROVE TypeInv'
    <2> DEFINE i == Head(update[n])
    <2>1. i \in Handled /\ handling[i] \in Packets /\ handling[i].at = n
      BY <1>2, <1>b, <1>c DEF OnUpdate
    <2>2. PICK s \in PacketStates : handling' = [handling EXCEPT ![i].st = s]
      BY <1>2 DEF OnUpdate, PacketStates
    <2>3. store' \in [Names -> Nat]
      BY <1>2, <1>a, <2>1 DEF OnUpdate, PacketTypes, Packets
    <2>4. Destinations(i) \subseteq Names
      BY <2>1 DEF Destinations
    <2>5. sending' \subseteq Handled \X Names
      BY <1>2, <1>a, <2>1, <2>4 DEF OnUpdate, PacketTypes
    <2>6. update' = [update EXCEPT ![n] = Tail(@)] /\ update[n] # <<>> /\ UNCHANGED <<sent, acked>>
      BY <1>2 DEF OnUpdate
    <2> QED
      BY <1>a, <1>d, <2>2, <2>3, <2>5, <2>6 DEF TypeInv, PacketTypes
  <1>3. ASSUME NEW i \in Handled, PostUpdate(i) PROVE TypeInv'
    <2> DEFINE n == handling[i].at
    <2>1. n \in Names /\ i \in Nat
      BY <1>b DEF Packets, Handled
    <2>2. /\ handling' \in Seq(Packets) /\ Handled' = Handled
          /\ \A j \in Handled : handling'[j].at = handling[j].at
      <3>1. "posted" \in PacketStates /\ handling' = [handling EXCEPT ![i].st = "posted"]
        BY <1>3 DEF PostUpdate, PacketStates
      <3> QED
        BY <1>a, <3>1, SetState
    <2>3. update' = update \/ update' = [update EXCEPT ![n] = Append(@, i)]
      BY <1>3 DEF PostUpdate
    <2> HIDE DEF n
    <2>4. update' \in [Names -> Seq(Nat)]
      <3>1. Append(update[n], i) \in Seq(Nat)
        BY <1>a, <2>1, Appended DEF PacketTypes
      <3> QED
        BY <1>a, <2>1, <2>3, <3>1 DEF PacketTypes
    <2>5. ASSUME NEW m \in Names, NEW k \in 1..Len(update'[m])
          PROVE  update'[m][k] \in Handled /\ handling[update'[m][k]].at = m
      <3>1. CASE update'[m] = update[m]
        BY <1>a, <2>5, <3>1 DEF UpdatesTrue
      <3>2. CASE m = n /\ update'[m] = Append(update[m], i)
        <4>1. update[m] \in Seq(Nat)
          BY <1>a DEF PacketTypes
        <4>2. update'[m][k] = i \/ (k \in 1..Len(update[m]) /\ update'[m][k] = update[m][k])
          BY <2>1, <2>5, <3>2, <4>1, Appended
        <4> QED
          BY <1>a, <3>2, <4>2 DEF UpdatesTrue, n
      <3> QED
        BY <1>a, <2>3, <3>1, <3>2 DEF PacketTypes
    <2>6. UpdatesTrue'
      BY <2>2, <2>5 DEF UpdatesTrue
    <2> QED
      BY <1>3, <1>a, <2>2, <2>4, <2>6 DEF PostUpdate, TypeInv, PacketTypes
  <1>4. ASSUME NEW copy \in sending, CopySteps(copy[1], copy[2]) PROVE TypeInv'
    <2>1. UNCHANGED <<handling, store, update>>
      BY <1>4 DEF CopySteps, SendCopy, CopyAnswered, CopyFails, CopyEnds, serverVars
    <2>2. Handled' = Handled
      BY <2>1 DEF Handled
    <2>3. copy \in Handled \X Names /\ copy = <<copy[1], copy[2]>>
      BY <1>a DEF PacketTypes
    <2>4. /\ sending' \subseteq sending /\ sent' \subseteq sent \cup {copy}
          /\ acked' \subseteq acked \cup {copy}
      BY <1>4, <2>3 DEF CopySteps, SendCopy, CopyAnswered, CopyFails, CopyEnds
    <2> QED
      BY <1>a, <2>1, <2>2, <2>3, <2>4 DEF TypeInv, PacketTypes, UpdatesTrue
  <1>5. ASSUME NEW p \in Sources, ReadFromOrigin(p) PROVE TypeInv'
    <2>1. p.to \in Names /\ p.ver \in Nat /\ p.access \in BOOLEAN /\ <<>> \in Seq(STRING) /\ 0 \in Nat
      OBVIOUS
    <2>2. Read(p.to, p.ver, p.access, <<>>, 0)
      BY <1>5 DEF ReadFromOrigin
    <2> QED
      BY <2>1, <2>2, ReadPacket
  <1>6. ASSUME NEW copy \in sent, ReadCopy(copy[1], copy[2]) PROVE TypeInv'
    <2>1. copy[1] \in Handled /\ copy[2] \in Names /\ copy[1] \in Nat
      BY <1>a DEF PacketTypes, Handled
    <2> QED
      BY <1>6, <1>b, <2>1, ReadPacket DEF ReadCopy, Packets
  <1>7. CASE UNCHANGED <<handling, store, update, sending, sent, acked>>
    BY <1>a, <1>7 DEF TypeInv, PacketTypes, UpdatesTrue, Handled
  <1> QED
    BY <1>1, <1>2, <1>3, <1>4, <1>5, <1>6, <1>7, OtherSteps

\* The types are an invariant.
THEOREM TypesCorrect == Spec => []TypeInv
  <1>1. Init => TypeInv
    BY DEF Init, TypeInv, PacketTypes, UpdatesTrue, Handled
  <1> QED
    BY <1>1, TypeStep, PTL DEF Spec

-----------------------------------------------------------------------------
(* NoReplicationLoop.  A copy is only made of a packet with few names, among *)
(* which is not that of the destination.                                     *)

FewNames(p) ==
    /\ Len(p.seenBy) <= MaxSeenBy + 1
    /\ OwnName[p.at] = KnownAs[p.at] => OwnName[p.at] \notin ToSet(Front(p.seenBy))

MaySend(p, d) == Len(p.seenBy) <= MaxSeenBy /\ KnownAs[d] \notin ToSet(p.seenBy)

LoopInv ==
    /\ \A i \in Handled : FewNames(handling[i])
    /\ \A copy \in sending \cup sent : MaySend(handling[copy[1]], copy[2])

\* All but the last of a sequence with one element more.
LEMMA FrontOfAppend ==
    ASSUME NEW s \in Seq(STRING), NEW x \in STRING
    PROVE  Front(Append(s, x)) = s /\ Len(Append(s, x)) = Len(s) + 1
  <1>1. Append(s, x) \in Seq(STRING) /\ Len(Append(s, x)) = Len(s) + 1
    BY AppendProperties
  <1>2. \A i \in 1..Len(s) : Append(s, x)[i] = s[i] /\ s[i] \in STRING
    BY AppendProperties, ElementOfSeq
  <1>3. /\ SubSeq(Append(s, x), 1, Len(s)) \in Seq(STRING)
        /\ Len(SubSeq(Append(s, x), 1, Len(s))) = Len(s)
        /\ \A i \in 1..Len(s) : SubSeq(Append(s, x), 1, Len(s))[i] = s[i]
    BY <1>1, <1>2, SubSeqProperties
  <1>4. SubSeq(Append(s, x), 1, Len(s)) = s
    BY <1>3, SeqEqual
  <1> QED
    BY <1>1, <1>4 DEF Front

\* Every step keeps LoopInv.
LEMMA LoopStep == TypeInv /\ LoopInv /\ [Next]_vars => LoopInv'
  <1> SUFFICES ASSUME TypeInv, LoopInv, [Next]_vars PROVE LoopInv'
    OBVIOUS
  <1> USE Constants
  <1>a. PacketTypes /\ UpdatesTrue
    BY DEF TypeInv
  <1>b. \A i \in Handled : handling[i] \in Packets
    BY <1>a DEF PacketTypes, Handled
  <1>c. \A copy \in sending \cup sent : copy[1] \in Handled
    BY <1>a DEF PacketTypes
  <1>d. ASSUME NEW i \in Handled, NEW s \in PacketStates,
               handling' = [handling EXCEPT ![i].st = s],
               \A copy \in (sending \cup sent)' :
                    copy[1] \in Handled /\ MaySend(handling[copy[1]], copy[2])
        PROVE  LoopInv'
    <2>1. /\ Handled' = Handled
          /\ \A j \in Handled : /\ handling'[j].at = handling[j].at
                                /\ handling'[j].seenBy = handling[j].seenBy
      BY <1>a, <1>d, SetState
    <2> QED
      BY <1>d, <2>1 DEF LoopInv, FewNames, MaySend
  <1>e. ASSUME NEW n \in Names, NEW ver \in Nat, NEW access \in BOOLEAN, NEW seenBy \in Seq(STRING),
               NEW parent \in Nat, Read(n, ver, access, seenBy, parent),
               Len(seenBy) <= MaxSeenBy, KnownAs[n] \notin ToSet(seenBy)
        PROVE  LoopInv'
    <2> DEFINE last == Len(handling) + 1
    <2>1. /\ Len(handling') = last /\ \A i \in Handled : handling'[i] = handling[i]
          /\ handling'[last].at = n /\ handling'[last].seenBy = Append(seenBy, OwnName[n])
          /\ UNCHANGED <<sending, sent>>
      <3>1. /\ Len(handling') = last /\ \A i \in Handled : handling'[i] = handling[i]
            /\ handling'[last] =
                 [at |-> n, ver |-> ver, access |-> access, seenBy |-> Append(seenBy, OwnName[n]),
                  parent |-> parent, st |-> "new"]
            /\ UNCHANGED <<sending, sent>>
        BY <1>e, ReadPacket
      <3> QED
        BY <3>1
    <2>2. Len(handling) \in Nat
      BY <1>a DEF PacketTypes
    <2>3. \A i \in Handled' : i \in Handled \/ i = last
      BY <2>1, <2>2 DEF Handled
    <2>4. Front(Append(seenBy, OwnName[n])) = seenBy /\ Len(Append(seenBy, OwnName[n])) = Len(seenBy) + 1
      BY FrontOfAppend
    <2>5. Len(seenBy) \in Nat
      OBVIOUS
    <2>6. FewNames(handling'[last])
      BY <1>e, <2>1, <2>4, <2>5 DEF FewNames
    <2>7. \A i \in Handled' : FewNames(handling'[i])
      BY <2>1, <2>3, <2>6 DEF LoopInv
    <2> QED
      BY <1>c, <2>1, <2>7 DEF LoopInv
  <1>1. ASSUME NEW n \in Names, update[n] # <<>>
        PROVE  Head(update[n]) \in Handled /\ handling[Head(update[n])].at = n
    BY <1>1, HeadHandled
  <1>2. ASSUME NEW n \in Names, UpdateTerminated(n) PROVE LoopInv'
    <2>1. "error" \in PacketStates /\ Head(update[n]) \in Handled
      BY <1>1, <1>2 DEF UpdateTerminated, PacketStates
    <2>2. handling' = [handling EXCEPT ![Head(update[n])].st = "error"] /\ UNCHANGED <<sending, sent>>
      BY <1>2 DEF UpdateTerminated
    <2> QED
      BY <1>c, <1>d, <2>1, <2>2 DEF LoopInv
  <1>3. ASSUME NEW n \in Names, OnUpdate(n) PROVE LoopInv'
    <2> DEFINE i == Head(update[n])
    <2>1. i \in Handled
      BY <1>1, <1>3 DEF OnUpdate
    <2>2. PICK s \in PacketStates : handling' = [handling EXCEPT ![i].st = s]
      BY <1>3 DEF OnUpdate, PacketStates
    <2>3. sending' = sending \cup {<<i, d>> : d \in Destinations(i)} /\ sent' = sent
      BY <1>3 DEF OnUpdate
    <2>4. \A d \in Destinations(i) : MaySend(handling[i], d)
      BY DEF Destinations, MaySend
    <2> HIDE DEF i
    <2>5. \A copy \in (sending \cup sent)' : copy[1] \in Handled /\ MaySend(handling[copy[1]], copy[2])
      BY <1>c, <2>1, <2>3, <2>4 DEF LoopInv
    <2> QED
      BY <1>d, <2>1, <2>2, <2>5
  <1>4. ASSUME NEW i \in Handled, PostUpdate(i) PROVE LoopInv'
    <2>1. "posted" \in PacketStates /\ handling' = [handling EXCEPT ![i].st = "posted"]
      BY <1>4 DEF PostUpdate, PacketStates
    <2>2. UNCHANGED <<sending, sent>>
      BY <1>4 DEF PostUpdate
    <2> QED
      BY <1>c, <1>d, <2>1, <2>2 DEF LoopInv
  <1>5. ASSUME NEW copy \in sending, CopySteps(copy[1], copy[2]) PROVE LoopInv'
    <2>1. UNCHANGED handling
      BY <1>5 DEF CopySteps, SendCopy, CopyAnswered, CopyFails, CopyEnds, serverVars
    <2>2. copy = <<copy[1], copy[2]>>
      BY <1>a DEF PacketTypes
    <2>3. (sending \cup sent)' \subseteq sending \cup sent
      BY <1>5, <2>2 DEF CopySteps, SendCopy, CopyAnswered, CopyFails, CopyEnds
    <2> QED
      BY <2>1, <2>3 DEF LoopInv, Handled
  <1>6. ASSUME NEW p \in Sources, ReadFromOrigin(p) PROVE LoopInv'
    <2>1. p.to \in Names /\ p.ver \in Nat /\ p.access \in BOOLEAN /\ <<>> \in Seq(STRING) /\ 0 \in Nat
      OBVIOUS
    <2>2. Len(<<>>) <= MaxSeenBy /\ KnownAs[p.to] \notin ToSet(<<>>)
      BY DEF ToSet
    <2>3. Read(p.to, p.ver, p.access, <<>>, 0)
      BY <1>6 DEF ReadFromOrigin
    <2> QED
      BY <1>e, <2>1, <2>2, <2>3
  <1>7. ASSUME NEW copy \in sent, ReadCopy(copy[1], copy[2]) PROVE LoopInv'
    <2> DEFINE p == handling[copy[1]]
    <2>1. copy[1] \in Handled /\ copy[2] \in Names /\ copy[1] \in Nat
      BY <1>a DEF PacketTypes, Handled
    <2>2. p.ver \in Nat /\ p.seenBy \in Seq(STRING) /\ FALSE \in BOOLEAN
      BY <1>b, <2>1 DEF Packets
    <2>3. Len(p.seenBy) <= MaxSeenBy /\ KnownAs[copy[2]] \notin ToSet(p.seenBy)
      BY DEF LoopInv, MaySend
    <2>4. Read(copy[2], p.ver, FALSE, p.seenBy, copy[1])
      BY <1>7 DEF ReadCopy
    <2> QED
      BY <1>e, <2>1, <2>2, <2>3, <2>4
  <1>8. CASE UNCHANGED <<handling, store, update, sending, sent, acked>>
    BY <1>8 DEF LoopInv, Handled
  <1> QED
    BY <1>2, <1>3, <1>4, <1>5, <1>6, <1>7, <1>8, OtherSteps

\* Replication does not loop, whatever the servers, their configurations and their names: a
\* server that the others know by its name never handles a packet that has been through it,
\* and no packet makes more than MaxSeenBy hops.
THEOREM ReplicationEnds == Spec => []NoReplicationLoop
  <1>1. Init => LoopInv
    BY DEF Init, LoopInv, Handled
  <1>2. LoopInv => NoReplicationLoop
    BY DEF LoopInv, NoReplicationLoop, FewNames
  <1> QED
    BY <1>1, <1>2, LoopStep, TypesCorrect, PTL DEF Spec

-----------------------------------------------------------------------------
(* AckedIsStored and StoreAdvances.  What a server accepted is in its store,  *)
(* copies are never Access-Requests and so never rejected, and have the      *)
(* version of what they are copies of.                                       *)

StoredInv ==
    /\ \A j \in Handled :
          LET p == handling[j] IN
          /\ p.st = "accepted" => store[p.at] >= p.ver
          /\ p.st = "rejected" => p.access
          /\ p.parent # 0 => /\ p.parent \in Handled /\ ~p.access
                             /\ p.ver = handling[p.parent].ver
    /\ AckedIsStored

\* A server takes only what is newer.
LEMMA StoreGrows ==
    ASSUME TypeInv, [Next]_vars
    PROVE  \A n \in Names : store[n] \in Nat /\ store'[n] \in Nat /\ store'[n] >= store[n]
  <1>a. PacketTypes /\ PacketTypes'
    BY TypeStep DEF TypeInv
  <1>b. store \in [Names -> Nat] /\ store' \in [Names -> Nat]
    BY <1>a DEF PacketTypes
  <1>1. ASSUME NEW m \in Names, OnUpdate(m) PROVE \A n \in Names : store'[n] >= store[n]
    <2>1. store' = store \/ store' = [store EXCEPT ![m] = IF handling[Head(update[m])].ver > @
                                                         THEN handling[Head(update[m])].ver ELSE @]
      BY <1>1 DEF OnUpdate
    <2> DEFINE v == handling[Head(update[m])].ver
    <2>2. CASE v > store[m]
      <3>1. store' = store \/ store' = [store EXCEPT ![m] = v]
        BY <2>1, <2>2
      <3>2. store' = store \/ v \in Nat
        BY <1>b, <3>1
      <3> HIDE DEF v
      <3> QED
        BY <1>b, <2>2, <3>1, <3>2
    <2>3. CASE ~(v > store[m])
      <3>1. store' = store
        BY <1>b, <2>1, <2>3
      <3> QED
        BY <1>b, <3>1
    <2> QED
      BY <2>2, <2>3
  <1>2. ASSUME NEW m \in Names, UpdateTerminated(m) PROVE store' = store
    BY <1>2 DEF UpdateTerminated
  <1>3. ASSUME NEW i \in Handled, PostUpdate(i) PROVE store' = store
    BY <1>3 DEF PostUpdate
  <1>4. ASSUME NEW copy \in sending, CopySteps(copy[1], copy[2]) PROVE store' = store
    BY <1>4 DEF CopySteps, SendCopy, CopyAnswered, CopyFails, CopyEnds, serverVars
  <1>5. ASSUME NEW p \in Sources, ReadFromOrigin(p) PROVE store' = store
    BY <1>5 DEF ReadFromOrigin, Read, serverVars
  <1>6. ASSUME NEW copy \in sent, ReadCopy(copy[1], copy[2]) PROVE store' = store
    BY <1>6 DEF ReadCopy, Read, serverVars
  <1>7. (\A n \in Names : store'[n] >= store[n]) \/ store' = store
    BY <1>1, <1>2, <1>3, <1>4, <1>5, <1>6, OtherSteps
  <1> QED
    BY <1>b, <1>7

\* Every step keeps StoredInv.
LEMMA StoredStep == TypeInv /\ StoredInv /\ [Next]_vars => StoredInv'
  <1> SUFFICES ASSUME TypeInv, StoredInv, [Next]_vars PROVE StoredInv'
    OBVIOUS
  <1> USE Constants
  <1>a. PacketTypes /\ UpdatesTrue
    BY DEF TypeInv
  <1>b. \A i \in Handled : handling[i] \in Packets /\ handling[i].at \in Names /\ handling[i].ver \in Nat
    <2>1. \A i \in Handled : handling[i] \in Packets
      BY <1>a DEF PacketTypes, Handled
    <2> QED
      BY <2>1 DEF Packets
  <1>c. \A n \in Names : store[n] \in Nat /\ store'[n] \in Nat /\ store'[n] >= store[n]
    BY StoreGrows
  <1>d. acked \subseteq Handled \X Names
    BY <1>a DEF PacketTypes
  \* One packet changes its state
  <1>e. ASSUME NEW i \in Handled, NEW s \in PacketStates,
               handling' = [handling EXCEPT ![i].st = s], UNCHANGED acked,
               s = "accepted" => store'[handling[i].at] >= handling[i].ver,
               s = "rejected" => handling[i].access
        PROVE  StoredInv'
    <2>1. /\ Handled' = Handled
          /\ \A j \in Handled :
                /\ handling'[j].at = handling[j].at /\ handling'[j].ver = handling[j].ver
                /\ handling'[j].access = handling[j].access
                /\ handling'[j].parent = handling[j].parent
                /\ handling'[j].st = IF j = i THEN s ELSE handling[j].st
      <3>1. handling' = [handling EXCEPT ![i].st = s]
        BY <1>e
      <3> QED
        BY <1>a, <3>1, SetState
    <2>2. ASSUME NEW j \in Handled, handling'[j].st = "accepted"
          PROVE  store'[handling'[j].at] >= handling'[j].ver
      <3>1. CASE j = i
        BY <1>e, <2>1, <2>2, <3>1
      <3>2. CASE j # i
        <4>1. store[handling[j].at] >= handling[j].ver
          BY <2>1, <2>2, <3>2 DEF StoredInv
        <4> QED
          BY <1>b, <1>c, <2>1, <4>1
      <3> QED
        BY <3>1, <3>2
    <2>3. ASSUME NEW j \in Handled, handling'[j].st = "rejected"
          PROVE  handling'[j].access
      BY <1>e, <2>1, <2>3 DEF StoredInv
    <2>4. ASSUME NEW j \in Handled, handling'[j].parent # 0
          PROVE  /\ handling'[j].parent \in Handled /\ ~handling'[j].access
                 /\ handling'[j].ver = handling'[handling'[j].parent].ver
      BY <2>1, <2>4 DEF StoredInv
    <2>5. AckedIsStored'
      <3> SUFFICES ASSUME NEW copy \in acked PROVE store'[copy[2]] >= handling'[copy[1]].ver
        BY <1>e DEF AckedIsStored
      <3>1. copy[1] \in Handled /\ copy[2] \in Names /\ store[copy[2]] >= handling[copy[1]].ver
        BY <1>d DEF StoredInv, AckedIsStored
      <3> QED
        BY <1>b, <1>c, <2>1, <3>1
    <2> QED
      BY <2>1, <2>2, <2>3, <2>4, <2>5 DEF StoredInv
  \* One packet is read
  <1>f. ASSUME NEW n \in Names, NEW ver \in Nat, NEW access \in BOOLEAN, NEW seenBy \in Seq(STRING),
               NEW parent \in Nat, Read(n, ver, access, seenBy, parent),
               parent # 0 => parent \in Handled /\ ~access /\ ver = handling[parent].ver
        PROVE  StoredInv'
    <2> DEFINE last == Len(handling) + 1
    <2>1. /\ Len(handling') = last /\ \A i \in Handled : handling'[i] = handling[i]
          /\ handling'[last] =
               [at |-> n, ver |-> ver, access |-> access, seenBy |-> Append(seenBy, OwnName[n]),
                parent |-> parent, st |-> "new"]
          /\ UNCHANGED <<store, acked>>
      BY <1>f, ReadPacket
    <2>2. /\ handling'[last].st = "new" /\ handling'[last].parent = parent
          /\ handling'[last].access = access /\ handling'[last].ver = ver
      BY <2>1
    <2>3. Len(handling) \in Nat
      BY <1>a DEF PacketTypes
    <2>4. Handled' = Handled \cup {last}
      BY <2>1, <2>3 DEF Handled
    <2>5. ASSUME NEW j \in Handled'
          PROVE  /\ handling'[j].st = "accepted" => store'[handling'[j].at] >= handling'[j].ver
                 /\ handling'[j].st = "rejected" => handling'[j].access
                 /\ handling'[j].parent # 0 =>
                        /\ handling'[j].parent \in Handled' /\ ~handling'[j].access
                        /\ handling'[j].ver = handling'[handling'[j].parent].ver
      <3>1. CASE j \in Handled
        BY <2>1, <2>4, <3>1 DEF StoredInv
      <3>2. CASE j = last
        BY <1>f, <2>1, <2>2, <2>4, <3>2
      <3> QED
        BY <2>4, <2>5, <3>1, <3>2
    <2>6. AckedIsStored'
      BY <1>d, <2>1 DEF StoredInv, AckedIsStored
    <2> QED
      BY <2>5, <2>6 DEF StoredInv
  <1>1. ASSUME NEW n \in Names, update[n] # <<>>
        PROVE  Head(update[n]) \in Handled /\ handling[Head(update[n])].at = n
    BY <1>1, HeadHandled
  <1>2. ASSUME NEW n \in Names, UpdateTerminated(n) PROVE StoredInv'
    <2>1. "error" \in PacketStates /\ Head(update[n]) \in Handled
      BY <1>1, <1>2 DEF UpdateTerminated, PacketStates
    <2>2. handling' = [handling EXCEPT ![Head(update[n])].st = "error"] /\ UNCHANGED acked
      BY <1>2 DEF UpdateTerminated
    <2> QED
      BY <1>e, <2>1, <2>2
  <1>3. ASSUME NEW n \in Names, OnUpdate(n) PROVE StoredInv'
    <2> DEFINE i == Head(update[n])
    <2>1. i \in Handled /\ handling[i].at = n /\ handling[i].ver \in Nat
      BY <1>1, <1>3, <1>b DEF OnUpdate
    <2>2. UNCHANGED acked
      BY <1>3 DEF OnUpdate
    <2>3. CASE /\ store' = [store EXCEPT ![n] = IF handling[i].ver > @ THEN handling[i].ver ELSE @]
               /\ handling' = [handling EXCEPT ![i].st = "accepted"]
      <3>1. store'[n] >= handling[i].ver
        BY <1>a, <1>c, <2>1, <2>3 DEF PacketTypes
      <3>2. "accepted" \in PacketStates
        BY DEF PacketStates
      <3> HIDE DEF i
      <3> QED
        BY <1>e, <2>1, <2>2, <2>3, <3>1, <3>2
    <2>4. CASE handling[i].access /\ handling' = [handling EXCEPT ![i].st = "rejected"]
      <3>1. "rejected" \in PacketStates
        BY DEF PacketStates
      <3> HIDE DEF i
      <3> QED
        BY <1>e, <2>1, <2>2, <2>4, <3>1
    <2> QED
      BY <1>3, <2>3, <2>4 DEF OnUpdate
  <1>4. ASSUME NEW i \in Handled, PostUpdate(i) PROVE StoredInv'
    <2>1. "posted" \in PacketStates /\ handling' = [handling EXCEPT ![i].st = "posted"] /\ UNCHANGED acked
      BY <1>4 DEF PostUpdate, PacketStates
    <2> QED
      BY <1>e, <2>1
  <1>5. ASSUME NEW copy \in sending, CopySteps(copy[1], copy[2]) PROVE StoredInv'
    <2>1. UNCHANGED <<handling, store>>
      BY <1>5 DEF CopySteps, SendCopy, CopyAnswered, CopyFails, CopyEnds, serverVars
    <2>2. copy = <<copy[1], copy[2]>> /\ copy[1] \in Handled /\ copy[1] # 0
      BY <1>a DEF PacketTypes, Handled
    <2>3. CASE CopyAnswered(copy[1], copy[2])
      <3>1. PICK j \in Copies(copy[1], copy[2]) : handling[j].st \in {"accepted", "rejected"}
        BY <2>3 DEF CopyAnswered
      <3>2. j \in Handled /\ handling[j].parent = copy[1] /\ handling[j].at = copy[2]
        BY DEF Copies
      <3>3. store[copy[2]] >= handling[copy[1]].ver
        BY <2>2, <3>1, <3>2 DEF StoredInv
      <3>4. acked' = acked \cup {copy}
        BY <2>2, <2>3 DEF CopyAnswered
      <3> QED
        BY <2>1, <3>3, <3>4 DEF StoredInv, AckedIsStored, Handled
    <2>4. CASE UNCHANGED acked
      BY <2>1, <2>4 DEF StoredInv, AckedIsStored, Handled
    <2> QED
      BY <1>5, <2>3, <2>4 DEF CopySteps, SendCopy, CopyFails
  <1>6. ASSUME NEW p \in Sources, ReadFromOrigin(p) PROVE StoredInv'
    <2>1. p.to \in Names /\ p.ver \in Nat /\ p.access \in BOOLEAN /\ <<>> \in Seq(STRING) /\ 0 \in Nat
      OBVIOUS
    <2>2. Read(p.to, p.ver, p.access, <<>>, 0)
      BY <1>6 DEF ReadFromOrigin
    <2> QED
      BY <1>f, <2>1, <2>2
  <1>7. ASSUME NEW copy \in sent, ReadCopy(copy[1], copy[2]) PROVE StoredInv'
    <2> DEFINE p == handling[copy[1]]
    <2>1. copy[1] \in Handled /\ copy[2] \in Names /\ copy[1] \in Nat
      BY <1>a DEF PacketTypes, Handled
    <2>2. p.ver \in Nat /\ p.seenBy \in Seq(STRING) /\ FALSE \in BOOLEAN
      BY <1>b, <2>1 DEF Packets
    <2>3. Read(copy[2], p.ver, FALSE, p.seenBy, copy[1])
      BY <1>7 DEF ReadCopy
    <2> QED
      BY <1>f, <2>1, <2>2, <2>3
  <1>8. CASE UNCHANGED <<handling, store, update, sending, sent, acked>>
    BY <1>8 DEF StoredInv, AckedIsStored, Handled
  <1> QED
    BY <1>2, <1>3, <1>4, <1>5, <1>6, <1>7, <1>8, OtherSteps

\* What another server acknowledged is in its store, or a newer packet, for any servers and
\* whatever is lost, repeated, delayed or overtaken.
THEOREM AcknowledgedStored == Spec => []AckedIsStored
  <1>1. Init => StoredInv
    BY DEF Init, StoredInv, AckedIsStored, Handled
  <1>2. StoredInv => AckedIsStored
    BY DEF StoredInv
  <1> QED
    BY <1>1, <1>2, StoredStep, TypesCorrect, PTL DEF Spec

\* No step of anybody takes a store back to an older packet.
THEOREM StoresNeverGoBack == Spec => StoreAdvances
  <1>1. TypeInv /\ [Next]_vars => [\A n \in Names : store'[n] >= store[n]]_vars
    BY StoreGrows
  <1> QED
    BY <1>1, TypesCorrect, PTL DEF Spec, StoreAdvances

-----------------------------------------------------------------------------
(* NoPanicInService.  A server that was not closed is not terminated, and its *)
(* channels and its client are open.                                         *)

ServiceTypes ==
    /\ terminated \in [Names -> BOOLEAN] /\ chanClosed \in [Names -> BOOLEAN]
    /\ control \in [Names -> Seq({"SetDown", "Close"})]
    /\ client \in [Names -> {"nil", "open", "closed"}]
    /\ closing \in [Names -> {"open", "http", "wg", "radius", "loop", "closed"}]

InService ==
    \A n \in Names : closing[n] = "open" =>
        ~terminated[n] /\ control[n] = <<>> /\ ~chanClosed[n] /\ client[n] # "closed"

ServiceInv == ServiceTypes /\ InService /\ NoPanicInService

\* Every step keeps ServiceInv.
LEMMA ServiceStep == TypeInv /\ ServiceInv /\ [Next]_vars => ServiceInv'
  <1> SUFFICES ASSUME TypeInv, ServiceInv, [Next]_vars PROVE ServiceInv'
    OBVIOUS
  <1> USE Constants
  <1>a. PacketTypes /\ UpdatesTrue /\ ServiceTypes /\ InService /\ NoPanicInService
    BY DEF TypeInv, ServiceInv
  <1>b. \A i \in Handled : handling[i].at \in Names
    <2>1. \A i \in Handled : handling[i] \in Packets
      BY <1>a DEF PacketTypes, Handled
    <2> QED
      BY <2>1 DEF Packets
  \* What does not touch the servers, and panics at most in one that is not in service
  <1>c. ASSUME UNCHANGED <<terminated, chanClosed, control, client, closing>>,
               (\/ crashed' = crashed
                \/ \E n \in Names : crashed' => closing[n] # "open" \/ client[n] = "nil")
        PROVE  ServiceInv'
    BY <1>a, <1>c DEF ServiceInv, ServiceTypes, InService, NoPanicInService
  <1>1. ASSUME NEW n \in Names, StartClient(n) PROVE ServiceInv'
    BY <1>1, <1>a DEF StartClient, ServiceInv, ServiceTypes, InService, NoPanicInService
  <1>2. ASSUME NEW n \in Names, UpdateTerminated(n) PROVE ServiceInv'
    <2>1. terminated[n] /\ UNCHANGED <<terminated, chanClosed, control, client, closing>>
      BY <1>2 DEF UpdateTerminated
    <2>2. closing[n] # "open"
      BY <1>a, <2>1 DEF InService
    <2> QED
      BY <1>c, <2>1, <2>2
  <1>3. ASSUME NEW n \in Names, OnUpdate(n) PROVE ServiceInv'
    BY <1>3, <1>c DEF OnUpdate
  <1>4. ASSUME NEW n \in Names, OnControl(n) PROVE ServiceInv'
    <2>1. closing[n] # "open"
      BY <1>4, <1>a DEF OnControl, InService
    <2>2. Tail(control[n]) \in Seq({"SetDown", "Close"})
      BY <1>4, <1>a DEF OnControl, ServiceTypes
    <2>3. /\ control' = [control EXCEPT ![n] = Tail(@)]
          /\ terminated' = [terminated EXCEPT ![n] = @ \/ Head(control[n]) = "SetDown"]
          /\ UNCHANGED <<chanClosed, client, closing, crashed>>
      BY <1>4 DEF OnControl
    <2>4. control' \in [Names -> Seq({"SetDown", "Close"})]
      BY <1>a, <2>2, <2>3 DEF ServiceTypes
    <2>5. (terminated[n] \/ Head(control[n]) = "SetDown") \in BOOLEAN
      BY Zenon
    <2>6. terminated' \in [Names -> BOOLEAN]
      BY <1>a, <2>3, <2>5 DEF ServiceTypes
    <2>7. \A m \in Names : m # n => terminated'[m] = terminated[m] /\ control'[m] = control[m]
      BY <1>a, <2>3 DEF ServiceTypes
    <2> QED
      BY <1>a, <2>1, <2>3, <2>4, <2>6, <2>7 DEF ServiceInv, ServiceTypes, InService, NoPanicInService
  <1>5. ASSUME NEW i \in Handled, PostUpdate(i) PROVE ServiceInv'
    <2>1. UNCHANGED <<terminated, chanClosed, control, client, closing>>
      BY <1>5 DEF PostUpdate
    <2>2. crashed' = chanClosed[handling[i].at]
      BY <1>5 DEF PostUpdate
    <2>3. chanClosed[handling[i].at] => closing[handling[i].at] # "open"
      BY <1>a, <1>b DEF InService
    <2> QED
      BY <1>b, <1>c, <2>1, <2>2, <2>3
  <1>6. ASSUME NEW copy \in sending, CopySteps(copy[1], copy[2]) PROVE ServiceInv'
    <2> DEFINE n == handling[copy[1]].at
    <2>1. UNCHANGED <<terminated, chanClosed, control, client, closing>>
      BY <1>6 DEF CopySteps, SendCopy, CopyAnswered, CopyFails, CopyEnds, serverVars
    <2>2. n \in Names
      BY <1>a, <1>b DEF PacketTypes
    <2>3. crashed' = crashed \/ crashed' = (client[n] # "open")
      BY <1>6 DEF CopySteps, SendCopy, CopyAnswered, CopyFails, CopyEnds
    <2>4. client[n] # "open" => closing[n] # "open" \/ client[n] = "nil"
      BY <1>a, <2>2 DEF InService, ServiceTypes
    <2> QED
      BY <1>c, <2>1, <2>2, <2>3, <2>4
  <1>7. ASSUME NEW p \in Sources, ReadFromOrigin(p) PROVE ServiceInv'
    BY <1>7, <1>c DEF ReadFromOrigin, Read, serverVars
  <1>8. ASSUME NEW copy \in sent, ReadCopy(copy[1], copy[2]) PROVE ServiceInv'
    BY <1>8, <1>c DEF ReadCopy, Read, serverVars
  <1>9. ASSUME NEW q \in Queries, OnQuery(q) \/ PostQuery(q) PROVE ServiceInv'
    BY <1>9, <1>c DEF OnQuery, PostQuery, serverVars
  <1>10. ASSUME NEW n \in Names, CloseBegin(n) \/ CloseRadius(n) \/ CloseChannels(n) PROVE ServiceInv'
    <2>1. PICK to \in {"http", "radius", "closed"} : closing' = [closing EXCEPT ![n] = to]
      BY <1>10 DEF CloseBegin, CloseRadius, CloseChannels, CloseStep
    <2>2. UNCHANGED <<terminated, control, crashed>> /\ ~crashed
      BY <1>10 DEF CloseBegin, CloseRadius, CloseChannels, CloseStep
    <2>3. client' = client \/ client' = [client EXCEPT ![n] = "closed"]
      BY <1>10 DEF CloseBegin, CloseRadius, CloseChannels, CloseStep
    <2>4. chanClosed' = chanClosed \/ chanClosed' = [chanClosed EXCEPT ![n] = TRUE]
      BY <1>10 DEF CloseBegin, CloseRadius, CloseChannels, CloseStep
    <2>5. ServiceTypes'
      BY <1>a, <2>1, <2>2, <2>3, <2>4 DEF ServiceTypes
    <2>6. InService'
      BY <1>a, <2>1, <2>2, <2>3, <2>4 DEF ServiceTypes, InService
    <2> QED
      BY <2>2, <2>5, <2>6 DEF ServiceInv, NoPanicInService
  <1>11. ASSUME NEW n \in Names, CloseHttp(n) \/ ClosePost(n) PROVE ServiceInv'
    <2>1. PICK c \in {"SetDown", "Close"} : control' = [control EXCEPT ![n] = Append(@, c)]
      BY <1>11 DEF CloseHttp, ClosePost
    <2>2. control' \in [Names -> Seq({"SetDown", "Close"})]
      BY <1>a, <2>1 DEF ServiceTypes
    <2>3. \A m \in Names : m # n => control'[m] = control[m]
      BY <1>a, <2>1 DEF ServiceTypes
    <2>4. PICK to \in {"wg", "loop"} : closing' = [closing EXCEPT ![n] = to]
      BY <1>11 DEF CloseHttp, ClosePost, CloseStep
    <2>5. UNCHANGED <<terminated, chanClosed, client, crashed>> /\ ~crashed
      BY <1>11 DEF CloseHttp, ClosePost, CloseStep
    <2> QED
      BY <1>a, <2>2, <2>3, <2>4, <2>5 DEF ServiceInv, ServiceTypes, InService, NoPanicInService
  <1>12. CASE UNCHANGED vars
    BY <1>12, <1>c DEF vars, serverVars
  <1> QED
    BY <1>1, <1>2, <1>3, <1>4, <1>5, <1>6, <1>7, <1>8, <1>9, <1>10, <1>11, <1>12
    DEF Next, Running, LoopSteps, Closer

\* While no server is being closed and all have their client, nothing panics, for any servers
\* and packets.
THEOREM ServiceNeverPanics == Spec => []NoPanicInService
  <1>1. Init => ServiceInv
    BY DEF Init, ServiceInv, ServiceTypes, InService, NoPanicInService
  <1>2. ServiceInv => NoPanicInService
    BY DEF ServiceInv
  <1> QED
    BY <1>1, <1>2, ServiceStep, TypesCorrect, PTL DEF Spec
=============================================================================
