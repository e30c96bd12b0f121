---------------------- MODULE RadiusSessionStore_proofs ----------------------
(***************************************************************************)
(* Proofs about RadiusSessionStore, for any sessions, values, life times     *)
(* and set of well behaved packets: the index and the linked lists agree     *)
(* with the map of sessions, and the store implements SessionMap.            *)
(***************************************************************************)
EXTENDS RadiusSessionStore, TLAPS

\* Every session stored is a packet that was pushed.
Pushed(e) ==
    \E p \in Packets : /\ p.type # 0
                       /\ p.id = e.id /\ p.type = e.type
                       /\ p.time = e.time /\ p.stamp = e.stamp /\ p.val = e.val

StoreInv ==
    /\ TypeOK
    /\ OnePerId
    /\ ListsExact
    /\ IndexExact
    /\ OneAcceptPerValue
    /\ \A e \in sessions : Pushed(e)

USE DEF AccessRequest, AccountingStart, AccountingInterim, AccountingStop

\* The fields of a packet.
LEMMA PacketType ==
    ASSUME NEW p \in Packets
    PROVE  /\ p.id \in SessionIds /\ p.type \in 0..4 /\ p.time \in Nat /\ p.stamp \in Nat
           /\ p.val \in Values \cup {NoValue}
  BY PacketsAssumption

\* The entry made for a packet.
LEMMA NewEntryType ==
    ASSUME StoreInv, NEW p \in Packets, p.type # 0
    PROVE  /\ NewEntry(p) \in Entries
           /\ NewEntry(p).id = p.id /\ NewEntry(p).val = p.val
           /\ NewEntry(p).type = p.type /\ NewEntry(p).time = p.time /\ NewEntry(p).stamp = p.stamp
           /\ Pushed(NewEntry(p))
  <1>1. now \in Nat /\ LifeOf(p.type) \in Nat
    BY StoreAssumption DEF StoreInv, TypeOK, LifeOf
  <1>2. now + LifeOf(p.type) \in Nat
    BY <1>1
  <1>3. NewEntry(p) \in Entries
    BY <1>2, PacketType DEF NewEntry, Entries
  <1> QED
    BY <1>3 DEF NewEntry, Pushed

\* What is in the index, pair by pair.
LEMMA InIndex ==
    ASSUME IndexExact, NEW v, NEW id
    PROVE  <<v, id>> \in index <=> \E e \in sessions : e.val # NoValue /\ e.val = v /\ e.id = id
  BY DEF IndexExact

\* A packet of a well behaved origin that is newer than the session stored is not an
\* Access-Request, does not follow a Stop, and agrees with the session on the indexed value.
LEMMA Replaced ==
    ASSUME WellBehaved, StoreInv, NEW p \in Packets, p.type # 0, Newer(p),
           NEW e \in sessions, e.id = p.id
    PROVE  /\ e.type # AccountingStop
           /\ p.type # AccessRequest
           /\ p.val # NoValue /\ e.val \in {p.val, NoValue}
           /\ e.type # AccessRequest => e.val = p.val
           /\ e # NewEntry(p)
  <1>1. PICK q \in Packets : /\ q.type # 0
                             /\ q.id = e.id /\ q.type = e.type
                             /\ q.time = e.time /\ q.stamp = e.stamp /\ q.val = e.val
    BY DEF StoreInv, Pushed
  <1>2. p.type > q.type \/ p.time > q.time \/ p.stamp > q.stamp
    BY <1>1 DEF Newer, Stored
  <1>3. /\ p.type = AccessRequest \/ q.type = AccountingStop => p.time <= q.time /\ p.stamp <= q.stamp
        /\ q.type # AccessRequest => q.val # NoValue /\ p.val \in {q.val, NoValue}
        /\ p.type # AccessRequest => p.val # NoValue /\ q.val \in {p.val, NoValue}
    BY <1>1 DEF WellBehaved
  <1>4. /\ p.type \in 1..4 /\ q.type \in 1..4 /\ p.time \in Nat /\ q.time \in Nat
        /\ p.stamp \in Nat /\ q.stamp \in Nat
    BY <1>1, PacketType
  <1>5. e.type # AccountingStop /\ p.type # AccessRequest
    BY <1>1, <1>2, <1>3, <1>4
  <1>6. p.val # NoValue /\ e.val \in {p.val, NoValue} /\ (e.type # AccessRequest => e.val = p.val)
    BY <1>1, <1>3, <1>5
  <1>7. e # NewEntry(p)
    BY <1>1, <1>2, <1>4 DEF NewEntry
  <1> QED
    BY <1>5, <1>6, <1>7

-----------------------------------------------------------------------------
\* The empty store satisfies the invariant.
LEMMA InitStoreInv == Init => StoreInv
  <1> SUFFICES ASSUME Init PROVE StoreInv
    OBVIOUS
  <1>1. TypeOK
    BY StoreAssumption DEF Init, TypeOK, Result
  <1> QED
    BY <1>1 DEF Init, StoreInv, OnePerId, ListsExact, IndexExact, OneAcceptPerValue

\* Storing a packet keeps the invariant.
LEMMA PushStoredInv ==
    ASSUME WellBehaved, StoreInv, NEW p \in Packets, PushStored(p)
    PROVE  StoreInv'
  <1> DEFINE new == NewEntry(p)
             olds == Stored(p.id)
  <1>1. p.type # 0 /\ Newer(p)
    BY DEF PushStored
  <1>2. /\ new \in Entries /\ new.id = p.id /\ new.val = p.val /\ new.type = p.type /\ Pushed(new)
    BY <1>1, NewEntryType
  <1>3. sessions' = (sessions \ olds) \cup {new}
    BY DEF PushStored
  <1>4. \A e \in olds : /\ e \in sessions /\ e.id = p.id
                        /\ e.type # AccountingStop /\ p.type # AccessRequest
                        /\ p.val # NoValue /\ e.val \in {p.val, NoValue}
                        /\ e.type # AccessRequest => e.val = p.val
                        /\ e # new
    BY <1>1, Replaced DEF Stored
  <1>5. OnePerId'
    BY <1>2, <1>3 DEF StoreInv, OnePerId, Stored
  <1>6. ListsExact'
    <2>1. Unlinked(olds) = olds
      BY <1>4 DEF Unlinked
    <2>2. linked' = (linked \cup {new}) \ olds
      BY <2>1 DEF PushStored
    <2>3. linked = sessions
      BY DEF StoreInv, ListsExact
    <2> HIDE DEF new, olds
    <2> QED
      BY <1>3, <1>4, <2>2, <2>3 DEF ListsExact
  <1>7. IndexExact'
    <2> DEFINE pairs(S) == {<<e.val, e.id>> : e \in {f \in S : f.val # NoValue}}
    <2>1. index' = index \cup Indexed(p) /\ index = pairs(sessions)
      BY DEF PushStored, StoreInv, IndexExact
    <2>2. ASSUME NEW x \in index' PROVE x \in pairs(sessions')
      <3>1. CASE x \in Indexed(p)
        <4>1. x = <<p.val, p.id>> /\ p.val # NoValue
          BY <3>1 DEF Indexed
        <4>2. new \in sessions'
          BY <1>3
        <4> QED
          BY <1>2, <4>1, <4>2
      <3>2. CASE x \in index
        <4>1. PICK e \in sessions : e.val # NoValue /\ x = <<e.val, e.id>>
          BY <2>1, <3>2
        <4>2. CASE e \in olds
          <5>1. x = <<new.val, new.id>> /\ new.val # NoValue /\ new \in sessions'
            BY <1>2, <1>3, <1>4, <4>1, <4>2
          <5> QED
            BY <5>1
        <4>3. CASE e \notin olds
          <5>1. e \in sessions'
            BY <1>3, <4>1, <4>3
          <5> QED
            BY <4>1, <5>1
        <4> QED
          BY <4>2, <4>3
      <3> QED
        BY <2>1, <2>2, <3>1, <3>2
    <2>3. ASSUME NEW x \in pairs(sessions') PROVE x \in index'
      <3>1. PICK e \in sessions' : e.val # NoValue /\ x = <<e.val, e.id>>
        BY <2>3
      <3>2. CASE e \in sessions
        BY <2>1, <3>1, <3>2
      <3>3. CASE e = new
        <4>1. x = <<p.val, p.id>> /\ p.val # NoValue
          BY <1>2, <3>1, <3>3
        <4>2. CASE \A f \in olds : f.type = AccessRequest
          BY <2>1, <4>1, <4>2 DEF Indexed
        <4>3. CASE \E f \in olds : f.type # AccessRequest
          <5>1. PICK f \in olds : f.type # AccessRequest
            BY <4>3
          <5>2. f \in sessions /\ f.val = p.val /\ f.id = p.id
            BY <1>4, <5>1
          <5> QED
            BY <2>1, <4>1, <5>2
        <4> QED
          BY <4>2, <4>3
      <3> QED
        BY <1>3, <3>1, <3>2, <3>3
    <2>4. index' = pairs(sessions')
      BY <2>2, <2>3
    <2> QED
      BY <2>4 DEF IndexExact
  <1>8. \A e \in sessions' : Pushed(e)
    BY <1>2, <1>3 DEF StoreInv
  <1>9. TypeOK'
    <2>1. sessions' \subseteq Entries
      BY <1>2, <1>3 DEF StoreInv, TypeOK
    <2>2. linked' \subseteq Entries
      BY <1>6, <2>1 DEF ListsExact
    <2>3. index' \subseteq Values \X SessionIds
      <3>1. Indexed(p) \subseteq Values \X SessionIds
        BY PacketType DEF Indexed
      <3> QED
        BY <3>1 DEF PushStored, StoreInv, TypeOK
    <2>4. now' = now /\ answer' = Result("stored", p, {})
      BY DEF PushStored
    <2> QED
      BY <2>1, <2>2, <2>3, <2>4 DEF StoreInv, TypeOK, Result
  <1>10. (\A e \in sessions : Pushed(e))'
    BY <1>8 DEF Pushed
  <1>11. OneAcceptPerValue'
    <2>1. ASSUME IsUnique, p.type = AccessRequest, p.val # NoValue, NEW e \in sessions,
                 e.val = p.val, e.type = AccessRequest
          PROVE  FALSE
      <3>1. <<p.val, e.id>> \in index
        BY <2>1, InIndex DEF StoreInv
      <3>2. e \in Offending(p)
        BY <2>1, <3>1 DEF Offending
      <3> QED
        BY <3>2 DEF PushStored
    <2> HIDE DEF new, olds
    <2> QED
      BY <1>2, <1>3, <2>1 DEF StoreInv, OneAcceptPerValue
  <1> QED
    BY <1>5, <1>6, <1>7, <1>9, <1>10, <1>11 DEF StoreInv

\* Expiration keeps the invariant, and deletes exactly the sessions whose time has come.
LEMMA ExpireInv ==
    ASSUME StoreInv, ExpireAllEntries
    PROVE  StoreInv' /\ sessions' = {e \in sessions : e.expires > now}
  <1> DEFINE dead == {e \in linked : e.expires <= now}
             pairs(S) == {<<e.val, e.id>> : e \in {f \in S : f.val # NoValue}}
  <1>1. /\ linked' = linked \ dead
        /\ index' = index \ {<<e.val, e.id>> : e \in dead}
        /\ sessions' = {e \in sessions : \A d \in dead : d.id # e.id}
        /\ now' = now /\ answer' = answer
    BY DEF ExpireAllEntries
  <1>2. linked = sessions /\ index = pairs(sessions)
    BY DEF StoreInv, ListsExact, IndexExact
  <1>3. \A e \in sessions : e \in Entries /\ e.expires \in Nat
    BY DEF StoreInv, TypeOK, Entries
  <1>4. now \in Nat
    BY StoreAssumption DEF StoreInv, TypeOK
  <1>5. sessions' = sessions \ dead
    BY <1>1, <1>2 DEF StoreInv, OnePerId
  <1>6. sessions' = {e \in sessions : e.expires > now}
    BY <1>2, <1>3, <1>4, <1>5
  <1>7. OnePerId' /\ ListsExact' /\ sessions' \subseteq sessions
    BY <1>1, <1>2, <1>5 DEF StoreInv, OnePerId, ListsExact
  <1>8. index' = pairs(sessions')
    <2>1. ASSUME NEW x \in index' PROVE x \in pairs(sessions')
      <3>1. PICK e \in sessions : e.val # NoValue /\ x = <<e.val, e.id>>
        BY <1>1, <1>2, <2>1
      <3>2. e \notin dead
        BY <1>1, <2>1, <3>1
      <3>3. e \in sessions'
        BY <1>5, <3>1, <3>2
      <3> QED
        BY <3>1, <3>3
    <2>2. ASSUME NEW x \in pairs(sessions') PROVE x \in index'
      <3>1. PICK e \in sessions' : e.val # NoValue /\ x = <<e.val, e.id>>
        BY <2>2
      <3>2. e \in sessions /\ \A d \in dead : d.id # e.id
        BY <1>1, <3>1
      <3>3. x \in index
        BY <1>2, <3>1, <3>2
      <3>4. ASSUME NEW d \in dead PROVE x # <<d.val, d.id>>
        BY <3>1, <3>2
      <3> QED
        BY <1>1, <3>3, <3>4
    <2> QED
      BY <2>1, <2>2
  <1>9. IndexExact'
    BY <1>8 DEF IndexExact
  <1>10. TypeOK'
    <2>1. linked' \subseteq Entries /\ sessions' \subseteq Entries /\ index' \subseteq Values \X SessionIds
      BY <1>1, <1>7 DEF StoreInv, TypeOK
    <2> QED
      BY <1>1, <2>1 DEF StoreInv, TypeOK
  <1>11. (\A e \in sessions : Pushed(e))'
    BY <1>7 DEF StoreInv, Pushed
  <1>12. OneAcceptPerValue'
    BY <1>7 DEF StoreInv, OneAcceptPerValue
  <1> QED
    BY <1>6, <1>7, <1>9, <1>10, <1>11, <1>12 DEF StoreInv

\* A query never meets an id without a session, and finds the sessions that have the value.
LEMMA FindExact ==
    ASSUME StoreInv, NEW v \in Values, NEW activeOnly \in BOOLEAN, FindByIndex(v, activeOnly)
    PROVE  answer' = Result("found", <<v, activeOnly>>,
                            {e \in sessions : e.val = v /\ (activeOnly => e.type # AccountingStop)})
  <1> DEFINE ids == {id \in SessionIds : <<v, id>> \in index}
  <1>1. \A id \in ids : Stored(id) # {}
    BY InIndex DEF StoreInv, Stored
  <1>2. \A e \in sessions : e.id \in ids <=> e.val = v
    <2>1. SUFFICES ASSUME NEW e \in sessions PROVE e.id \in ids <=> e.val = v
      OBVIOUS
    <2>2. e.id \in SessionIds /\ NoValue # v
      BY StoreAssumption DEF StoreInv, TypeOK, Entries
    <2>3. ASSUME e.val = v PROVE e.id \in ids
      BY <2>2, <2>3, InIndex DEF StoreInv
    <2>4. ASSUME e.id \in ids PROVE e.val = v
      <3>1. PICK f \in sessions : f.val = v /\ f.id = e.id
        BY <2>4, InIndex DEF StoreInv
      <3>2. f = e
        BY <3>1 DEF StoreInv, OnePerId
      <3> QED
        BY <3>1, <3>2
    <2> QED
      BY <2>3, <2>4
  <1>3. answer' = Result("found", <<v, activeOnly>>,
                         {e \in sessions : e.id \in ids /\ (activeOnly => e.type # AccountingStop)})
    BY <1>1 DEF FindByIndex
  <1>4. {e \in sessions : e.id \in ids /\ (activeOnly => e.type # AccountingStop)}
          = {e \in sessions : e.val = v /\ (activeOnly => e.type # AccountingStop)}
    BY <1>2
  <1> QED
    BY <1>3, <1>4

\* Every step keeps the invariant.
LEMMA NextStoreInv ==
    ASSUME WellBehaved, StoreInv, [Next]_vars
    PROVE  StoreInv'
  <1>a. ASSUME UNCHANGED <<sessions, linked, index>>, TypeOK' PROVE StoreInv'
    BY <1>a DEF StoreInv, OnePerId, ListsExact, IndexExact, OneAcceptPerValue, Pushed
  <1>1. ASSUME NEW p \in Packets, PushIgnored(p) \/ PushRefused(p)
        PROVE  StoreInv'
    <2>1. TypeOK'
      BY <1>1 DEF PushIgnored, PushRefused, StoreInv, TypeOK, Result
    <2> QED
      BY <1>1, <1>a, <2>1 DEF PushIgnored, PushRefused
  <1>2. ASSUME NEW p \in Packets, PushStored(p)
        PROVE  StoreInv'
    BY <1>2, PushStoredInv
  <1>3. ASSUME NEW v \in Values, NEW activeOnly \in BOOLEAN, FindByIndex(v, activeOnly)
        PROVE  StoreInv'
    <2>1. /\ answer' = Result("found", <<v, activeOnly>>,
                            {e \in sessions : e.val = v /\ (activeOnly => e.type # AccountingStop)})
          /\ UNCHANGED <<sessions, linked, index, now>>
      BY <1>3, FindExact DEF FindByIndex
    <2>2. TypeOK'
      BY <2>1 DEF StoreInv, TypeOK, Result
    <2> QED
      BY <1>a, <2>1, <2>2
  <1>4. CASE ExpireAllEntries
    BY <1>4, ExpireInv
  <1>5. CASE Tick
    <2>1. TypeOK'
      BY <1>5, StoreAssumption DEF Tick, StoreInv, TypeOK
    <2> QED
      BY <1>5, <1>a, <2>1 DEF Tick
  <1>6. CASE UNCHANGED vars
    <2>1. TypeOK'
      BY <1>6 DEF vars, StoreInv, TypeOK
    <2> QED
      BY <1>6, <1>a, <2>1 DEF vars
  <1> QED
    BY <1>1, <1>2, <1>3, <1>4, <1>5, <1>6 DEF Next, PushPacket

\* The inductive invariant holds.
LEMMA StoreInvariant == WellBehaved => (Spec => []StoreInv)
  <1> SUFFICES ASSUME WellBehaved PROVE Spec => []StoreInv
    OBVIOUS
  <1>1. Init => StoreInv
    BY InitStoreInv
  <1>2. StoreInv /\ [Next]_vars => StoreInv'
    BY NextStoreInv
  <1> QED
    BY <1>1, <1>2, PTL DEF Spec

\* The secondary index always has exactly the values of the sessions stored, for any number of
\* sessions and any order, loss or repetition of their packets.
THEOREM IndexCorrect == WellBehaved => (Spec => []IndexExact)
  <1> SUFFICES ASSUME WellBehaved PROVE Spec => []IndexExact
    OBVIOUS
  <1>1. Spec => []StoreInv
    BY StoreInvariant
  <1>2. StoreInv => IndexExact
    BY DEF StoreInv
  <1> QED
    BY <1>1, <1>2, PTL

\* The linked lists always have exactly the sessions stored: nothing is expired by the entry of
\* another packet, and everything expires.
THEOREM ListsCorrect == WellBehaved => (Spec => []ListsExact)
  <1> SUFFICES ASSUME WellBehaved PROVE Spec => []ListsExact
    OBVIOUS
  <1>1. Spec => []StoreInv
    BY StoreInvariant
  <1>2. StoreInv => ListsExact
    BY DEF StoreInv
  <1> QED
    BY <1>1, <1>2, PTL

\* With a unique index, no second Access-Request with a value is accepted while the session of
\* the first one is waiting to start.
THEOREM AcceptOnce == WellBehaved => (Spec => []OneAcceptPerValue)
  <1> SUFFICES ASSUME WellBehaved PROVE Spec => []OneAcceptPerValue
    OBVIOUS
  <1>1. Spec => []StoreInv
    BY StoreInvariant
  <1>2. StoreInv => OneAcceptPerValue
    BY DEF StoreInv
  <1> QED
    BY <1>1, <1>2, PTL

-----------------------------------------------------------------------------
(* The store implements SessionMap *)

\* The two modules agree on what is newer and on the entry made for a packet.
LEMMA SameOperators ==
    ASSUME NEW p \in Packets
    PROVE  /\ Map!Newer(p) <=> Newer(p)
           /\ Map!Stored(p.id) = Stored(p.id)
           /\ Map!Entry(p) = NewEntry(p)
  BY DEF Newer, Stored, NewEntry, LifeOf, Map!Newer, Map!Stored, Map!Entry, Map!LifeOf,
         Map!AccessRequest, Map!AccountingStop

\* The unique index finds an offending session exactly when another session has the value: the
\* session of the packet itself is never the offending one if its origin is well behaved.
LEMMA OffendingExact ==
    ASSUME WellBehaved, StoreInv, NEW p \in Packets, p.type # 0, Newer(p)
    PROVE  Offending(p) # {} <=> Map!Duplicated(p)
  <1>1. p.val \in Values <=> p.val # NoValue
    BY PacketType, StoreAssumption
  <1>2. ASSUME NEW e \in Offending(p) PROVE Map!Duplicated(p)
    <2>1. /\ IsUnique /\ p.type = AccessRequest /\ p.val # NoValue
          /\ e \in sessions /\ <<p.val, e.id>> \in index /\ e.type # AccountingStop
      BY <1>2 DEF Offending
    <2>2. PICK f \in sessions : f.val = p.val /\ f.id = e.id
      BY <2>1, InIndex DEF StoreInv
    <2>3. f = e
      BY <2>1, <2>2 DEF StoreInv, OnePerId
    <2>4. e.id # p.id
      BY <2>1, Replaced
    <2> QED
      BY <1>1, <2>1, <2>2, <2>3, <2>4 DEF Map!Duplicated, Map!AccessRequest, Map!AccountingStop
  <1>3. ASSUME Map!Duplicated(p) PROVE Offending(p) # {}
    <2>1. /\ IsUnique /\ p.type = AccessRequest /\ p.val # NoValue
          /\ \E e \in sessions : e.val = p.val /\ e.type # AccountingStop
      BY <1>1, <1>3 DEF Map!Duplicated, Map!AccessRequest, Map!AccountingStop
    <2>2. PICK e \in sessions : e.val = p.val /\ e.type # AccountingStop
      BY <2>1
    <2>3. <<p.val, e.id>> \in index
      BY <2>1, <2>2, InIndex DEF StoreInv
    <2>4. e \in Offending(p)
      BY <2>1, <2>2, <2>3 DEF Offending
    <2> QED
      BY <2>4
  <1> QED
    BY <1>2, <1>3

\* Every step of the store is a step of the map, or leaves it as it is.
LEMMA NextImplementsMap ==
    ASSUME WellBehaved, StoreInv, [Next]_vars
    PROVE  [Map!Next]_(Map!vars)
  <1>1. ASSUME NEW p \in Packets, PushIgnored(p) PROVE Map!Next
    <2>1. Map!Ignore(p)
      BY <1>1, SameOperators DEF PushIgnored, Result, Map!Ignore, Map!Result
    <2> QED
      BY <2>1 DEF Map!Next
  <1>2. ASSUME NEW p \in Packets, PushRefused(p) PROVE Map!Next
    <2>1. Map!Duplicated(p)
      BY <1>2, OffendingExact DEF PushRefused
    <2>2. Map!Refuse(p)
      BY <1>2, <2>1, SameOperators DEF PushRefused, Result, Map!Refuse, Map!Result
    <2> QED
      BY <2>2 DEF Map!Next
  <1>3. ASSUME NEW p \in Packets, PushStored(p) PROVE Map!Next
    <2>1. ~Map!Duplicated(p)
      BY <1>3, OffendingExact DEF PushStored
    <2>2. Map!Store(p)
      BY <1>3, <2>1, SameOperators DEF PushStored, Result, Map!Store, Map!Result
    <2> QED
      BY <2>2 DEF Map!Next
  <1>4. ASSUME NEW v \in Values, NEW activeOnly \in BOOLEAN, FindByIndex(v, activeOnly)
        PROVE  Map!Next
    <2>1. Map!Find(v, activeOnly)
      BY <1>4, FindExact DEF FindByIndex, Result, Map!Find, Map!Result, Map!AccountingStop
    <2> QED
      BY <2>1 DEF Map!Next
  <1>5. CASE ExpireAllEntries
    <2>1. Map!Expire
      BY <1>5, ExpireInv DEF ExpireAllEntries, Map!Expire
    <2> QED
      BY <2>1 DEF Map!Next
  <1>6. CASE Tick
    <2>1. Map!Tick
      BY <1>6 DEF Tick, Map!Tick
    <2> QED
      BY <2>1 DEF Map!Next
  <1>7. CASE UNCHANGED vars
    BY <1>7 DEF vars, Map!vars
  <1> QED
    BY <1>1, <1>2, <1>3, <1>4, <1>5, <1>6, <1>7 DEF Next, PushPacket

\* A store whose packets come from well behaved origins is a map of sessions: the index answers
\* queries and refuses duplicates exactly, and a session lives until its own expiration time.
THEOREM StoreImplementsMap == WellBehaved => (Spec => ImplementsMap)
  <1> SUFFICES ASSUME WellBehaved PROVE Spec => Map!Spec
    BY DEF ImplementsMap
  <1>1. Init => Map!Init
    BY DEF Init, Result, Map!Init, Map!Result
  <1>2. StoreInv /\ [Next]_vars => [Map!Next]_(Map!vars)
    BY NextImplementsMap
  <1>3. Spec => []StoreInv
    BY StoreInvariant
  <1> QED
    BY <1>1, <1>2, <1>3, PTL DEF Spec, Map!Spec
=============================================================================
