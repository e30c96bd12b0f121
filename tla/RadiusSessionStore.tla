------------------------- MODULE RadiusSessionStore -------------------------
(***************************************************************************)
(* The RadiusSessionStore (sessionserver/session_store.go and                *)
(* session_entry.go), used from the event loop of a RadiusSessionServer: a    *)
(* map of sessions by id, a secondary index from the value of an attribute   *)
(* to a set of ids, and three linked lists from which entries expire.         *)
(*                                                                          *)
(* An entry is in the list of its type, and expireEntries goes over whole    *)
(* lists, so the lists are one set of entries, "linked".  One index is       *)
(* modelled.  The attributes configured to be stored are taken to include    *)
(* the indexed one, Acct-Session-Time and Event-Timestamp.                    *)
(***************************************************************************)
EXTENDS Integers, FiniteSets

CONSTANTS
    Packets,        \* [id, type, time, stamp, val]: what may be pushed
    SessionIds,     \* session ids, made of the idAttributes
    Values,         \* values of the indexed attribute
    NoValue,        \* the packet does not have the indexed attribute
    IsUnique,       \* SessionIndexConf.IsUnique
    LimboTime,      \* s.limboTime
    ExpirationTime, \* s.expirationTime
    MaxTime         \* bound: the clock stops

\* PACKET_TYPE_...; 0 is an accounting packet without a known Acct-Status-Type
AccessRequest == 1
AccountingStart == 2
AccountingInterim == 3
AccountingStop == 4

ASSUME PacketsAssumption ==
    Packets \subseteq [id : SessionIds, type : 0..AccountingStop, time : Nat, stamp : Nat,
                       val : Values \cup {NoValue}]
ASSUME StoreAssumption ==
    /\ NoValue \notin Values
    /\ IsUnique \in BOOLEAN
    /\ {LimboTime, ExpirationTime, MaxTime} \subseteq Nat

VARIABLES
    sessions,       \* s.sessions: one entry for each id
    linked,         \* the entries of acceptedSessions, startedSessions and stoppedSessions
    index,          \* s.indexes: <<value, id>>
    now,            \* time.Now()
    answer          \* the last PushPacket or FindByIndex, and what it returned

vars == <<sessions, linked, index, now, answer>>

Entries == [id : SessionIds, type : AccessRequest..AccountingStop, time : Nat, stamp : Nat,
            val : Values \cup {NoValue}, expires : Nat]

Result(kind, of, found) == [kind |-> kind, of |-> of, found |-> found]

Init ==
    /\ sessions = {} /\ linked = {} /\ index = {}
    /\ now = 0
    /\ answer = Result("none", <<>>, {})

-----------------------------------------------------------------------------
(* PushPacket *)

Stored(id) == {e \in sessions : e.id = id}

\* checkInsert
Newer_ByTypeOnly(p) == \A e \in Stored(p.id) : p.type > e.type
Newer(p) ==
    \A e \in Stored(p.id) : p.type > e.type \/ p.time > e.time \/ p.stamp > e.stamp

LifeOf(type) == IF type \in {AccessRequest, AccountingStop} THEN LimboTime ELSE ExpirationTime

NewEntry(p) == [id |-> p.id, type |-> p.type, time |-> p.time, stamp |-> p.stamp, val |-> p.val,
                expires |-> now + LifeOf(p.type)]

\* The sessions, p's own one too, that the unique index gives for the value of p and that are
\* not stopped
Offending_StartedOnly(p) ==
    {e \in sessions : /\ IsUnique /\ p.type = AccessRequest /\ p.val # NoValue
                      /\ <<p.val, e.id>> \in index
                      /\ e.type \in {AccountingStart, AccountingInterim}}
Offending(p) ==
    {e \in sessions : /\ IsUnique /\ p.type = AccessRequest /\ p.val # NoValue
                      /\ <<p.val, e.id>> \in index
                      /\ e.type # AccountingStop}

\* A replaced session is unlinked from acceptedSessions or startedSessions
Unlinked_AcceptedOnly(olds) == {e \in olds : e.type = AccessRequest}
Unlinked(olds) == {e \in olds : e.type # AccountingStop}

\* The id is indexed when it is new, or had only an Access-Request
Indexed(p) ==
    IF p.val # NoValue /\ \A e \in Stored(p.id) : e.type = AccessRequest
    THEN {<<p.val, p.id>>} ELSE {}

PushIgnored(p) ==
    /\ p.type = 0 \/ ~Newer(p)
    /\ answer' = Result("ignored", p, {})
    /\ UNCHANGED <<sessions, linked, index, now>>

PushRefused(p) ==
    /\ p.type # 0 /\ Newer(p)
    /\ Offending(p) # {}
    /\ answer' = Result("refused", p, {})
    /\ UNCHANGED <<sessions, linked, index, now>>

PushStored(p) ==
    /\ p.type # 0 /\ Newer(p)
    /\ Offending(p) = {}
    /\ linked' = (linked \cup {NewEntry(p)}) \ Unlinked(Stored(p.id))
    /\ sessions' = (sessions \ Stored(p.id)) \cup {NewEntry(p)}
    /\ index' = index \cup Indexed(p)
    /\ answer' = Result("stored", p, {})
    /\ UNCHANGED now

PushPacket(p) == PushIgnored(p) \/ PushRefused(p) \/ PushStored(p)

-----------------------------------------------------------------------------
\* expireAllEntries: deleteEntry of every linked entry whose time has come
ExpireAllEntries_IndexKept ==
    LET dead == {e \in linked : e.expires <= now} IN
    /\ linked' = linked \ dead
    /\ sessions' = {e \in sessions : \A d \in dead : d.id # e.id}
    /\ UNCHANGED <<index, now, answer>>
ExpireAllEntries ==
    LET dead == {e \in linked : e.expires <= now} IN
    /\ linked' = linked \ dead
    /\ index' = index \ {<<e.val, e.id>> : e \in dead}
    /\ sessions' = {e \in sessions : \A d \in dead : d.id # e.id}
    /\ UNCHANGED <<now, answer>>

\* FindByIndex dereferences the session of every id of the index: a panic if there is none
FindByIndex(v, activeOnly) ==
    LET ids == {id \in SessionIds : <<v, id>> \in index} IN
    /\ answer' = IF \E id \in ids : Stored(id) = {} THEN Result("panic", <<v, activeOnly>>, {})
                 ELSE Result("found", <<v, activeOnly>>,
                             {e \in sessions : e.id \in ids /\ (activeOnly => e.type # AccountingStop)})
    /\ UNCHANGED <<sessions, linked, index, now>>

Tick ==
    /\ now < MaxTime
    /\ now' = now + 1
    /\ UNCHANGED <<sessions, linked, index, answer>>

Next ==
    \/ \E p \in Packets : PushPacket(p)
    \/ \E v \in Values, activeOnly \in BOOLEAN : FindByIndex(v, activeOnly)
    \/ ExpireAllEntries
    \/ Tick

Spec == Init /\ [][Next]_vars

-----------------------------------------------------------------------------
(* Properties *)

\* The variables keep their types.
TypeOK ==
    /\ sessions \subseteq Entries
    /\ linked \subseteq Entries
    /\ index \subseteq Values \X SessionIds
    /\ now \in 0..MaxTime
    /\ answer.kind \in {"none", "ignored", "refused", "stored", "found", "panic"}
    /\ answer.found \subseteq Entries

\* What the origin of the packets respects in the runs that pass and in the proofs: the packets
\* of a session agree on the indexed attribute, which only its Access-Requests may lack, and
\* are neither older than its Access-Requests nor newer than its Stops.
WellBehaved ==
    \A p, q \in {known \in Packets : known.type # 0} :
        p.id = q.id =>
            /\ p.type = AccessRequest \/ q.type = AccountingStop => p.time <= q.time /\ p.stamp <= q.stamp
            /\ q.type # AccessRequest => q.val # NoValue /\ p.val \in {q.val, NoValue}

\* There is one session for each id.
OnePerId == \A e, f \in sessions : e.id = f.id => e = f

\* The index has exactly the values of the sessions stored: an id that it keeps after its session
\* is deleted makes FindByIndex dereference nil, and one that it lacks hides a session from
\* queries and from the uniqueness check.
IndexExact == index = {<<e.val, e.id>> : e \in {f \in sessions : f.val # NoValue}}

\* The linked lists have exactly the sessions stored: an entry left in a list after its session
\* was replaced would take the new one away when it expires, and a session in no list would
\* never expire.
ListsExact == linked = sessions

\* With a unique index, two sessions that were accepted and have not started yet never have the
\* same value: the index and the expiration do not let a second Access-Request through.
OneAcceptPerValue ==
    IsUnique => \A e, f \in sessions :
        /\ e.type = AccessRequest /\ f.type = AccessRequest
        /\ e.val = f.val /\ e.val # NoValue
        => e = f

Map == INSTANCE SessionMap

\* The map, the index and the lists together behave as a map of sessions: see SessionMap.
ImplementsMap == Map!Spec

\* A session is not deleted before the expiration time of its last packet ("Interval before
\* deleting stopped or accepted sessions", "Deletion is done always by the deleter process").
NotDeletedEarly ==
    [][\A e \in sessions : e.expires <= now \/ \E f \in sessions' : f.id = e.id]_vars

\* deleteEntry removes the session "from all the maps": no id of the index lacks a session.
NoDanglingIds == \A pair \in index : Stored(pair[2]) # {}

\* An Access-Request is refused because of the session of somebody else ("enforce uniquenes of
\* certain session attributes").
RefusedByAnother ==
    [][\A p \in Packets : PushRefused(p) => \E e \in Offending(p) : e.id # p.id]_vars
=============================================================================
