----------------------------- MODULE SessionMap -----------------------------
(***************************************************************************)
(* What a RadiusSessionStore promises (sessionserver/session_store.go, its   *)
(* comments and the use that session_server.go makes of it): a map from      *)
(* session ids to the most recent packet of the session, which lives until   *)
(* its own expiration time; a query finds exactly the sessions whose packet  *)
(* has the value asked for; and, if the index is unique, an Access-Request   *)
(* is refused exactly when another session that is not stopped has its       *)
(* value.  RadiusSessionStore implements it with a map, a secondary index    *)
(* and linked lists.                                                         *)
(***************************************************************************)
EXTENDS Integers

CONSTANTS
    Packets,        \* [id, type, time, stamp, val]: what may be pushed
    Values,         \* values of the indexed attribute
    IsUnique,       \* is the index unique?
    LimboTime,      \* life of accepted and of stopped sessions
    ExpirationTime, \* life of the other ones
    MaxTime         \* bound: the clock stops

VARIABLES
    sessions,       \* the packets stored, with their expiration time
    now,            \* the clock
    answer          \* the last packet pushed or query, and its result

vars == <<sessions, now, answer>>

\* Packet types, in the order of the life of a session; 0 is an unknown one, never stored
AccessRequest == 1
AccountingStart == 2
AccountingInterim == 3
AccountingStop == 4

Result(kind, of, found) == [kind |-> kind, of |-> of, found |-> found]

Init ==
    /\ sessions = {}
    /\ now = 0
    /\ answer = Result("none", <<>>, {})

Stored(id) == {e \in sessions : e.id = id}

\* checkInsert: is the packet newer than the one stored?
Newer(p) ==
    \A e \in Stored(p.id) : p.type > e.type \/ p.time > e.time \/ p.stamp > e.stamp

LifeOf(type) == IF type \in {AccessRequest, AccountingStop} THEN LimboTime ELSE ExpirationTime

Entry(p) == [id |-> p.id, type |-> p.type, time |-> p.time, stamp |-> p.stamp, val |-> p.val,
             expires |-> now + LifeOf(p.type)]

Duplicated(p) ==
    /\ IsUnique /\ p.type = AccessRequest /\ p.val \in Values
    /\ \E e \in sessions : e.val = p.val /\ e.id # p.id /\ e.type # AccountingStop

Ignore(p) ==
    /\ p.type = 0 \/ ~Newer(p)
    /\ answer' = Result("ignored", p, {})
    /\ UNCHANGED <<sessions, now>>

Refuse(p) ==
    /\ p.type # 0 /\ Newer(p)
    /\ Duplicated(p)
    /\ answer' = Result("refused", p, {})
    /\ UNCHANGED <<sessions, now>>

Store(p) ==
    /\ p.type # 0 /\ Newer(p)
    /\ ~Duplicated(p)
    /\ sessions' = (sessions \ Stored(p.id)) \cup {Entry(p)}
    /\ answer' = Result("stored", p, {})
    /\ UNCHANGED now

Expire ==
    /\ sessions' = {e \in sessions : e.expires > now}
    /\ UNCHANGED <<now, answer>>

Find(v, activeOnly) ==
    /\ answer' = Result("found", <<v, activeOnly>>,
                        {e \in sessions : e.val = v /\ (activeOnly => e.type # AccountingStop)})
    /\ UNCHANGED <<sessions, now>>

Tick ==
    /\ now < MaxTime
    /\ now' = now + 1
    /\ UNCHANGED <<sessions, answer>>

Next ==
    \/ \E p \in Packets : Ignore(p) \/ Refuse(p) \/ Store(p)
    \/ \E v \in Values, activeOnly \in BOOLEAN : Find(v, activeOnly)
    \/ Expire
    \/ Tick

Spec == Init /\ [][Next]_vars
=============================================================================
