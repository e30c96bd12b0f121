------------------------ MODULE MCRadiusSessionStore ------------------------
(* Instances of RadiusSessionStore for TLC. *)
EXTENDS RadiusSessionStore

CONSTANTS s1, s2, v1, v2

Packet(id, type, time, stamp, val) ==
    [id |-> id, type |-> type, time |-> time, stamp |-> stamp, val |-> val]

\* Two sessions that want the same value, which the Access-Request of s2 may lack; the packets
\* come in any order, repeated or not at all; s1 has two interims.
Lives ==
    {Packet(s1, 0, 0, 0, v1), Packet(s1, 1, 0, 0, v1), Packet(s1, 2, 0, 0, v1),
     Packet(s1, 3, 1, 0, v1), Packet(s1, 3, 1, 1, v1), Packet(s1, 4, 2, 1, v1),
     Packet(s2, 1, 0, 0, NoValue), Packet(s2, 1, 0, 0, v1), Packet(s2, 2, 0, 0, v1),
     Packet(s2, 4, 1, 0, v1)}

ASSUME OrderlyLives == Packets = Lives => WellBehaved

\* The indexed attribute is not in every packet of the session, or changes
Changing == {Packet(s1, 2, 0, 0, v1), Packet(s1, 3, 1, 0, NoValue), Packet(s1, 3, 2, 0, v2)}
=============================================================================
