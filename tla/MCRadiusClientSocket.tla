------------------------ MODULE MCRadiusClientSocket ------------------------
(* Instances of RadiusClientSocket for TLC. *)
EXTENDS RadiusClientSocket

CONSTANTS r1, r2, r3, r4, e1

SameServer == [r \in Reqs |-> e1]
\* Only r1 has a second try
FirstRetried == [r \in Reqs |-> IF r = r1 THEN 2 ELSE 1]
=============================================================================
