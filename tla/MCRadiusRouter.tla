--------------------------- MODULE MCRadiusRouter ---------------------------
(* Instances of RadiusRouter for TLC. *)
EXTENDS RadiusRouter

CONSTANTS s1, r1, r2, p1

OneServer == <<s1>>
TwoTries == [r \in Reqs |-> IF r = r1 THEN 2 ELSE 1]
AllDests == [r \in Reqs |-> IF r = r1 THEN {"group", "endpoint", "handler"} ELSE {"group"}]
=============================================================================
