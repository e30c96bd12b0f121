-------------------------- MODULE MCDiameterRouter --------------------------
(* Instances of DiameterRouter for TLC. *)
EXTENDS DiameterRouter, TLC

CONSTANTS h1, h2, p1, p2, r1, r2

\* r1 goes to the peer of h1, r2 to a handler
ToOnePeer == [r \in Reqs |-> IF r = r1 THEN {h1} ELSE {}]
\* The route of r1 has two peers
ToBothPeers == r1 :> {h1, h2}
=============================================================================
