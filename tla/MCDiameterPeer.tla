--------------------------- MODULE MCDiameterPeer ---------------------------
(* Instances of DiameterPeer for TLC. *)
EXTENDS DiameterPeer, TLC

CONSTANTS r1, r2, h1, h2

TwoRequests == {r1, r2}
OwnHops == (r1 :> h1) @@ (r2 :> h2)
SharedHop == (r1 :> h1) @@ (r2 :> h1)
OneHop == r1 :> h1
NoHop == [r \in {} |-> h1]
=============================================================================
