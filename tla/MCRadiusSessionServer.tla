----------------------- MODULE MCRadiusSessionServer -----------------------
EXTENDS RadiusSessionServer, TLC

CONSTANTS s1, s2, q1

\* Two servers that send to each other, and neither knows the other by the name that it has, so
\* that only the number of names ends the loop
Pair == s1 :> {s2} @@ s2 :> {s1}
Right == s1 :> "1" @@ s2 :> "2"
Wrong == s1 :> "x" @@ s2 :> "y"

QueryS2 == q1 :> s2

TwoPackets == {[to |-> s1, ver |-> 1, access |-> FALSE], [to |-> s1, ver |-> 2, access |-> FALSE]}
WithAccess == TwoPackets \cup {[to |-> s2, ver |-> 3, access |-> TRUE]}
=============================================================================
