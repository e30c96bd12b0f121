---------------------------- MODULE CdrDelivery ----------------------------
(***************************************************************************)
(* What a CDR writer promises to who calls WriteRadiusCDR: a CDR that it     *)
(* accepted is kept until it is delivered, any number of times, and is only  *)
(* lost in a mishap: the process stops, the last batch cannot be sent.       *)
(***************************************************************************)
CONSTANT Cdrs

VARIABLES
    accepted,   \* the CDRs that the writer has taken
    delivered,  \* those in the database, or in the file
    lost,       \* those that nothing will deliver any more
    mishap      \* the last step was a mishap

vars == <<accepted, delivered, lost, mishap>>

Init ==
    /\ accepted \in SUBSET Cdrs
    /\ delivered = {} /\ lost = {}
    /\ mishap \in BOOLEAN

Accept ==
    /\ \E c \in Cdrs \ accepted : accepted' = accepted \cup {c}
    /\ UNCHANGED <<delivered, lost>>

Deliver ==
    /\ delivered \subseteq delivered' /\ delivered' \subseteq accepted \ lost
    /\ UNCHANGED <<accepted, lost>>

Lose ==
    /\ mishap'
    /\ accepted \subseteq accepted' /\ accepted' \subseteq Cdrs
    /\ delivered \subseteq delivered'
    /\ lost \subseteq lost' /\ lost' \cup delivered' \subseteq accepted' /\ lost' \cap delivered' = {}

Next == Accept \/ Deliver \/ Lose
Spec == Init /\ [][Next]_vars
=============================================================================
