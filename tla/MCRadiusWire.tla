---------------------------- MODULE MCRadiusWire ----------------------------
(* An instance of RadiusWire with attributes of each type and of each way of *)
(* hiding that the dictionaries of the repository have.                      *)
EXTENDS RadiusWire

Plain(type) == [Unknown EXCEPT !.type = type]

MCItems ==
    (<<0, 1>> :> Plain("String")) @@ (<<0, 5>> :> Plain("Integer"))
    @@ (<<0, 8>> :> Plain("Address")) @@ (<<0, 55>> :> Plain("Time"))
    @@ (<<0, 95>> :> Plain("IPv6Address")) @@ (<<0, 96>> :> Plain("InterfaceId"))
    @@ (<<0, 97>> :> Plain("IPv6Prefix")) @@ (<<0, 98>> :> Plain("Integer64"))
    @@ (<<0, 2>> :> [Plain("String") EXCEPT !.encrypted = TRUE])
    @@ (<<0, 66>> :> [Plain("String") EXCEPT !.tagged = TRUE])
    @@ (<<0, 64>> :> [Plain("Integer") EXCEPT !.tagged = TRUE])
    @@ (<<0, 69>> :> [Plain("String") EXCEPT !.tagged = TRUE, !.salted = TRUE,
                                             !.withLen = TRUE])
    @@ (<<0, 79>> :> [Plain("Octets") EXCEPT !.concat = TRUE])
    @@ (<<311, 16>> :> [Plain("Octets") EXCEPT !.salted = TRUE, !.withLen = TRUE])
    @@ (<<529, 17>> :> [Plain("Integer") EXCEPT !.salted = TRUE, !.withLen = TRUE])

Avp(vendor, code, tag, value) ==
    [vendor |-> vendor, code |-> code, tag |-> tag, value |-> value]

V6 == <<32, 1>> \o Fill(0, 13) \o <<1>>

Common ==
    <<Avp(0, 1, 0, <<98, 111, 98>>), Avp(0, 5, 0, Fill(255, 7) \o <<251>>),
      Avp(0, 8, 0, <<10, 0, 0, 1>>), Avp(0, 55, 0, Fill(0, 4) \o <<255, 1, 2, 3>>)>>

Rare ==
    <<Avp(0, 95, 0, V6), Avp(0, 96, 0, Fill(7, 8)), Avp(0, 97, 0, <<64>> \o V6),
      Avp(0, 98, 0, Fill(255, 8)), Avp(9, 1, 0, <<0, 1, 0>>), Avp(0, 66, 3, <<49>>)>>

Secret ==
    <<Avp(0, 2, 0, Fill(120, 18)), Avp(311, 16, 0, Fill(0, 3) \o Fill(9, 17)),
      Avp(0, 69, 1, <<115>>), Avp(529, 17, 0, Fill(0, 7) \o <<4>>)>>

Long == <<Avp(0, 79, 0, Fill(1, 60) \o Fill(2, 30)), Avp(0, 1, 0, <<97>>)>>

MCPackets ==
    {[code |-> 1, avps |-> Secret], [code |-> 1, avps |-> Long],
     [code |-> 4, avps |-> Common \o Rare], [code |-> 43, avps |-> <<>>]}

\* An attribute whose type is a tagged integer, as Tunnel-Type.
TaggedPackets == {[code |-> 1, avps |-> <<Avp(0, 64, 1, Fill(0, 7) \o <<13>>)>>]}

MCSecrets ==
    LET Config(a, b) == (<<"client", 1>> :> <<1>>) @@ (<<"proxy", 1>> :> a)
                        @@ (<<"proxy", 2>> :> <<5, 6>>) @@ (<<"server", 2>> :> b)
    IN  {Config(<<1>>, <<5, 6>>), Config(<<3>>, <<5, 6>>), Config(<<1>>, <<3>>)}

MCSalt == <<128, 77>>
===========================================================================
