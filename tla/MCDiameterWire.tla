--------------------------- MODULE MCDiameterWire ---------------------------
(* An instance of DiameterWire with an AVP of each type and of each padding. *)
EXTENDS DiameterWire

Listed == <<"OctetString", "Integer32", "Integer64", "Unsigned32", "Unsigned64",
           "Float64", "Grouped", "Address", "Time", "UTF8String", "Enumerated",
           "IPv4Address", "IPv6Address", "IPv6Prefix">>

\* The code of a type is its place in the list, with and without vendor.
MCAvpTypes == [k \in {0, 7} \X (1..Len(Listed)) |-> Listed[k[2]]]

Code(type) == CHOOSE i \in DOMAIN Listed : Listed[i] = type

Avp(vendor, code, flags, data) ==
    [code |-> code, vendor |-> vendor, flags |-> flags, data |-> data,
     avps |-> <<>>]

Of(type, data) == Avp(0, Code(type), {}, data)
Group(avps) == [Of("Grouped", <<>>) EXCEPT !.avps = avps]

Negative == Fill(255, 7) \o <<254>>
Large == Fill(0, 4) \o <<255, 255, 255, 254>>
V6 == <<32, 1>> \o Fill(0, 13) \o <<1>>
Short == Avp(7, 1, {"mandatory"}, <<9>>)

SomeAvps ==
    {Of("OctetString", Fill(5, n)) : n \in 0..4}
    \cup {Of(t, Negative) : t \in {"Integer32", "Integer64", "Enumerated", "Float64"}}
    \cup {Of(t, Large) : t \in {"Unsigned32", "Unsigned64", "Time"}}
    \cup {Of(t, <<10, 0, 0, 1>>) : t \in {"Address", "IPv4Address"}}
    \cup {Of(t, V6) : t \in {"Address", "IPv6Address"}}
    \cup {Of("IPv6Prefix", <<64>> \o V6), Of("UTF8String", <<65, 66>>), Short,
          Avp(7, 99, {"protected"}, <<1, 2, 3>>), Avp(0, 70000, {}, <<>>),
          Group(<<>>), Group(<<Short>>), Group(<<Group(<<Short>>), Of("Address", V6)>>)}

MCAvps == SomeAvps \cup {Group(<<Short>>)}

\* Groups have groups in them to a depth of two.
MCDepth ==
    [avp \in MCAvps |->
        IF avp.avps = <<>> THEN 0
        ELSE IF \A i \in DOMAIN avp.avps : avp.avps[i].avps = <<>> THEN 1 ELSE 2]

Message(flags, cmd, avps) ==
    [flags |-> flags, cmd |-> cmd, app |-> 4, e2e |-> 1, hbh |-> 70000,
     avps |-> avps, read |-> FALSE]

MCMessages ==
    {Message({"request"}, 272, <<a>>) : a \in SomeAvps}
    \cup {Message({}, 272, <<Short, a>>) : a \in {Of("Address", V6), Group(<<Short>>)}}
    \cup {Message({"request", "proxyable"}, 70000, <<>>),
          Message({"error", "retransmission"}, 65535, <<Short>>),
          Message({"request"}, 300, <<Short>>)}

MCFollowers ==
    {Message({"request", "proxyable"}, 272, <<Short, Of("Address", <<10, 0, 0, 1>>)>>),
     Message({"error"}, 272, <<>>)}

MCCommands ==
    [node \in {"origin", "relay"} |->
        IF node = "origin" THEN {<<4, 272>>, <<4, 300>>, <<4, 70000>>}
        ELSE {<<4, 272>>, <<4, 70000>>}]
===========================================================================
