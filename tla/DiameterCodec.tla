--------------------------- MODULE DiameterCodec ---------------------------
(***************************************************************************)
(* How a Diameter message becomes bytes and bytes become a message         *)
(* (core/diameter_AVP.go, core/diameter_message.go).                       *)
(*                                                                         *)
(* The wire is a sequence of bytes. An AVP is a record: code, vendor,      *)
(* flags, and a value that is either `data`, the bytes of the Go value (an *)
(* int64 is its eight bytes, an address four or sixteen, a prefix its      *)
(* length and then the address), or the list `avps` of a Grouped AVP. The  *)
(* list of an empty group is nil in a message that was read (`read` of the *)
(* message). Float32 is left out (its rounding is the only thing it adds). *)
(*                                                                         *)
(* The functions of the code that call themselves for the inner AVPs are   *)
(* recursive functions over the AVPs, or over positions of the wire.       *)
(***************************************************************************)
EXTENDS Sequences, DiameterLength

CONSTANTS AvpTypes,  \* the dictionary: <<vendor, code>> -> DiameterType
          Avps,      \* the AVPs of the messages, with those inside groups
          Depth      \* Depth[avp]: how deep the groups in it are nested

Octets == {"None", "OctetString"}
Strings == {"UTF8String", "DiamIdent", "DiameterURI", "IPFilterRule"}
Words == {"Integer32", "Unsigned32", "Enumerated", "Time"}
DoubleWords == {"Integer64", "Unsigned64", "Float64"}
SignedWords == {"Integer32", "Enumerated"}
DiameterTypes ==
    Octets \cup Strings \cup Words \cup DoubleWords
        \cup {"Grouped", "Address", "IPv4Address", "IPv6Address", "IPv6Prefix"}

\* GetAVPFromCode: what is not in the dictionary has no type.
DictType(vendor, code) ==
    IF <<vendor, code>> \in DOMAIN AvpTypes THEN AvpTypes[<<vendor, code>>]
    ELSE "None"

TypeOf(avp) == DictType(avp.vendor, avp.code)

---------------------------------------------------------------------------
(* Bytes *)

Byte == 0..255

\* What fits in a uint32. (Its greatest value is beyond the integers of TLC.)
Word32 == {n \in Nat : n \div 16777216 < 256}

\* binary.Write of an unsigned n in two or four bytes, and binary.Read.
Bytes2(n) == <<(n \div 256) % 256, n % 256>>
Bytes4(n) == <<(n \div 16777216) % 256, (n \div 65536) % 256,
               (n \div 256) % 256, n % 256>>
Number2(s) == (s[1] * 256) + s[2]
Number4(s) == (s[1] * 16777216) + (s[2] * 65536) + (s[3] * 256) + s[4]

Fill(b, n) == [i \in 1..n |-> b]

Tail4(s) == SubSeq(s, Len(s) - 3, Len(s))
Slice(wire, at, n) == SubSeq(wire, at + 1, at + n)

\* int64(int32) and int64(uint32).
SignExtended(s) == Fill(IF s[1] >= 128 THEN 255 ELSE 0, 4) \o s
ZeroExtended(s) == Fill(0, 4) \o s

\* net.IP.To4: the sixteen bytes of a mapped address are an IPv4 address too.
Mapped == Fill(0, 10) \o <<255, 255>>
IsV4(ip) == Len(ip) = 4 \/ SubSeq(ip, 1, 12) = Mapped
To16(ip) == IF Len(ip) = 4 THEN Mapped \o ip ELSE ip

LenBytes(n) == <<SplitHigh(n)>> \o Bytes2(SplitLow(n))
LenOf(s) == JoinLen(s[1], Number2(SubSeq(s, 2, 3)))

AvpFlags == [mandatory |-> 64, protected |-> 32]
MessageFlags ==
    [request |-> 128, proxyable |-> 64, error |-> 32, retransmission |-> 16]

\* The byte of the flags, and the flags of a byte.
Bit(flags, f, weight) == IF f \in flags THEN weight[f] ELSE 0
AvpBits(flags) == Bit(flags, "mandatory", AvpFlags) + Bit(flags, "protected", AvpFlags)
MessageBits(flags) ==
    Bit(flags, "request", MessageFlags) + Bit(flags, "proxyable", MessageFlags)
        + Bit(flags, "error", MessageFlags) + Bit(flags, "retransmission", MessageFlags)
FlagSet(bits, weight) ==
    {f \in DOMAIN weight : (bits \div weight[f]) % 2 = 1}

---------------------------------------------------------------------------
(* The AVPs: values of the type that the dictionary has for them, in their  *)
(* shortest form.                                                           *)

DataOK(type, data) ==
    /\ data \in Seq(Byte)
    /\ type \in SignedWords => Len(data) = 8 /\ data = SignExtended(Tail4(data))
    /\ type \in Words \ SignedWords => Len(data) = 8 /\ data = ZeroExtended(Tail4(data))
    /\ type \in DoubleWords => Len(data) = 8
    /\ type = "Address" => Len(data) = 4 \/ (Len(data) = 16 /\ ~IsV4(data))
    /\ type = "IPv4Address" => Len(data) = 4
    /\ type = "IPv6Address" => Len(data) = 16
    /\ type = "IPv6Prefix" => Len(data) = 17
    /\ type = "Grouped" => data = <<>>

AvpRecords ==
    [code : Word32, vendor : Word32, flags : SUBSET {"mandatory", "protected"},
     data : Seq(Byte), avps : Seq(Avps)]

ASSUME TypesAssumption == \A k \in DOMAIN AvpTypes : AvpTypes[k] \in DiameterTypes

ASSUME AvpsAssumption ==
    /\ \A avp \in Avps :
           /\ avp \in AvpRecords
           /\ DataOK(TypeOf(avp), avp.data)
           /\ TypeOf(avp) # "Grouped" => avp.avps = <<>>
    /\ Depth \in [Avps -> Nat]
    /\ \A avp \in Avps : \A i \in DOMAIN avp.avps : Depth[avp.avps[i]] < Depth[avp]

---------------------------------------------------------------------------
(* Sizes *)

HeaderLen_NoVendor(vendor) == 8
HeaderLen(vendor) == IF vendor = 0 THEN 8 ELSE 12

Aligned(n) == n + PadLen(n)

\* The sum of a sequence of lengths, and the sequences of a sequence joined.
Total(lens) ==
    LET from[i \in 1..(Len(lens) + 1)] ==
            IF i > Len(lens) THEN 0 ELSE lens[i] + from[i + 1]
    IN  from[1]

Joined(parts) ==
    LET from[i \in 1..(Len(parts) + 1)] ==
            IF i > Len(parts) THEN <<>> ELSE parts[i] \o from[i + 1]
    IN  from[1]

\* The size of an AVP with inner AVPs of the sizes `lens`.
SizeOf(avp, lens) ==
    LET type == TypeOf(avp) IN
    HeaderLen(avp.vendor) +
    CASE type \in Octets \cup Strings -> Len(avp.data)
      [] type \in Words -> 4
      [] type \in DoubleWords -> 8
      [] type = "Grouped" -> Total(lens)
      [] type = "Address" -> IF IsV4(avp.data) THEN 6 ELSE 18
      [] type = "IPv4Address" -> 4
      [] type = "IPv6Address" -> 16
      [] type = "IPv6Prefix" -> 18

\* The size without the padding, in which the inner AVPs have theirs.
DataLen[avp \in Avps] ==
    SizeOf(avp, [i \in DOMAIN avp.avps |-> Aligned(DataLen[avp.avps[i]])])

\* No AVP is longer than its length can say.
ASSUME LengthsAssumption == \A avp \in Avps : DataLen[avp] <= MaxLen

MessageLen(m) == 20 + Total([i \in DOMAIN m.avps |-> Aligned(DataLen[m.avps[i]])])

\* The AVP and, if it is a group, those in it.
Inside[avp \in Avps] ==
    {avp} \cup IF TypeOf(avp) = "Grouped"
               THEN UNION {Inside[avp.avps[i]] : i \in DOMAIN avp.avps} ELSE {}

EmptyGroupIn(avp) ==
    \E inner \in Inside[avp] : TypeOf(inner) = "Grouped" /\ inner.avps = <<>>

\* DataLen asserts that the value of a Grouped AVP is a list of AVPs: the nil
\* that ReadFrom leaves for an empty one panics.
NilInside(m) == m.read /\ \E i \in DOMAIN m.avps : EmptyGroupIn(m.avps[i])

---------------------------------------------------------------------------
(* Writing *)

\* The value of an AVP, of which the inner ones have been written as `inner`.
WriteData(avp, inner) ==
    LET type == TypeOf(avp)
        data == avp.data
    IN  CASE type \in Octets \cup Strings \cup DoubleWords -> data
          [] type \in Words -> Tail4(data)
          [] type = "Grouped" -> Joined(inner)
          [] type = "Address" -> IF IsV4(data) THEN <<0, 1>> \o Tail4(data)
                                 ELSE <<0, 2>> \o data
          [] type = "IPv4Address" -> Tail4(data)
          [] type = "IPv6Address" -> To16(data)
          [] type = "IPv6Prefix" -> <<0>> \o data

WriteHeader(avp) ==
    Bytes4(avp.code)
        \o <<AvpBits(avp.flags) + IF avp.vendor > 0 THEN 128 ELSE 0>>
        \o LenBytes(DataLen[avp])
        \o (IF avp.vendor > 0 THEN Bytes4(avp.vendor) ELSE <<>>)

AvpBytes_NoPadding(avp, inner) == WriteHeader(avp) \o WriteData(avp, inner)

AvpBytes(avp, inner) ==
    WriteHeader(avp) \o WriteData(avp, inner) \o Fill(0, PadLen(DataLen[avp]))

WriteAvp[avp \in Avps] ==
    AvpBytes(avp, [i \in DOMAIN avp.avps |-> WriteAvp[avp.avps[i]]])

\* The AVPs of a group or of a message, each as it is written.
WriteEach(avps) == [i \in DOMAIN avps |-> WriteAvp[avps[i]]]

\* The check before the padding: what was written is what was announced.
SizeAgrees(avp) ==
    \A a \in Inside[avp] :
        Len(WriteHeader(a)) + Len(WriteData(a, WriteEach(a.avps))) = DataLen[a]

\* The mandatory bit would be enforced with the command of the dictionary, but
\* only if it is NOT there (`errNotInDict != nil`): the nil command panics.
EnforcePanics(m, commands) ==
    /\ "request" \in m.flags
    /\ <<m.app, m.cmd>> \notin commands
    /\ m.avps # <<>>

\* `commands` are the pairs <<application, command>> in the dictionary of the
\* node that writes.
WriteMessage(m, commands) ==
    IF \/ NilInside(m)
       \/ EnforcePanics(m, commands)
       \/ \E i \in DOMAIN m.avps : ~SizeAgrees(m.avps[i])
    THEN [st |-> "panic", bytes |-> <<>>]
    ELSE [st |-> "ok",
          bytes |-> <<1>> \o LenBytes(MessageLen(m))
                        \o <<MessageBits(m.flags)>>
                        \o LenBytes(m.cmd) \o Bytes4(m.app)
                        \o Bytes4(m.e2e) \o Bytes4(m.hbh)
                        \o Joined(WriteEach(m.avps))]

---------------------------------------------------------------------------
(* Reading: from the position `at`, the outcome with the value, the number  *)
(* `n` of bytes the function says it has read, and the new position.        *)

Refused(st) == [st |-> st]

Read(value, n, at) == [st |-> "ok", value |-> value, n |-> n, at |-> at]

Plain(bytes) == [data |-> bytes, avps |-> <<>>]

\* A value of a fixed size, whatever the length of the AVP says.
ReadFixed(wire, at, type) ==
    LET size == IF type \in DoubleWords THEN 8 ELSE 4
        bytes == Slice(wire, at, size)
        value == CASE type \in DoubleWords -> bytes
                   [] type \in SignedWords -> SignExtended(bytes)
                   [] type \in Words \ SignedWords -> ZeroExtended(bytes)
    IN  IF Len(wire) - at < size THEN Refused("error")
        ELSE Read(Plain(value), size, at + size)

\* All the bytes with the padding, of which the first dataLen are the value.
\* The sizes are uint32: a length shorter than the header wraps around, to a
\* size that no reader has or, with the padding, to a small one and a slice
\* out of its bounds.
ReadSized_ShortRead(wire, at, dataLen, padLen) ==
    LET end == at + dataLen + padLen
    IN  Read(Plain(SubSeq(wire \o Fill(0, dataLen), at + 1, at + dataLen)),
             dataLen + padLen, IF end <= Len(wire) THEN end ELSE Len(wire))
ReadSized(wire, at, dataLen, padLen) ==
    IF dataLen < 0
    THEN Refused(IF dataLen + padLen >= 0 THEN "panic" ELSE "error")
    ELSE IF Len(wire) - at < dataLen + padLen THEN Refused("error")
    ELSE Read(Plain(Slice(wire, at, dataLen)), dataLen + padLen, at + dataLen + padLen)

\* The address types keep the padding in the value.
ReadAddress(wire, at, dataLen, padLen) ==
    IF Len(wire) - at < dataLen + padLen \/ dataLen + padLen < 0 THEN Refused("error")
    ELSE Read(Plain(Slice(wire, at, dataLen + padLen)), dataLen + padLen,
              at + dataLen + padLen)

\* The two bytes of padding are drained, and nobody asks whether they came.
Drained(wire, at) == IF at + 2 <= Len(wire) THEN at + 2 ELSE Len(wire)

ReadTypedAddress(wire, at) ==
    LET size == IF Slice(wire, at, 2) = <<0, 1>> THEN 4 ELSE 16
    IN  IF Len(wire) - at < 2 \/ Len(wire) - at < 2 + size THEN Refused("error")
        ELSE Read(Plain(Slice(wire, at + 2, size)), size + 4,
                  Drained(wire, at + 2 + size))

ReadPrefix(wire, at) ==
    IF Len(wire) - at < 18 THEN Refused("error")
    ELSE Read(Plain(Slice(wire, at + 1, 17)), 20, Drained(wire, at + 18))

\* The inner AVPs are read by `list`, which is ReadAvps below.
ReadGroup(at, left, list) ==
    LET inner == list[<<at, left>>]
    IN  IF inner.st # "ok" THEN inner
        ELSE Read([data |-> <<>>, avps |-> inner.value], inner.n, inner.at)

ReadValue(wire, at, type, header, avpLen, list) ==
    LET dataLen == avpLen - header
        padLen == PadLen(avpLen)
    IN  CASE type \in Octets \cup Strings -> ReadSized(wire, at, dataLen, padLen)
          [] type \in Words \cup DoubleWords -> ReadFixed(wire, at, type)
          [] type = "Grouped" -> ReadGroup(at, dataLen + padLen, list)
          [] type = "Address" -> ReadTypedAddress(wire, at)
          [] type \in {"IPv4Address", "IPv6Address"} ->
                ReadAddress(wire, at, dataLen, padLen)
          [] type = "IPv6Prefix" -> ReadPrefix(wire, at)

HeaderAt(wire, at) == IF wire[at + 5] >= 128 THEN 12 ELSE 8
VendorAt(wire, at) ==
    IF HeaderAt(wire, at) = 12 THEN Number4(Slice(wire, at + 8, 4)) ELSE 0
CodeAt(wire, at) == Number4(Slice(wire, at, 4))

\* The AVP with the value that was read.
AvpRead(wire, at, body) ==
    IF body.st # "ok" THEN body
    ELSE Read([code |-> CodeAt(wire, at), vendor |-> VendorAt(wire, at),
               flags |-> FlagSet(wire[at + 5], AvpFlags),
               data |-> body.value.data, avps |-> body.value.avps],
              HeaderAt(wire, at) + body.n, body.at)

ReadAvp(wire, at, list) ==
    IF Len(wire) - at < 8 \/ Len(wire) - at < HeaderAt(wire, at) THEN Refused("error")
    ELSE AvpRead(wire, at,
                 ReadValue(wire, at + HeaderAt(wire, at),
                           DictType(VendorAt(wire, at), CodeAt(wire, at)),
                           HeaderAt(wire, at), LenOf(Slice(wire, at + 5, 3)), list))

\* The AVP that was read, in front of those behind it.
AndThen(first, left, list) ==
    LET rest == list[<<first.at, left - first.n>>]
    IN  IF first.st # "ok" THEN first
        ELSE IF rest.st # "ok" THEN rest
        ELSE Read(<<first.value>> \o rest.value, first.n + rest.n, rest.at)

\* One turn of the loop over AVPs: `left` is what the count of the bytes that
\* they say they have read lacks.
ReadFrom(wire, at, left, list) ==
    IF left <= 0 THEN Read(<<>>, 0, at)
    ELSE AndThen(ReadAvp(wire, at, list), left, list)

ReadAvps(wire, start, length) ==
    LET list[p \in (0..Len(wire)) \X Int] == ReadFrom(wire, p[1], p[2], list)
    IN  list[<<start, length>>]

\* The AVPs must end exactly where the message does: if not, a panic.
ReadMessage(wire, at) ==
    IF Len(wire) - at < 20 THEN Refused("error")
    ELSE LET length == LenOf(Slice(wire, at + 1, 3))
             body == ReadAvps(wire, at + 20, length - 20)
         IN  IF body.st # "ok" THEN body
             ELSE IF 20 + body.n # length THEN Refused("panic")
             ELSE Read([flags |-> FlagSet(wire[at + 5], MessageFlags),
                        cmd |-> LenOf(Slice(wire, at + 5, 3)),
                        app |-> Number4(Slice(wire, at + 8, 4)),
                        e2e |-> Number4(Slice(wire, at + 12, 4)),
                        hbh |-> Number4(Slice(wire, at + 16, 4)),
                        avps |-> body.value, read |-> TRUE], length, body.at)
===========================================================================
