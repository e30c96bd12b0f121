---------------------------- MODULE RadiusCodec ----------------------------
(***************************************************************************)
(* How a Radius packet becomes bytes and bytes become a packet             *)
(* (core/radius_AVP.go, core/radius_packet.go).                            *)
(*                                                                         *)
(* The wire is a sequence of bytes. An attribute is a record: code,        *)
(* vendor, tag, and the bytes of its Go value (an int64 is its eight       *)
(* bytes, an address four or sixteen, a prefix its length and the          *)
(* address). What the dictionary says of it is a record of type and flags. *)
(* md5 is external: a digest of sixteen bytes that is enough to tell the   *)
(* packets of a model apart.                                               *)
(***************************************************************************)
EXTENDS Integers, Sequences, SequencesExt

CONSTANTS Items,     \* the dictionary: <<vendor, code>> -> item
          MaxAvp,    \* the greatest size of an attribute, 255
          PieceSize  \* the size of the pieces of a longer one, 240

Unknown == [type |-> "None", tagged |-> FALSE, salted |-> FALSE,
            encrypted |-> FALSE, withLen |-> FALSE, concat |-> FALSE]

\* GetFromCode: what is not in the dictionary is taken for octets.
Item(vendor, code) ==
    IF <<vendor, code>> \in DOMAIN Items THEN Items[<<vendor, code>>] ELSE Unknown

ItemOf(avp) == Item(avp.vendor, avp.code)

Hidden(item) == item.encrypted \/ item.salted

RequestCodes == {1, 4, 40, 43}  \* Access, Accounting, Disconnect, CoA
AccessRequest == 1

---------------------------------------------------------------------------
(* Bytes *)

RECURSIVE ToBytes(_, _)
ToBytes(n, w) == IF w = 0 THEN <<>> ELSE ToBytes(n \div 256, w - 1) \o <<n % 256>>

RECURSIVE FromBytes(_)
FromBytes(s) == IF s = <<>> THEN 0 ELSE FromBytes(Front(s)) * 256 + Last(s)

RECURSIVE Fill(_, _)
Fill(b, n) == IF n = 0 THEN <<>> ELSE Fill(b, n - 1) \o <<b>>

Low(s, n) == SubSeq(s, Len(s) - n + 1, Len(s))
Slice(s, at, n) == SubSeq(s, at + 1, at + n)
Extended(s) == Fill(IF s[1] >= 128 THEN 255 ELSE 0, 8 - Len(s)) \o s

\* bytes.Trim(value, "\x00")
RECURSIVE Trimmed(_)
Trimmed(s) ==
    IF s # <<>> /\ Head(s) = 0 THEN Trimmed(Tail(s))
    ELSE IF s # <<>> /\ Last(s) = 0 THEN Trimmed(Front(s)) ELSE s

RoundUp16(n) == IF n % 16 = 0 THEN n ELSE n + (16 - (n % 16))

ZeroAuthenticator == Fill(0, 16)

---------------------------------------------------------------------------
(* md5 and the hiding of values *)

RECURSIVE Checksum(_)
Checksum(s) ==
    IF Len(s) <= 1 THEN IF s = <<>> THEN 1 ELSE s[1] + 7
    ELSE LET half == Len(s) \div 2
         IN  ((Checksum(SubSeq(s, 1, half)) * 31)
                 + (Checksum(SubSeq(s, half + 1, Len(s))) * 17) + 3) % 65521

\* The two bytes of the checksum, eight times.
Twice(s) == s \o s
Digest(sum) == Twice(Twice(Twice(<<sum \div 256, sum % 256>>)))
Md5(s) == Digest(Checksum(s))

\* XOR with the digest, as an addition; UnMask is its inverse.
RECURSIVE Mask(_, _)
Mask(s, key) ==
    IF s = <<>> THEN <<>> ELSE <<(Head(s) + Head(key)) % 256>> \o Mask(Tail(s), Tail(key))

RECURSIVE UnMask(_, _)
UnMask(s, key) ==
    IF s = <<>> THEN <<>> ELSE <<(Head(s) - Head(key)) % 256>> \o UnMask(Tail(s), Tail(key))

Padded(s) == s \o Fill(0, RoundUp16(Len(s)) - Len(s))

\* encrypt1: each block of 16 is hidden with a digest of the one before, the
\* first with the authenticator and the salt.
RECURSIVE EncryptBlocks(_, _, _)
EncryptRest(s, secret, block) ==
    block \o EncryptBlocks(SubSeq(s, 17, Len(s)), secret, block)

EncryptBlocks(s, secret, seed) ==
    IF s = <<>> THEN <<>>
    ELSE EncryptRest(s, secret, Mask(SubSeq(s, 1, 16), Md5(secret \o seed)))

Encrypt(payload, authenticator, secret, salt) ==
    EncryptBlocks(Padded(payload), secret, authenticator \o salt)

\* decrypt1, which goes backwards over the same blocks.
RECURSIVE DecryptBlocks(_, _, _)
DecryptBlocks(s, secret, seed) ==
    IF s = <<>> THEN <<>>
    ELSE LET block == SubSeq(s, 1, 16)
         IN  UnMask(block, Md5(secret \o seed))
                 \o DecryptBlocks(SubSeq(s, 17, Len(s)), secret, block)

Decrypt_OneKey(payload, authenticator, secret, salt) ==
    UnMask(Padded(payload), Md5(secret \o authenticator \o salt)
                                \o Md5(secret \o authenticator \o salt))

Decrypt(payload, authenticator, secret, salt) ==
    DecryptBlocks(Padded(payload), secret, authenticator \o salt)

---------------------------------------------------------------------------
(* Attributes: sizes and writing *)

FixedSize ==
    [Integer |-> 4, Address |-> 4, Time |-> 4, IPv6Address |-> 16,
     IPv6Prefix |-> 18, InterfaceId |-> 8, Integer64 |-> 8]

Free == {"None", "Octets", "String"}

HeaderLen(vendor) == IF vendor = 0 THEN 2 ELSE 8

AvpLen(avp) ==
    LET item == ItemOf(avp)
        data == IF item.type \in Free
                THEN Len(avp.value) + IF item.withLen THEN 1 ELSE 0
                ELSE FixedSize[item.type]
    IN  HeaderLen(avp.vendor)
        + (IF Hidden(item) THEN RoundUp16(data) ELSE data)
        + (IF item.salted THEN 2 ELSE 0)
        + (IF item.tagged /\ item.type # "Integer" THEN 1 ELSE 0)

\* The bytes of the value and how many of them are counted. A tagged integer
\* is meant to take three bytes; the lower two are written as a uint32.
Counted(bytes, n) == [bytes |-> bytes, n |-> n]
Whole(bytes) == Counted(bytes, Len(bytes))

Payload(avp) ==
    LET item == ItemOf(avp)
        v == avp.value
    IN  CASE item.type \in Free -> Whole(v)
          [] item.type = "Integer" /\ item.tagged /\ ~item.salted ->
                Counted(<<v[6], 0, 0, v[7], v[8]>>, 3)
          [] item.type \in {"Integer", "Time", "Address"} -> Counted(Low(v, 4), 4)
          [] item.type = "IPv6Prefix" -> Counted(<<0>> \o v, 18)
          [] item.type \in {"IPv6Address", "InterfaceId", "Integer64"} ->
                Counted(v, FixedSize[item.type])

HiddenPayload(item, payload, authenticator, secret, salt) ==
    Encrypt((IF item.withLen THEN <<Len(payload)>> ELSE <<>>) \o payload,
            authenticator, secret, IF item.salted THEN salt ELSE <<>>)

\* What follows the header: the payload, or its hidden bytes.
Data(item, payload, authenticator, secret, salt) ==
    IF Hidden(item)
    THEN Whole(HiddenPayload(item, payload.bytes, authenticator, secret, salt))
    ELSE payload

\* The count is compared with the length that was announced.
Assembled(length, head, data) ==
    IF length > MaxAvp THEN [st |-> "error", bytes |-> <<>>]
    ELSE [st |-> IF Len(head) + data.n = length THEN "ok" ELSE "panic",
          bytes |-> head \o data.bytes]

AvpHead(avp, item, length, salt) ==
    (IF avp.vendor = 0 THEN <<avp.code, length>>
     ELSE <<26, length>> \o ToBytes(avp.vendor, 4) \o <<avp.code, length - 6>>)
    \o (IF item.tagged THEN <<avp.tag>> ELSE <<>>)
    \o (IF item.salted THEN salt ELSE <<>>)

\* ToWriter
WriteAvp(avp, authenticator, secret, salt) ==
    LET item == ItemOf(avp) IN
    Assembled(AvpLen(avp), AvpHead(avp, item, AvpLen(avp), salt),
              Data(item, Payload(avp), authenticator, secret, salt))

---------------------------------------------------------------------------
(* Attributes: reading. `at` is the position in the wire, `n` the number of *)
(* bytes that the function says it has read.                                *)

Refused(st) == [st |-> st]

\* The value of an attribute from the bytes of its source: the buffer of the
\* decrypted bytes, or what is left of the wire. (No dictionary hides an
\* interface id, or a tagged integer without a salt.)
ReadValue(item, source, payloadLen) ==
    LET Take(k) == IF Len(source) < k THEN Refused("error")
                   ELSE [st |-> "ok", k |-> k, value |-> SubSeq(source, 1, k)]
        TakeExactly(k) == IF payloadLen # k THEN Refused("error") ELSE Take(k)
        As(taken, Convert(_)) ==
            IF taken.st = "ok" THEN [taken EXCEPT !.value = Convert(@)] ELSE taken
    IN  CASE item.type = "String" -> As(Take(payloadLen), Trimmed)
          [] item.type \in {"None", "Octets"} -> Take(payloadLen)
          [] item.type = "Integer" ->
                IF item.tagged /\ ~item.salted
                THEN As(Take(3), LAMBDA s : Fill(0, 5) \o s)
                ELSE As(Take(4), Extended)
          [] item.type = "Address" -> TakeExactly(4)
          [] item.type = "IPv6Address" -> TakeExactly(16)
          [] item.type = "InterfaceId" -> TakeExactly(8)
          [] item.type = "Time" -> As(Take(4), LAMBDA s : Fill(0, 4) \o s)
          [] item.type = "IPv6Prefix" -> As(Take(18), Tail)
          [] item.type = "Integer64" -> Take(8)

\* From decrypted bytes, which may have their length in front and padding
\* behind. (`avpBytes[1 : size+1]` has a byte for an index.)
Revealed(item, plain, dataLen) ==
    IF item.withLen /\ Len(plain) < plain[1] + 1 THEN Refused("error")
    ELSE IF item.withLen /\ plain[1] = 255 THEN Refused("panic")
    ELSE ReadValue(item, IF item.withLen THEN SubSeq(plain, 2, plain[1] + 1) ELSE plain,
                   IF item.withLen THEN plain[1] ELSE dataLen)

BadHeader(wire, at) ==
    \/ Len(wire) - at < 2
    \/ /\ wire[at + 1] = 26
       /\ Len(wire) - at < 8 \/ wire[at + 8] # (wire[at + 2] - 6) % 256

AvpHeader(wire, at) ==
    IF wire[at + 1] # 26 THEN [size |-> 2, vendor |-> 0, code |-> wire[at + 1]]
    ELSE [size |-> 8, vendor |-> FromBytes(Slice(wire, at + 2, 4)), code |-> wire[at + 7]]

Extra(item) == (IF item.tagged THEN 1 ELSE 0) + (IF item.salted THEN 2 ELSE 0)

\* The value between `start` and start + dataLen.
ReadData(item, wire, start, dataLen, authenticator, secret) ==
    IF Len(wire) < start \/ dataLen = 0 THEN Refused("error")
    ELSE IF ~Hidden(item)
    THEN ReadValue(item, SubSeq(wire, start + 1, Len(wire)), dataLen)
    ELSE IF Len(wire) - start < dataLen THEN Refused("error")
    ELSE Revealed(item, Decrypt(Slice(wire, start, dataLen), authenticator, secret,
                                IF item.salted THEN Slice(wire, start - 2, 2) ELSE <<>>),
                  dataLen)

\* A hidden value takes all its bytes, another one those of its type.
Built(header, item, wire, at, dataLen, body) ==
    LET n == header.size + Extra(item) + IF Hidden(item) THEN dataLen ELSE body.k
    IN  IF body.st # "ok" THEN body
        ELSE [st |-> "ok", n |-> n, at |-> at + n,
              value |-> [code |-> header.code, vendor |-> header.vendor,
                         tag |-> IF item.tagged THEN wire[at + header.size + 1] ELSE 0,
                         value |-> body.value]]

ReadBody(header, item, wire, at, authenticator, secret) ==
    LET dataLen == (wire[at + 2] - header.size - Extra(item)) % 256
    IN  Built(header, item, wire, at, dataLen,
              ReadData(item, wire, at + header.size + Extra(item), dataLen,
                       authenticator, secret))

ReadAvp(wire, at, authenticator, secret) ==
    LET header == AvpHeader(wire, at)
    IN  IF BadHeader(wire, at) THEN Refused("error")
        ELSE ReadBody(header, Item(header.vendor, header.code), wire, at,
                      authenticator, secret)

---------------------------------------------------------------------------
(* Packets *)

\* The attributes that may be concatenated are written in pieces if they
\* do not fit in one.
RECURSIVE Pieces(_)
Pieces(value) ==
    IF Len(value) <= PieceSize THEN <<value>>
    ELSE <<SubSeq(value, 1, PieceSize)>>
             \o Pieces(SubSeq(value, PieceSize + 1, Len(value)))

RECURSIVE Normalized(_)
Normalized(avps) ==
    IF avps = <<>> THEN <<>>
    ELSE LET avp == Head(avps)
             rest == Normalized(Tail(avps))
         IN  IF ItemOf(avp).concat /\ AvpLen(avp) > MaxAvp
             THEN LET pieces == Pieces(avp.value)
                  IN  [i \in DOMAIN pieces |-> [avp EXCEPT !.value = pieces[i]]] \o rest
             ELSE <<avp>> \o rest

RECURSIVE LenAll(_)
LenAll(avps) == IF avps = <<>> THEN 0 ELSE AvpLen(Head(avps)) + LenAll(Tail(avps))

PacketLen(avps) == (20 + LenAll(avps)) % 65536

\* The attributes one after the other; the first that fails decides.
Joined(first, rest) ==
    IF first.st # "ok" THEN first ELSE [rest EXCEPT !.bytes = first.bytes \o @]

RECURSIVE WriteAll(_, _, _, _)
WriteAll(avps, authenticator, secret, salt) ==
    IF avps = <<>> THEN [st |-> "ok", bytes |-> <<>>]
    ELSE Joined(WriteAvp(Head(avps), authenticator, secret, salt),
                WriteAll(Tail(avps), authenticator, secret, salt))

IsRequest(p) == p.code \in RequestCodes

\* The authenticator with which the attributes are written: a new one, zero,
\* or the one of the request that is answered.
WritingAuthenticator(p, random) ==
    IF p.code = AccessRequest THEN random
    ELSE IF IsRequest(p) THEN ZeroAuthenticator ELSE p.auth

Signed(bytes, secret) ==
    SubSeq(bytes, 1, 4) \o Md5(bytes \o secret) \o SubSeq(bytes, 21, Len(bytes))

\* Only the Access-Request is written as it is: the others get the digest of
\* their bytes, and the number of bytes is compared once more.
Finished(p, avps, st, bytes, secret) ==
    IF st # "ok" THEN [st |-> st, bytes |-> <<>>]
    ELSE IF \/ 20 + LenAll(avps) # PacketLen(avps)
            \/ p.code # AccessRequest /\ Len(bytes) # PacketLen(avps)
    THEN [st |-> "panic", bytes |-> <<>>]
    ELSE [st |-> "ok",
          bytes |-> IF p.code = AccessRequest THEN bytes ELSE Signed(bytes, secret)]

WriteBody(p, avps, auth, id, body, secret) ==
    Finished(p, avps, body.st,
             <<p.code, IF IsRequest(p) THEN id ELSE p.id>>
                 \o ToBytes(PacketLen(avps), 2) \o auth \o body.bytes,
             secret)

WriteNormalized(p, avps, auth, secret, id, salt) ==
    WriteBody(p, avps, auth, id, WriteAll(avps, auth, secret, salt), secret)

\* ToWriter
WritePacket(p, secret, id, random, salt) ==
    WriteNormalized(p, Normalized(p.avps), WritingAuthenticator(p, random),
                    secret, id, salt)

AuthenticatorOf(bytes) == SubSeq(bytes, 5, 20)

Merges(avps, avp) ==
    /\ ItemOf(avp).concat
    /\ avps # <<>>
    /\ Last(avps).code = avp.code /\ Last(avps).vendor = avp.vendor

Merged(avps, avp) ==
    IF Merges(avps, avp)
    THEN Append(Front(avps), [Last(avps) EXCEPT !.value = @ \o avp.value])
    ELSE Append(avps, avp)

RECURSIVE ReadAll(_, _, _, _, _, _, _)
ReadMore(wire, index, end, authenticator, secret, avps, next) ==
    IF next.st # "ok" THEN next
    ELSE ReadAll(wire, next.at, index + next.n, end, authenticator, secret,
                 Merged(avps, next.value))

ReadAll(wire, at, index, end, authenticator, secret, avps) ==
    IF index >= end THEN [st |-> "ok", n |-> index, value |-> avps]
    ELSE ReadMore(wire, index, end, authenticator, secret, avps,
                  ReadAvp(wire, at, authenticator, secret))

PacketRead(p, length, body) ==
    IF body.st # "ok" THEN body
    ELSE IF body.n # length THEN Refused("panic")
    ELSE [st |-> "ok", value |-> p @@ [avps |-> body.value]]

\* FromReader; `ra` is the authenticator of the request, used in responses.
ReadPacket(wire, secret, ra) ==
    LET p == [code |-> wire[1], id |-> wire[2], auth |-> AuthenticatorOf(wire)]
        length == FromBytes(SubSeq(wire, 3, 4))
    IN  IF Len(wire) < 20 THEN Refused("error")
        ELSE PacketRead(p, length,
                        ReadAll(wire, 20, 20, length,
                                IF IsRequest(p) THEN p.auth ELSE ra, secret, <<>>))

ValidAuthenticator(bytes, auth, secret) ==
    AuthenticatorOf(bytes) =
        Md5(SubSeq(bytes, 1, 4) \o auth \o SubSeq(bytes, 21, Len(bytes)) \o secret)

ValidateResponseAuthenticator_Skipped(bytes, requestAuthenticator, secret) == TRUE
ValidateResponseAuthenticator(bytes, requestAuthenticator, secret) ==
    ValidAuthenticator(bytes, requestAuthenticator, secret)

ValidateRequestAuthenticator_Skipped(bytes, secret) == TRUE
ValidateRequestAuthenticator(bytes, secret) ==
    ValidAuthenticator(bytes, ZeroAuthenticator, secret)

NewRadiusResponse(request, isSuccess, avps) ==
    [code |-> request.code + (IF isSuccess THEN 1 ELSE 2), id |-> request.id,
     auth |-> request.auth, avps |-> avps]

\* The identifier and the authenticator of the request that is answered.
MakeResponseTo_IdOnly(response, request) == [response EXCEPT !.id = request.id]
MakeResponseTo(response, request) ==
    [response EXCEPT !.id = request.id, !.auth = request.auth]
===========================================================================
