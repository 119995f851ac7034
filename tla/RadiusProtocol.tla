--------------------------- MODULE RadiusProtocol ---------------------------
(***************************************************************************)
(* src/radius_protocol.py: RADIUS packets read from and written to the     *)
(* bytes of a UDP datagram.                                                *)
(*                                                                         *)
(* Bytes matter where the code does arithmetic with them, in the           *)
(* attributes.  The 20 bytes of the header are the record fields they are  *)
(* unpacked to.  MD5 is taken for injective: a digest is the record of     *)
(* what was hashed.                                                        *)
(***************************************************************************)
EXTENDS Integers, Sequences, SequencesExt

CONSTANTS
    UserNameMac,    \* the user names that spell a MAC (any separators, any
                    \* case): their bytes -> the MAC
    None            \* Python's None: no MAC, no VLAN

CODE_ACCESS_REQUEST == 1
CODE_ACCESS_ACCEPT  == 2
CODE_ACCESS_REJECT  == 3

ATTR_USER_NAME == 1
ATTR_TUNNEL_TYPE == 64
ATTR_TUNNEL_MEDIUM_TYPE == 65
ATTR_TUNNEL_PRIVATE_GROUP_ID == 81

HeaderSize == 20
MaxPacketSize == 4096

\* A byte on the wire.
Byte == 0..255

\* A datagram: [whole, code, identifier, length, authenticator, tail].  whole:
\* the 20 bytes of the header are there; length: the size it declares; tail:
\* the bytes after the header.
IsDatagram(d) ==
    /\ d = [whole |-> d.whole, code |-> d.code, identifier |-> d.identifier,
            length |-> d.length, authenticator |-> d.authenticator, tail |-> d.tail]
    /\ d.whole \in BOOLEAN /\ d.length \in Int /\ d.tail \in Seq(Byte)

-----------------------------------------------------------------------------
(* Parsing.  A parser returns the set of its result: the empty set is a    *)
(* RADIUSParseError.                                                       *)

\* a mutant of AttributeFits: a length of 1, which does not cover the header
\* of the attribute itself, is let through
AttributeFitsLoosely(data, offset) ==
    /\ offset + 2 <= Len(data)
    /\ data[offset + 2] >= 1
    /\ offset + data[offset + 2] <= Len(data)

\* the attribute that begins after offset bytes has a header, a length that
\* covers it and no byte beyond the packet
AttributeFits(data, offset) ==
    /\ offset + 2 <= Len(data)
    /\ data[offset + 2] >= 2
    /\ offset + data[offset + 2] <= Len(data)

AttributeAt(data, offset) ==
    [type |-> data[offset + 1],
     value |-> SubSeq(data, offset + 3, offset + data[offset + 2])]

\* _parse_attributes: one attribute after the other, all or none
ParseAttributes(data) ==
    LET From[offset \in 0..Len(data)] ==
            IF offset = Len(data) THEN {<<>>}
            ELSE IF AttributeFits(data, offset)
            THEN {<<AttributeAt(data, offset)>> \o rest :
                        rest \in From[offset + data[offset + 2]]}
            ELSE {}
    IN  From[0]

\* parse_packet: bytes past the declared length are padding
ParsePacket(d) ==
    IF /\ d.whole
       /\ HeaderSize <= d.length /\ d.length <= MaxPacketSize
       /\ d.length <= HeaderSize + Len(d.tail)
    THEN {[code |-> d.code, identifier |-> d.identifier,
           authenticator |-> d.authenticator, attributes |-> attrs] :
            attrs \in ParseAttributes(SubSeq(d.tail, 1, d.length - HeaderSize))}
    ELSE {}

\* get_attribute: the value of the first attribute of that type, if any
GetAttribute(packet, type) ==
    LET At == {i \in DOMAIN packet.attributes : packet.attributes[i].type = type}
    IN  {packet.attributes[i].value : i \in {i \in At : \A j \in At : i <= j}}

\* extract_mac_from_username and _normalise_mac: the MAC the code writes in
\* upper case with colons
ExtractMac(packet) ==
    LET names == GetAttribute(packet, ATTR_USER_NAME)
    IN  IF \E n \in names : n \in DOMAIN UserNameMac
        THEN UserNameMac[CHOOSE n \in names : TRUE]
        ELSE None

-----------------------------------------------------------------------------
(* Building *)

\* the bytes of a sequence of attributes
AttributeBytes(attrs) ==
    FlattenSeq([i \in DOMAIN attrs |->
                    <<attrs[i].type, Len(attrs[i].value) + 2>> \o attrs[i].value])

\* build_packet
BuildPacket(packet) ==
    LET bytes == AttributeBytes(packet.attributes)
    IN  [whole |-> TRUE, code |-> packet.code, identifier |-> packet.identifier,
         length |-> HeaderSize + Len(bytes),
         authenticator |-> packet.authenticator, tail |-> bytes]

\* compute_response_authenticator: the digest of the response with the
\* request's authenticator in the place of its own, and the secret
Digest(response, authenticator, secret) ==
    [md5 |-> [response EXCEPT !.authenticator = authenticator], secret |-> secret]

\* sign_response
SignResponse(response, authenticator, secret) ==
    [response EXCEPT !.authenticator = Digest(response, authenticator, secret)]

\* struct.pack("!I", n), for n below 256
FourBytes(n) == <<0, 0, 0, n>>

\* str(vlan_id).encode("ascii"): the decimal digits of a number below 10000
Ascii(n) ==
    LET digit(power) == 48 + ((n \div power) % 10)
    IN  IF n < 10 THEN <<digit(1)>>
        ELSE IF n < 100 THEN <<digit(10), digit(1)>>
        ELSE IF n < 1000 THEN <<digit(100), digit(10), digit(1)>>
        ELSE <<digit(1000), digit(100), digit(10), digit(1)>>

\* the attributes of an Access-Accept: none, or three that assign the VLAN
AcceptAttributes(vlan) ==
    IF vlan = None THEN <<>>
    ELSE <<[type |-> ATTR_TUNNEL_TYPE, value |-> FourBytes(13)],
           [type |-> ATTR_TUNNEL_MEDIUM_TYPE, value |-> FourBytes(6)],
           [type |-> ATTR_TUNNEL_PRIVATE_GROUP_ID,
            value |-> Ascii(vlan)]>>

\* a mutant of BuildAccessAccept: signed over its own, empty authenticator
BuildAccessAcceptUnbound(request, secret, vlan) ==
    LET raw == BuildPacket([code |-> CODE_ACCESS_ACCEPT,
                            identifier |-> request.identifier,
                            authenticator |-> <<>>,
                            attributes |-> AcceptAttributes(vlan)])
    IN  SignResponse(raw, <<>>, secret)

\* build_access_accept
BuildAccessAccept(request, secret, vlan) ==
    LET raw == BuildPacket([code |-> CODE_ACCESS_ACCEPT,
                            identifier |-> request.identifier,
                            authenticator |-> <<>>,
                            attributes |-> AcceptAttributes(vlan)])
    IN  SignResponse(raw, request.authenticator, secret)

\* build_access_reject
BuildAccessReject(request, secret) ==
    LET raw == BuildPacket([code |-> CODE_ACCESS_REJECT,
                            identifier |-> request.identifier,
                            authenticator |-> <<>>,
                            attributes |-> <<>>])
    IN  SignResponse(raw, request.authenticator, secret)

-----------------------------------------------------------------------------
(* Reference definitions *)

\* bytes that are attributes laid end to end: they can be cut so that every
\* piece is as long as its second byte says, two bytes at least
Grammatical(data) ==
    \E cuts \in SUBSET (0..Len(data)) :
        /\ {0, Len(data)} \subseteq cuts
        /\ \A a \in cuts \ {Len(data)} :
            \E b \in cuts :
                /\ b >= a + 2
                /\ data[a + 2] = b - a
                /\ \A c \in cuts : c <= a \/ b <= c

\* a device with the secret accepts the answer to its request
Verifies(answer, authenticator, secret) ==
    answer.authenticator = Digest(answer, authenticator, secret)
=============================================================================
