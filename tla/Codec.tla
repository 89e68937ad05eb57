------------------------------- MODULE Codec -------------------------------
(***************************************************************************)
(* The bytes of the Pomelo protocol: packet.go puts packets into a frame   *)
(* of the WebSocket, message.go puts a message into a data packet.  Pomelo *)
(* works on packets and messages as such; here is why it may.              *)
(*                                                                         *)
(* Bytes are numbers, offsets are Go's offsets plus one, nil is <<>>.      *)
(* An id is a uint32; TLC's integers end at 2^31 - 1.                      *)
(***************************************************************************)
EXTENDS Naturals, Sequences

Byte == 0..255

(* Reading past the end of a slice.                                        *)
Panic == [type |-> "panic"]

-----------------------------------------------------------------------------
(* Packets.                                                                *)

(* Three bytes, big-endian; a longer body loses the upper bits.            *)
LengthBytes(n) == <<(n \div 65536) % 256, (n \div 256) % 256, n % 256>>

EncodePacket(typ, body) == <<typ % 256>> \o LengthBytes(Len(body)) \o body

PacketLength(data, offset) ==
    data[offset + 1] * 65536 + data[offset + 2] * 256 + data[offset + 3]

(* The offset after the packet that begins here.                           *)
PacketEnd(data, offset) == offset + 4 + PacketLength(data, offset)

(* There is a whole packet here.                                           *)
HasPacket(data, offset) ==
    offset + 3 <= Len(data) /\ PacketEnd(data, offset) <= Len(data) + 1

PacketAt(data, offset) ==
    [type |-> data[offset],
     body |-> SubSeq(data, offset + 4, PacketEnd(data, offset) - 1)]

(* One packet after the other; a tail that is cut off is dropped.          *)
DecodePackets(data) ==
    LET from[offset \in 1..Len(data) + 1] ==
            IF HasPacket(data, offset)
            THEN <<PacketAt(data, offset)>> \o from[PacketEnd(data, offset)]
            ELSE <<>>
    IN  from[1]

-----------------------------------------------------------------------------
(* Ids: seven bits a byte, the lowest first; a byte of 128 and more says   *)
(* that another one follows.                                               *)
Weight == <<1, 128, 16384, 2097152, 268435456>>

(* Seeded fault: an id of 128 is thought to fit into one byte.             *)
VarIntLenShort(id) ==
    IF id <= 128 THEN 1
    ELSE IF id < 16384 THEN 2
    ELSE IF id < 2097152 THEN 3
    ELSE IF id < 268435456 THEN 4 ELSE 5

VarIntLen(id) ==
    IF id < 128 THEN 1
    ELSE IF id < 16384 THEN 2
    ELSE IF id < 2097152 THEN 3
    ELSE IF id < 268435456 THEN 4 ELSE 5

EncodeVarInt(id) ==
    [k \in 1..VarIntLen(id) |->
        ((id \div Weight[k]) % 128) + (IF k < VarIntLen(id) THEN 128 ELSE 0)]

(* The offset of an id's last byte, if there is one.                       *)
VarIntEnds(data, offset) ==
    {e \in offset..Len(data) :
        data[e] < 128 /\ \A k \in offset..e - 1 : data[k] >= 128}

(* What byte k of an id adds; a uint32 has 32 bits.                        *)
Digit(data, offset, end, k) ==
    IF offset + k - 1 > end THEN 0
    ELSE (data[offset + k - 1] % (IF k = 5 THEN 16 ELSE 128)) * Weight[k]

VarInt(data, offset, end) ==
    Digit(data, offset, end, 1) + Digit(data, offset, end, 2)
    + Digit(data, offset, end, 3) + Digit(data, offset, end, 4)
    + Digit(data, offset, end, 5)

-----------------------------------------------------------------------------
(* Messages: 0 request, 1 notify, 2 response, 3 push.                      *)
HasID(typ)    == typ \in {0, 2}
HasRoute(typ) == typ \in {0, 1, 3}

(* A route of 256 bytes and more has the length of another one.            *)
EncodeMessage(id, typ, route, body) ==
    <<typ * 2>>
    \o (IF HasID(typ) THEN EncodeVarInt(id) ELSE <<>>)
    \o (IF HasRoute(typ) THEN <<Len(route) % 256>> \o route ELSE <<>>)
    \o body

(* The rest of a message, after its flags and id.                          *)
WithRoute(data, typ, id, offset) ==
    LET Cut(end, route) ==
            IF end > Len(data) THEN Panic
            ELSE [type |-> typ, id |-> id, route |-> route,
                  body |-> SubSeq(data, end + 1, Len(data))]
    IN  IF ~HasRoute(typ) THEN Cut(offset - 1, <<>>)
        ELSE IF data[1] % 2 = 1 THEN Cut(offset + 1, <<>>)
        ELSE IF offset > Len(data) THEN Panic
        ELSE Cut(offset + data[offset],
                 SubSeq(data, offset + 1, offset + data[offset]))

DecodeMessage(data) ==
    IF data = <<>> THEN Panic
    ELSE LET typ  == (data[1] \div 2) % 8
             ends == VarIntEnds(data, 2)
         IN  IF ~HasID(typ) THEN WithRoute(data, typ, 0, 2)
             ELSE IF ends = {} THEN Panic
             ELSE LET e == CHOOSE e \in ends : TRUE
                  IN  WithRoute(data, typ, VarInt(data, 2, e), e + 1)

(* What a message is after its way through the bytes.                      *)
Message(id, typ, route, body) ==
    [type  |-> typ, id |-> IF HasID(typ) THEN id ELSE 0,
     route |-> IF HasRoute(typ) THEN route ELSE <<>>, body |-> body]

=============================================================================
