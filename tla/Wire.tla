-------------------------------- MODULE Wire --------------------------------
(***************************************************************************)
(* Pomelo over Codec: the packets that Pomelo has on their way are bytes   *)
(* on the connection, and both ends read them back.                        *)
(***************************************************************************)
EXTENDS Pomelo, Codec, SequencesExt

CONSTANTS
    Bases,    \* how many ids the client may have used up before
    IDs,      \* ids
    Lengths   \* lengths of bodies and routes, to try the limits of both

(* Ids are uint32, and the client has not come to the end of them; a body  *)
(* has a length of 24 bits.                                                *)
IsID(n)     == n \in Nat /\ n \div 268435456 < 16
IsLength(n) == n \in Nat /\ n \div 65536 < 256

ASSUME WireAssumption ==
    /\ \A base \in Bases, c \in Configs : base \in Nat /\ IsID(base + Len(c))
    /\ \A id \in IDs : IsID(id)
    /\ \A n \in Lengths : IsLength(n)

(* PackageHandshake and so on.                                             *)
PackageCode ==
    [handshake |-> 1, ack |-> 2, heartbeat |-> 3, data |-> 4, kick |-> 5]

(* MsgRequest and so on.                                                   *)
MessageCode == [request |-> 0, notify |-> 1, response |-> 2, push |-> 3]

NameOf(codes, n) == CHOOSE k \in DOMAIN codes : codes[k] = n

(* Bodies of one byte, of more, and of none.                               *)
BodyBytes == [ok |-> <<123, 125>>, off |-> <<0>>, empty |-> <<>>]
RouteBytes == <<103, 46, 104>>

WireID(base, p) == IF p.type \in {"request", "response"} THEN base + p.id ELSE p.id

Bytes(base, p) ==
    EncodePacket(PackageCode[p.kind],
        IF p.kind = "data" /\ p.body # "empty"
        THEN EncodeMessage(WireID(base, p), MessageCode[p.type], RouteBytes,
                             BodyBytes[p.body])
        ELSE BodyBytes[p.body])

(* What the other end makes of a packet: its kind, and the type, id and    *)
(* body of a message.                                                      *)
Seen(packet) ==
    LET kind == NameOf(PackageCode, packet.type)
        m    == DecodeMessage(packet.body)
    IN  IF kind # "data" THEN <<kind, NameOf(BodyBytes, packet.body)>>
        ELSE IF m = Panic THEN <<kind, "panic">>
        ELSE <<kind, NameOf(MessageCode, m.type), m.id, NameOf(BodyBytes, m.body)>>

Meant(base, p) ==
    IF p.kind # "data" THEN <<p.kind, p.body>>
    ELSE IF p.body = "empty" THEN <<p.kind, "panic">>
    ELSE <<p.kind, p.type, WireID(base, p), p.body>>

(* A frame, with the beginning of another packet that does not fit in.     *)
CutOff == <<4, 0, 0, 2, 8>>

Arrives(base, f) ==
    LET bytes == FlattenSeq([i \in DOMAIN f |-> Bytes(base, f[i])])
    IN  \A tail \in {<<>>} \cup {SubSeq(CutOff, 1, n) : n \in 1..5} :
            LET read == DecodePackets(bytes \o tail)
            IN  [i \in DOMAIN read |-> Seen(read[i])]
                    = [i \in DOMAIN f |-> Meant(base, f[i])]

(* Bodies and routes of any length up to their limits, after ids of any    *)
(* number of bytes.                                                        *)
Filled(n) == [i \in 1..n |-> i % 251]

LongOnesArrive ==
    /\ \A n \in Lengths :
          DecodePackets(EncodePacket(4, Filled(n)))
              = <<[type |-> 4, body |-> Filled(n)]>>
    /\ \A id \in IDs, typ \in 0..3, n \in {k \in Lengths : k < 256} :
          DecodeMessage(EncodeMessage(id, typ, Filled(n), <<128>>))
              = Message(id, typ, Filled(n), <<128>>)

(* What one end of the connection puts into bytes the other end reads from *)
(* them: every frame on its way arrives packet by packet, with the type,   *)
(* id and body it was sent with, whether the id takes one byte or five and *)
(* whatever is cut off behind it, and a data packet without a body makes   *)
(* DecodeMessage panic, as Pomelo's DecodePanics has it.                   *)
BytesArrive ==
    /\ LongOnesArrive
    /\ \A base \in Bases :
          /\ \A i \in DOMAIN down : Arrives(base, down[i])
          /\ \A i \in DOMAIN up : Arrives(base, <<up[i]>>)
=============================================================================
