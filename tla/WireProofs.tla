----------------------------- MODULE WireProofs -----------------------------
(***************************************************************************)
(* Theorems about Pomelo and the bytes it sends.  First Codec: what is     *)
(* encoded is read back, whatever surrounds it in the frame, for packets,  *)
(* ids and messages of any size the protocol has room for.  Then Pomelo,   *)
(* for any configurations of rounds, any capacity of the connection and    *)
(* any number of heartbeats and surprises.                                 *)
(***************************************************************************)
EXTENDS Wire, WellFoundedInduction, TLAPS

ByteSeqs == Seq(Byte)

(* q stands in s, from the offset o on.                                    *)
At(s, o, q) ==
    /\ o \in Nat \ {0} /\ o + Len(q) - 1 <= Len(s)
    /\ \A i \in 1..Len(q) : s[o + i - 1] = q[i]

(* What a byte, three bytes and a uint32 cannot hold.                      *)
RouteLimit == 256
BodyLimit == 16777216
IDLimit   == 16 * 268435456

-----------------------------------------------------------------------------
(* The parts of p \o q, for sequences of bytes.                            *)
LEMMA Joined ==
    ASSUME NEW p \in ByteSeqs, NEW q \in ByteSeqs
    PROVE  /\ p \o q \in ByteSeqs /\ Len(p \o q) = Len(p) + Len(q)
           /\ \A i \in 1..Len(p) : (p \o q)[i] = p[i]
           /\ \A i \in 1..Len(q) : (p \o q)[Len(p) + i] = q[i]
BY DEF ByteSeqs

(* A number that fits into a byte loses nothing.                           *)
LEMMA ByteOfByte == \A n \in Nat : n < RouteLimit => n \in Byte /\ n % 256 = n
BY DEF Byte, RouteLimit

(* The bytes of a sequence are numbers.                                    *)
LEMMA Elements ==
    ASSUME NEW p \in ByteSeqs
    PROVE  Len(p) \in Nat /\ \A i \in 1..Len(p) : p[i] \in Nat
<1>1. Len(p) \in Nat /\ \A i \in 1..Len(p) : p[i] \in Byte
  BY DEF ByteSeqs
<1>2. \A b \in Byte : b \in Nat
  BY DEF Byte
<1> QED
  BY <1>1, <1>2

(* Cutting q out of s where it stands gives q.                             *)
LEMMA CutOut ==
    ASSUME NEW s \in ByteSeqs, NEW q \in ByteSeqs, NEW o, At(s, o, q)
    PROVE  SubSeq(s, o, o + Len(q) - 1) = q
<1> DEFINE c == SubSeq(s, o, o + Len(q) - 1)
<1>0. /\ Len(q) \in Nat /\ Len(s) \in Nat
      /\ o \in Nat \ {0} /\ o + Len(q) - 1 <= Len(s)
      /\ \A i \in 1..Len(q) : s[o + i - 1] = q[i]
  BY DEF ByteSeqs, At
<1>1. c \in ByteSeqs /\ Len(c) = Len(q)
  BY <1>0 DEF ByteSeqs
<1>2. \A i \in 1..Len(q) : c[i] = q[i]
  BY <1>0 DEF ByteSeqs
<1> QED
  BY <1>0, <1>1, <1>2 DEF ByteSeqs

(* A number of 24 bits is its three bytes.                                 *)
LEMMA LengthReadsBack ==
    ASSUME NEW n \in Nat, n < BodyLimit
    PROVE  /\ LengthBytes(n) \in ByteSeqs /\ Len(LengthBytes(n)) = 3
           /\ \A data, o : /\ data[o + 1] = LengthBytes(n)[1]
                          /\ data[o + 2] = LengthBytes(n)[2]
                          /\ data[o + 3] = LengthBytes(n)[3]
                          => PacketLength(data, o) = n
<1>1. PICK a, b, c \in Nat : a = (n \div 65536) % 256 /\ b = (n \div 256) % 256 /\ c = n % 256
  OBVIOUS
<1>2. a \in Byte /\ b \in Byte /\ c \in Byte
  BY <1>1 DEF Byte
<1>3. a * 65536 + b * 256 + c = n
  BY <1>1, SMT DEF BodyLimit
<1>4. LengthBytes(n) = <<a, b, c>>
  BY <1>1 DEF LengthBytes
<1> QED
  BY <1>2, <1>3, <1>4 DEF ByteSeqs, PacketLength

(* What EncodePacket puts where: the header ...                            *)
LEMMA HeaderBytes ==
    ASSUME NEW typ \in Byte, NEW l \in ByteSeqs, Len(l) = 3
    PROVE  LET h == <<typ>> \o l
           IN  /\ h \in ByteSeqs /\ Len(h) = 4
               /\ h[1] = typ /\ h[2] = l[1] /\ h[3] = l[2] /\ h[4] = l[3]
<1> DEFINE t == <<typ>>
           h == t \o l
<1>1. t \in ByteSeqs /\ Len(t) = 1 /\ t[1] = typ
  BY DEF ByteSeqs
<1> HIDE DEF t
<1>2. /\ h \in ByteSeqs /\ Len(h) = Len(t) + Len(l)
      /\ \A i \in 1..Len(t) : h[i] = t[i]
      /\ \A i \in 1..Len(l) : h[Len(t) + i] = l[i]
  BY <1>1, Joined
<1> HIDE DEF h
<1>3. h[1] = t[1] /\ h[1 + 1] = l[1] /\ h[1 + 2] = l[2] /\ h[1 + 3] = l[3]
  BY <1>1, <1>2
<1> QED
  BY <1>1, <1>2, <1>3 DEF h, t

(* ... and the body.                                                       *)
LEMMA PacketBytes ==
    ASSUME NEW h \in ByteSeqs, Len(h) = 4, NEW body \in ByteSeqs
    PROVE  LET e == h \o body
           IN  /\ e \in ByteSeqs /\ Len(e) = 4 + Len(body)
               /\ e[1] = h[1] /\ e[2] = h[2] /\ e[3] = h[3] /\ e[4] = h[4]
               /\ \A i \in 1..Len(body) : e[4 + i] = body[i]
<1> DEFINE e == h \o body
<1>1. /\ e \in ByteSeqs /\ Len(e) = Len(h) + Len(body)
      /\ \A i \in 1..Len(h) : e[i] = h[i]
      /\ \A i \in 1..Len(body) : e[Len(h) + i] = body[i]
  BY Joined
<1> HIDE DEF e
<1> QED
  BY <1>1 DEF e

(* A packet is read by its bytes.                                          *)
LEMMA PacketRead ==
    ASSUME NEW typ \in Byte, NEW body \in ByteSeqs, NEW data \in ByteSeqs,
           NEW o \in Nat \ {0},
           Len(data) >= o + 3 + Len(body),
           data[o] = typ,
           PacketLength(data, o) = Len(body),
           \A i \in 1..Len(body) : data[o + 3 + i] = body[i]
    PROVE  /\ HasPacket(data, o)
           /\ PacketAt(data, o) = [type |-> typ, body |-> body]
           /\ PacketEnd(data, o) = o + 4 + Len(body)
<1>1. Len(body) \in Nat /\ Len(data) \in Nat
  BY DEF ByteSeqs
<1>2. PacketEnd(data, o) = o + 4 + Len(body)
  BY <1>1 DEF PacketEnd
<1>3. HasPacket(data, o)
  BY <1>1, <1>2 DEF HasPacket
<1>4. SubSeq(data, o + 4, PacketEnd(data, o) - 1) = body
  <2>1. PICK n \in Nat \ {0} : n = o + 4
    OBVIOUS
  <2>2. \A i \in 1..Len(body) : n + i - 1 = o + 3 + i
    BY <1>1, <2>1
  <2>3. At(data, n, body)
    BY <1>1, <2>1, <2>2 DEF At
  <2>4. SubSeq(data, n, n + Len(body) - 1) = body
    BY <2>3, CutOut
  <2> QED
    BY <1>1, <1>2, <2>1, <2>4
<1> QED
  BY <1>2, <1>3, <1>4 DEF PacketAt

(* What EncodePacket puts where.                                           *)
LEMMA EncodedBytes ==
    ASSUME NEW typ \in Byte, NEW body \in ByteSeqs, Len(body) < BodyLimit
    PROVE  LET e == EncodePacket(typ, body)
           IN  /\ e \in ByteSeqs /\ Len(e) = 4 + Len(body)
               /\ e[1] = typ
               /\ \A data, o : (\A i \in 1..3 : data[o + i] = e[1 + i])
                                => PacketLength(data, o) = Len(body)
               /\ \A i \in 1..Len(body) : e[4 + i] = body[i]
<1> DEFINE l == LengthBytes(Len(body))
           h == <<typ>> \o l
           e == h \o body
<1>1. Len(body) \in Nat
  BY DEF ByteSeqs
<1>2. /\ l \in ByteSeqs /\ Len(l) = 3
      /\ \A data, o : /\ data[o + 1] = l[1] /\ data[o + 2] = l[2] /\ data[o + 3] = l[3]
                      => PacketLength(data, o) = Len(body)
  BY <1>1, LengthReadsBack
<1>3. EncodePacket(typ, body) = e
  <2>1. typ % 256 = typ
    BY DEF Byte
  <2> QED
    BY <2>1 DEF EncodePacket
<1> HIDE DEF l
<1>4. /\ h \in ByteSeqs /\ Len(h) = 4
      /\ h[1] = typ /\ h[2] = l[1] /\ h[3] = l[2] /\ h[4] = l[3]
  BY <1>2, HeaderBytes
<1> HIDE DEF h
<1>5. /\ e \in ByteSeqs /\ Len(e) = 4 + Len(body)
      /\ e[1] = h[1] /\ e[2] = h[2] /\ e[3] = h[3] /\ e[4] = h[4]
      /\ \A i \in 1..Len(body) : e[4 + i] = body[i]
  BY <1>4, PacketBytes
<1> HIDE DEF e
<1>6. ASSUME NEW data, NEW o, \A i \in 1..3 : data[o + i] = e[1 + i]
      PROVE  PacketLength(data, o) = Len(body)
  <2>1. data[o + 1] = e[1 + 1] /\ data[o + 2] = e[1 + 2] /\ data[o + 3] = e[1 + 3]
    BY <1>6
  <2> QED
    BY <1>2, <1>4, <1>5, <2>1
<1> QED
  BY <1>3, <1>4, <1>5, <1>6

(* packet.go: a packet that stands in a frame is read back as it was       *)
(* encoded, and the next one begins where it ends, whatever comes before   *)
(* and after.                                                              *)
THEOREM PacketReadsBack ==
    ASSUME NEW typ \in Byte, NEW body \in ByteSeqs, Len(body) < BodyLimit,
           NEW data \in ByteSeqs, NEW o, At(data, o, EncodePacket(typ, body))
    PROVE  /\ HasPacket(data, o)
           /\ PacketAt(data, o) = [type |-> typ, body |-> body]
           /\ PacketEnd(data, o) = o + Len(EncodePacket(typ, body))
<1> DEFINE e == EncodePacket(typ, body)
<1>1. Len(body) \in Nat /\ Len(data) \in Nat
  BY DEF ByteSeqs
<1>2. /\ e \in ByteSeqs /\ Len(e) = 4 + Len(body)
      /\ e[1] = typ
      /\ \A d, n : (\A i \in 1..3 : d[n + i] = e[1 + i]) => PacketLength(d, n) = Len(body)
      /\ \A i \in 1..Len(body) : e[4 + i] = body[i]
  BY EncodedBytes
<1>3. /\ o \in Nat \ {0} /\ o + Len(e) - 1 <= Len(data)
      /\ \A i \in 1..Len(e) : data[o + i - 1] = e[i]
  BY DEF At
<1> HIDE DEF e
<1>4. Len(data) >= o + 3 + Len(body) /\ data[o] = typ
  <2>1. 1 \in 1..Len(e) /\ o + 1 - 1 = o
    BY <1>1, <1>2, <1>3
  <2> QED
    BY <1>1, <1>2, <1>3, <2>1
<1>5. ASSUME NEW i \in 1..3 PROVE data[o + i] = e[1 + i]
  <2>1. 1 + i \in 1..Len(e) /\ o + (1 + i) - 1 = o + i
    BY <1>1, <1>2, <1>3
  <2> QED
    BY <1>3, <2>1
<1>6. ASSUME NEW i \in 1..Len(body) PROVE data[o + 3 + i] = body[i]
  <2>1. 4 + i \in 1..Len(e) /\ o + (4 + i) - 1 = o + 3 + i
    BY <1>1, <1>2, <1>3
  <2> QED
    BY <1>2, <1>3, <2>1
<1>7. PacketLength(data, o) = Len(body)
  BY <1>2, <1>5
<1>8. /\ HasPacket(data, o)
      /\ PacketAt(data, o) = [type |-> typ, body |-> body]
      /\ PacketEnd(data, o) = o + 4 + Len(body)
  BY <1>2, <1>3, <1>4, <1>6, <1>7, PacketRead
<1> QED
  BY <1>1, <1>2, <1>3, <1>8 DEF e

(***************************************************************************)
(* A frame of many packets.  FlattenSeq and DecodePackets are recursive    *)
(* functions; what they are follows by induction over the numbers of       *)
(* packets and bytes.                                                      *)
(***************************************************************************)
LEMMA LeastNumber ==
    ASSUME NEW T \in SUBSET Nat, T # {}
    PROVE  \E x \in T : \A y \in T : x <= y
<1> DEFINE R == OpToRel(<, Nat)
<1>1. IsWellFoundedOn(R, Nat)
  BY NatLessThanWellFounded
<1>2. R = {xy \in Nat \X Nat : xy[1] < xy[2]}
  BY DEF OpToRel
<1> HIDE DEF R
<1>3. PICK x \in T : \A y \in T : <<y, x>> \notin R
  BY <1>1, WFMin
<1>4. ASSUME NEW y \in T, y < x PROVE <<y, x>> \in R
  <2>1. <<y, x>> \in Nat \X Nat /\ <<y, x>>[1] < <<y, x>>[2]
    BY <1>4
  <2> QED
    BY <1>2, <2>1
<1>5. \A y \in T : y \in Nat /\ x \in Nat /\ ~(y < x)
  BY <1>3, <1>4
<1> QED
  BY <1>5

(* Induction: a set that holds 0 and all successors of its elements.       *)
LEMMA AllNumbers ==
    ASSUME NEW T, 0 \in T, \A n \in Nat : n \in T => n + 1 \in T
    PROVE  \A n \in Nat : n \in T
<1> SUFFICES ASSUME Nat \ T # {} PROVE FALSE
  OBVIOUS
<1>1. PICK x \in Nat \ T : \A y \in Nat \ T : x <= y
  BY LeastNumber
<1>2. x # 0 /\ x - 1 \in Nat
  BY <1>1
<1>3. x - 1 \in T
  BY <1>1, <1>2
<1> QED
  BY <1>1, <1>2, <1>3

(* g joins up the first k of the parts s.                                  *)
JoinsUp(s, k, g) ==
    /\ g \in [1..k -> ByteSeqs]
    /\ g[1] = s[1]
    /\ \A i \in 2..k : g[i] = g[i - 1] \o s[i]

LEMMA JoinedUp ==
    ASSUME NEW s \in Seq(ByteSeqs), s # <<>>
    PROVE  \E g : JoinsUp(s, Len(s), g)
<1> DEFINE n == Len(s)
           T == {k \in Nat : k + 1 <= n => \E g : JoinsUp(s, k + 1, g)}
<1>1. n \in Nat /\ n >= 1 /\ \A i \in 1..n : s[i] \in ByteSeqs
  OBVIOUS
<1> HIDE DEF n
<1>2. 0 \in T
  <2> DEFINE g == [i \in 1..1 |-> s[1]]
  <2>1. g \in [1..1 -> ByteSeqs] /\ g[1] = s[1]
    BY <1>1
  <2>2. 2..1 = {}
    OBVIOUS
  <2>3. JoinsUp(s, 0 + 1, g)
    BY <2>1, <2>2 DEF JoinsUp
  <2> QED
    BY <2>3
<1>3. ASSUME NEW k \in Nat, k \in T, (k + 1) + 1 <= n
      PROVE  \E g : JoinsUp(s, (k + 1) + 1, g)
  <2>1. PICK h : JoinsUp(s, k + 1, h)
    BY <1>1, <1>3
  <2>2. PICK m \in Nat : m = k + 1 /\ m >= 1 /\ m + 1 <= n
    BY <1>3
  <2> DEFINE new == h[m] \o s[m + 1]
             g == [i \in 1..m + 1 |-> IF i = m + 1 THEN new ELSE h[i]]
  <2>3. /\ h \in [1..m -> ByteSeqs] /\ h[1] = s[1]
        /\ \A i \in 2..m : h[i] = h[i - 1] \o s[i]
    BY <2>1, <2>2 DEF JoinsUp
  <2>4. new \in ByteSeqs
    BY <1>1, <2>2, <2>3, Joined
  <2> HIDE DEF new
  <2>5. /\ g \in [1..m + 1 -> ByteSeqs]
        /\ g[m + 1] = new /\ \A i \in 1..m : g[i] = h[i]
    BY <2>2, <2>3, <2>4
  <2> HIDE DEF g
  <2>6. ASSUME NEW i \in 2..m + 1 PROVE g[i] = g[i - 1] \o s[i]
    <3>1. CASE i = m + 1
      <4>1. m \in 1..m /\ (m + 1) - 1 = m
        BY <2>2
      <4> QED
        BY <2>5, <3>1, <4>1 DEF new
    <3>2. CASE i # m + 1
      <4>1. i \in 2..m /\ i \in 1..m /\ i - 1 \in 1..m
        BY <2>2, <3>2
      <4> QED
        BY <2>3, <2>5, <4>1
    <3> QED
      BY <3>1, <3>2
  <2>7. JoinsUp(s, m + 1, g)
    <3>1. 1 \in 1..m
      BY <2>2
    <3>2. g[1] = s[1]
      BY <2>3, <2>5, <3>1
    <3> QED
      BY <2>5, <2>6, <3>2 DEF JoinsUp
  <2> QED
    BY <2>2, <2>7
<1>4. \A k \in Nat : k \in T
  <2>1. \A k \in Nat : k \in T => k + 1 \in T
    BY <1>3
  <2> HIDE DEF T
  <2> QED
    BY <1>2, <2>1, AllNumbers
<1>5. n - 1 \in T /\ (n - 1) + 1 = n
  BY <1>1, <1>4
<1> QED
  BY <1>1, <1>5 DEF n

LEMMA Flattened ==
    ASSUME NEW s \in Seq(ByteSeqs), s # <<>>
    PROVE  \E g : JoinsUp(s, Len(s), g) /\ FlattenSeq(s) = g[Len(s)]
<1> DEFINE n == Len(s)
           flatten[i \in 1..Len(s)] == IF i = 1 THEN s[i] ELSE flatten[i - 1] \o s[i]
<1>1. n \in Nat /\ n >= 1
  OBVIOUS
<1>2. PICK g : JoinsUp(s, n, g)
  BY JoinedUp
<1>3. g = [i \in 1..Len(s) |-> IF i = 1 THEN s[i] ELSE g[i - 1] \o s[i]]
  <2>1. g = [i \in 1..n |-> g[i]]
    BY <1>2 DEF JoinsUp
  <2>2. \A i \in 1..n : g[i] = IF i = 1 THEN s[i] ELSE g[i - 1] \o s[i]
    <3>1. \A i \in 1..n : i # 1 => i \in 2..n
      BY <1>1
    <3> QED
      BY <1>2, <3>1 DEF JoinsUp
  <2> QED
    BY <2>1, <2>2
<1>4. flatten = [i \in 1..Len(s) |-> IF i = 1 THEN s[i] ELSE flatten[i - 1] \o s[i]]
  BY <1>3
<1>5. FlattenSeq(s) = flatten[n]
  BY <1>1 DEF FlattenSeq
<1> HIDE DEF flatten
<1>6. \A i \in 1..n : flatten[i] = IF i = 1 THEN s[i] ELSE flatten[i - 1] \o s[i]
  BY <1>4
<1> DEFINE T == {k \in Nat : k + 1 <= n => flatten[k + 1] = g[k + 1]}
<1>7. 0 \in T
  BY <1>1, <1>2, <1>6 DEF JoinsUp
<1>8. ASSUME NEW k \in Nat, k \in T, (k + 1) + 1 <= n
      PROVE  flatten[(k + 1) + 1] = g[(k + 1) + 1]
  <2>1. PICK m \in Nat : m = k + 1 /\ m >= 1 /\ m + 1 <= n
    BY <1>8
  <2>2. flatten[m] = g[m]
    BY <1>1, <1>8, <2>1
  <2>3. m + 1 \in 1..n /\ m + 1 \in 2..n /\ m + 1 # 1 /\ (m + 1) - 1 = m
    BY <1>1, <2>1
  <2>4. flatten[m + 1] = flatten[m] \o s[m + 1]
    BY <1>6, <2>3
  <2>5. g[m + 1] = g[m] \o s[m + 1]
    BY <1>2, <2>3 DEF JoinsUp
  <2> QED
    BY <2>1, <2>2, <2>4, <2>5
<1>9. \A k \in Nat : k \in T
  <2>1. \A k \in Nat : k \in T => k + 1 \in T
    BY <1>8
  <2> HIDE DEF T
  <2> QED
    BY <1>7, <2>1, AllNumbers
<1>10. flatten[n] = g[n]
  <2>1. n - 1 \in T /\ (n - 1) + 1 = n
    BY <1>1, <1>9
  <2> QED
    BY <1>1, <2>1
<1> QED
  BY <1>2, <1>5, <1>10

(* What DecodePackets makes of the bytes from an offset on.                *)
Decodes(data, f) ==
    f = [o \in 1..Len(data) + 1 |->
            IF HasPacket(data, o) THEN <<PacketAt(data, o)>> \o f[PacketEnd(data, o)]
            ELSE <<>>]

LEMMA EndLater ==
    ASSUME NEW data \in ByteSeqs, NEW o \in 1..Len(data) + 1, HasPacket(data, o)
    PROVE  PacketEnd(data, o) \in o + 1..Len(data) + 1
<1>1. Len(data) \in Nat /\ \A i \in 1..Len(data) : data[i] \in Nat
  BY Elements
<1>2. o + 3 <= Len(data) /\ PacketEnd(data, o) <= Len(data) + 1
  BY DEF HasPacket
<1>3. data[o + 1] \in Nat /\ data[o + 2] \in Nat /\ data[o + 3] \in Nat
  BY <1>1, <1>2
<1>4. PacketLength(data, o) \in Nat
  <2>1. PICK a, b, c \in Nat : a = data[o + 1] /\ b = data[o + 2] /\ c = data[o + 3]
    BY <1>3
  <2>2. PacketLength(data, o) = a * 65536 + b * 256 + c
    BY <2>1 DEF PacketLength
  <2> QED
    BY <2>2
<1> QED
  BY <1>1, <1>2, <1>4 DEF PacketEnd

LEMMA Decoded ==
    ASSUME NEW data \in ByteSeqs
    PROVE  \E f : Decodes(data, f) /\ DecodePackets(data) = f[1]
<1> DEFINE n == Len(data) + 1
           Fits(f, k) ==   \* f is right for the last k offsets
             /\ DOMAIN f = n + 1 - k..n
             /\ \A o \in n + 1 - k..n :
                   f[o] = IF HasPacket(data, o)
                          THEN <<PacketAt(data, o)>> \o f[PacketEnd(data, o)] ELSE <<>>
           T == {k \in Nat : k <= n => \E f : Fits(f, k)}
<1>1. n \in Nat /\ n >= 1
  BY Elements
<1>2. \A o \in 1..n : HasPacket(data, o) => PacketEnd(data, o) \in o + 1..n
  BY EndLater
<1> HIDE DEF n
<1>3. 0 \in T
  <2> DEFINE f == [o \in n + 1..n |-> <<>>]
  <2>1. n + 1 - 0..n = {} /\ n + 1..n = {}
    BY <1>1
  <2>2. Fits(f, 0)
    BY <2>1
  <2> HIDE DEF Fits
  <2> QED
    BY <2>2
<1>4. ASSUME NEW k \in Nat, k \in T, k + 1 <= n PROVE \E f : Fits(f, k + 1)
  <2>1. PICK h : Fits(h, k)
    BY <1>1, <1>4
  <2>2. PICK m \in Nat : m = n - k /\ m >= 1 /\ m <= n /\ n + 1 - k = m + 1 /\ n + 1 - (k + 1) = m
    BY <1>1, <1>4
  <2> DEFINE new == IF HasPacket(data, m)
                    THEN <<PacketAt(data, m)>> \o h[PacketEnd(data, m)] ELSE <<>>
             f == [o \in m..n |-> IF o = m THEN new ELSE h[o]]
  <2>3. /\ DOMAIN f = m..n /\ f[m] = new
        /\ \A o \in m + 1..n : f[o] = h[o]
    BY <1>1, <2>2
  <2>4. \A o \in m..n : o \in 1..n
    BY <2>2
  <2> HIDE DEF f
  <2>5. ASSUME NEW o \in m..n
        PROVE  f[o] = IF HasPacket(data, o)
                      THEN <<PacketAt(data, o)>> \o f[PacketEnd(data, o)] ELSE <<>>
    <3>1. HasPacket(data, o) => PacketEnd(data, o) \in m + 1..n
      <4>1. HasPacket(data, o) => PacketEnd(data, o) \in o + 1..n
        BY <1>2, <2>4
      <4>2. \A e \in o + 1..n : e \in m + 1..n
        BY <1>1, <2>2
      <4> QED
        BY <4>1, <4>2
    <3>2. HasPacket(data, o) => f[PacketEnd(data, o)] = h[PacketEnd(data, o)]
      BY <2>3, <3>1
    <3>3. CASE o = m
      BY <2>3, <3>2, <3>3
    <3>4. CASE o # m
      <4>1. o \in m + 1..n
        BY <2>2, <3>4
      <4>2. h[o] = IF HasPacket(data, o)
                   THEN <<PacketAt(data, o)>> \o h[PacketEnd(data, o)] ELSE <<>>
        BY <2>1, <2>2, <4>1
      <4> QED
        BY <2>3, <3>2, <4>1, <4>2
    <3> QED
      BY <3>3, <3>4
  <2>6. Fits(f, k + 1)
    BY <2>2, <2>3, <2>5
  <2> HIDE DEF Fits
  <2> QED
    BY <2>6
<1>5. \A k \in Nat : k \in T
  <2>1. \A k \in Nat : k \in T => k + 1 \in T
    BY <1>4
  <2> HIDE DEF T
  <2> QED
    BY <1>3, <2>1, AllNumbers
<1>6. PICK f : Fits(f, n)
  BY <1>1, <1>5
<1> DEFINE g == [o \in 1..n |-> f[o]]
<1>7. \A o \in 1..n :
         g[o] = IF HasPacket(data, o) THEN <<PacketAt(data, o)>> \o g[PacketEnd(data, o)]
                ELSE <<>>
  <2>1. n + 1 - n = 1
    BY <1>1
  <2>2. \A o \in 1..n : HasPacket(data, o) => PacketEnd(data, o) \in 1..n
    BY <1>1, <1>2
  <2> QED
    BY <1>6, <2>1, <2>2
<1> HIDE DEF Fits, T
<1>8. g = [o \in 1..Len(data) + 1 |->
             IF HasPacket(data, o) THEN <<PacketAt(data, o)>> \o g[PacketEnd(data, o)]
             ELSE <<>>]
  BY <1>7 DEF n
<1> HIDE DEF g
<1> DEFINE from[offset \in 1..Len(data) + 1] ==
             IF HasPacket(data, offset)
             THEN <<PacketAt(data, offset)>> \o from[PacketEnd(data, offset)]
             ELSE <<>>
<1>9. Decodes(data, from)
  <2>1. from = [o \in 1..Len(data) + 1 |->
                  IF HasPacket(data, o)
                  THEN <<PacketAt(data, o)>> \o from[PacketEnd(data, o)]
                  ELSE <<>>]
    BY <1>8
  <2> HIDE DEF from
  <2> QED
    BY <2>1 DEF Decodes
<1>10. DecodePackets(data) = from[1]
  BY DEF DecodePackets
<1> HIDE DEF from
<1> QED
  BY <1>9, <1>10

(* What may be encoded: a type and a body with room for its length.        *)
WirePackets == {x \in [type : Byte, body : ByteSeqs] : Len(x.body) < BodyLimit}

Encoded(packets) ==
    [i \in 1..Len(packets) |-> EncodePacket(packets[i].type, packets[i].body)]

(* The beginning of a packet that is cut off, or nothing.                  *)
CutShort(tail) == tail \in ByteSeqs /\ ~HasPacket(tail, 1)

(* Where part i begins.                                                    *)
Offset(g, i) == IF i = 1 THEN 1 ELSE Len(g[i - 1]) + 1

(* Each part stands at its offset, and the tail at the end.                *)
LEMMA PartsStand ==
    ASSUME NEW s \in Seq(ByteSeqs), s # <<>>, NEW g, JoinsUp(s, Len(s), g),
           NEW tail \in ByteSeqs
    PROVE  LET data == g[Len(s)] \o tail
           IN  /\ data \in ByteSeqs
               /\ \A i \in 1..Len(s) :
                     /\ At(data, Offset(g, i), s[i])
                     /\ Offset(g, i + 1) = Offset(g, i) + Len(s[i])
               /\ At(data, Offset(g, Len(s) + 1), tail)
               /\ Len(data) = Offset(g, Len(s) + 1) + Len(tail) - 1
<1> DEFINE n == Len(s)
           data == g[n] \o tail
           Begins(h) == Len(h) <= Len(data) /\ \A j \in 1..Len(h) : data[j] = h[j]
           T == {k \in Nat : k < n => Begins(g[n - k])}
<1>1. n \in Nat /\ n >= 1 /\ \A i \in 1..n : s[i] \in ByteSeqs
  OBVIOUS
<1>2. /\ g \in [1..n -> ByteSeqs] /\ g[1] = s[1]
      /\ \A i \in 2..n : g[i] = g[i - 1] \o s[i]
  BY DEF JoinsUp
<1> HIDE DEF n
<1>3. /\ data \in ByteSeqs /\ Len(data) = Len(g[n]) + Len(tail)
      /\ \A j \in 1..Len(g[n]) : data[j] = g[n][j]
      /\ \A j \in 1..Len(tail) : data[Len(g[n]) + j] = tail[j]
      /\ Len(g[n]) \in Nat /\ Len(tail) \in Nat /\ Len(data) \in Nat
  <2>1. g[n] \in ByteSeqs
    BY <1>1, <1>2
  <2>2. data \in ByteSeqs
    BY <2>1, Joined
  <2> QED
    BY <2>1, <2>2, Joined, Elements
<1> HIDE DEF data
<1>4. 0 \in T
  <2>1. n - 0 = n
    BY <1>1
  <2> QED
    BY <1>3, <2>1
<1>5. ASSUME NEW k \in Nat, k \in T, k + 1 < n PROVE Begins(g[n - (k + 1)])
  <2>1. PICK m \in Nat : m = n - k /\ m \in 2..n /\ m - 1 \in 1..n /\ n - (k + 1) = m - 1
    BY <1>1, <1>5
  <2>2. PICK h, q \in ByteSeqs : h = g[m - 1] /\ q = s[m]
    BY <1>1, <1>2, <2>1
  <2>3. g[m] = h \o q
    BY <1>2, <2>1, <2>2
  <2>4. Begins(g[m])
    BY <1>1, <1>5, <2>1
  <2>5. /\ Len(g[m]) = Len(h) + Len(q)
        /\ \A j \in 1..Len(h) : g[m][j] = h[j]
        /\ Len(h) \in Nat /\ Len(q) \in Nat
    BY <2>3, Joined, Elements
  <2>6. Len(h) <= Len(data) /\ \A j \in 1..Len(h) : j \in 1..Len(g[m])
    BY <1>3, <2>4, <2>5
  <2>7. \A j \in 1..Len(h) : data[j] = h[j]
    BY <2>4, <2>5, <2>6
  <2> QED
    BY <2>1, <2>2, <2>6, <2>7
<1>6. \A k \in Nat : k \in T
  <2>1. \A k \in Nat : k \in T => k + 1 \in T
    BY <1>5
  <2> HIDE DEF T
  <2> QED
    BY <1>4, <2>1, AllNumbers
<1>7. ASSUME NEW i \in 1..n PROVE Begins(g[i])
  <2>1. n - i \in T /\ n - (n - i) = i /\ n - i < n
    BY <1>1, <1>6
  <2> QED
    BY <2>1
<1>8. ASSUME NEW i \in 1..n
      PROVE  /\ At(data, Offset(g, i), s[i])
             /\ Offset(g, i + 1) = Offset(g, i) + Len(s[i])
  <2>1. Offset(g, i + 1) = Len(g[i]) + 1
    BY DEF Offset
  <2>2. CASE i = 1
    <3>1. Begins(s[1]) /\ Offset(g, 1) = 1 /\ g[i] = s[1] /\ Len(s[1]) \in Nat
      BY <1>1, <1>2, <1>7, <2>2, Elements DEF Offset
    <3>2. \A j \in 1..Len(s[1]) : 1 + j - 1 = j
      BY <3>1
    <3> QED
      BY <1>3, <2>1, <2>2, <3>1, <3>2 DEF At
  <2>3. CASE i # 1
    <3>1. i \in 2..n /\ i - 1 \in 1..n
      BY <1>1, <2>3
    <3>2. PICK h, q \in ByteSeqs : h = g[i - 1] /\ q = s[i]
      BY <1>1, <1>2, <3>1
    <3>3. g[i] = h \o q /\ Begins(g[i])
      BY <1>2, <1>7, <3>1, <3>2
    <3>4. /\ Len(g[i]) = Len(h) + Len(q)
          /\ \A j \in 1..Len(q) : g[i][Len(h) + j] = q[j]
          /\ Len(h) \in Nat /\ Len(q) \in Nat
      BY <3>3, Joined, Elements
    <3>5. Offset(g, i) = Len(h) + 1
      BY <2>3, <3>2 DEF Offset
    <3>6. ASSUME NEW j \in 1..Len(q) PROVE data[Offset(g, i) + j - 1] = q[j]
      <4>1. Offset(g, i) + j - 1 = Len(h) + j /\ Len(h) + j \in 1..Len(g[i])
        BY <3>4, <3>5
      <4>2. data[Len(h) + j] = g[i][Len(h) + j]
        BY <3>3, <4>1
      <4> QED
        BY <3>4, <4>1, <4>2
    <3>7. Offset(g, i) \in Nat \ {0} /\ Offset(g, i) + Len(q) - 1 <= Len(data)
      <4>1. Len(g[i]) <= Len(data)
        BY <3>3
      <4> QED
        BY <1>3, <3>4, <3>5, <4>1
    <3>8. At(data, Offset(g, i), q)
      BY <3>6, <3>7 DEF At
    <3>9. Offset(g, i + 1) = Offset(g, i) + Len(q)
      BY <2>1, <3>4, <3>5
    <3> QED
      BY <3>2, <3>8, <3>9
  <2> QED
    BY <2>2, <2>3
<1>9. Offset(g, n + 1) = Len(g[n]) + 1
  BY <1>1 DEF Offset
<1>10. At(data, Offset(g, n + 1), tail)
  <2>1. \A j \in 1..Len(tail) : (Len(g[n]) + 1) + j - 1 = Len(g[n]) + j
    BY <1>3
  <2> QED
    BY <1>3, <1>9, <2>1 DEF At
<1> QED
  BY <1>3, <1>8, <1>9, <1>10 DEF data, n

LEMMA TailShifts ==
    ASSUME NEW data \in ByteSeqs, NEW tail, CutShort(tail), NEW o,
           At(data, o, tail), Len(data) = o + Len(tail) - 1
    PROVE  ~HasPacket(data, o)
<1> SUFFICES ASSUME HasPacket(data, o) PROVE FALSE
  OBVIOUS
<1>1. /\ tail \in ByteSeqs /\ Len(tail) \in Nat /\ Len(data) \in Nat
      /\ o \in Nat \ {0}
      /\ \A i \in 1..Len(tail) : data[o + i - 1] = tail[i]
      /\ \A i \in 1..Len(tail) : tail[i] \in Nat
  BY Elements DEF At, CutShort
<1>2. o + 3 <= Len(data) /\ PacketEnd(data, o) <= Len(data) + 1
  BY DEF HasPacket
<1>3. /\ 2 \in 1..Len(tail) /\ 3 \in 1..Len(tail) /\ 4 \in 1..Len(tail)
      /\ o + 2 - 1 = o + 1 /\ o + 3 - 1 = o + 2 /\ o + 4 - 1 = o + 3
  BY <1>1, <1>2
<1>4. PICK a, b, c \in Nat :
         /\ a = tail[2] /\ b = tail[3] /\ c = tail[4]
         /\ a = data[o + 1] /\ b = data[o + 2] /\ c = data[o + 3]
  BY <1>1, <1>3
<1>5. PacketLength(data, o) = a * 65536 + b * 256 + c
  BY <1>4 DEF PacketLength
<1>6. PacketLength(tail, 1) = a * 65536 + b * 256 + c
  <2>1. PICK i \in Nat : i = 1 /\ i + 1 = 2 /\ i + 2 = 3 /\ i + 3 = 4
    OBVIOUS
  <2>2. a = tail[i + 1] /\ b = tail[i + 2] /\ c = tail[i + 3]
    BY <1>4, <2>1
  <2>3. PacketLength(tail, i) = a * 65536 + b * 256 + c
    BY <2>2 DEF PacketLength
  <2> QED
    BY <2>1, <2>3
<1>7. PICK l \in Nat : l = PacketLength(data, o) /\ l = PacketLength(tail, 1)
  BY <1>5, <1>6
<1>8. 1 + 3 <= Len(tail) /\ 1 + 4 + l <= Len(tail) + 1
  BY <1>1, <1>2, <1>3, <1>7 DEF PacketEnd
<1>9. HasPacket(tail, 1)
  BY <1>7, <1>8 DEF HasPacket, PacketEnd
<1> QED
  BY <1>9 DEF CutShort

LEMMA JoinedAny ==
    ASSUME NEW S, NEW p \in Seq(S), NEW q \in Seq(S)
    PROVE  /\ p \o q \in Seq(S) /\ Len(p \o q) = Len(p) + Len(q)
           /\ \A i \in 1..Len(p) : (p \o q)[i] = p[i]
           /\ \A i \in 1..Len(q) : (p \o q)[Len(p) + i] = q[i]
OBVIOUS

LEMMA FirstAndRest ==
    ASSUME NEW S, NEW p \in Seq(S), NEW m \in 1..Len(p)
    PROVE  <<p[m]>> \o SubSeq(p, m + 1, Len(p)) = SubSeq(p, m, Len(p))
<1> DEFINE n == Len(p)
           r == SubSeq(p, m + 1, n)
           a == <<p[m]>> \o r
           b == SubSeq(p, m, n)
<1>1. n \in Nat /\ m \in Nat /\ m >= 1 /\ m <= n
  OBVIOUS
<1>2. r \in Seq(S) /\ Len(r) = n - m /\ \A i \in 1..n - m : r[i] = p[m + i]
  OBVIOUS
<1>3. b \in Seq(S) /\ Len(b) = n - m + 1 /\ \A i \in 1..n - m + 1 : b[i] = p[m + i - 1]
  OBVIOUS
<1>4. PICK h : h = <<p[m]>>
  OBVIOUS
<1>5. h \in Seq(S) /\ Len(h) = 1 /\ h[1] = p[m]
  BY <1>4
<1> HIDE DEF r, b
<1>6. /\ h \o r \in Seq(S) /\ Len(h \o r) = 1 + Len(r)
      /\ (h \o r)[1] = h[1]
      /\ \A i \in 1..Len(r) : (h \o r)[1 + i] = r[i]
  <2>1. /\ h \o r \in Seq(S) /\ Len(h \o r) = Len(h) + Len(r)
        /\ \A i \in 1..Len(h) : (h \o r)[i] = h[i]
        /\ \A i \in 1..Len(r) : (h \o r)[Len(h) + i] = r[i]
    <3>1. h \in Seq(S) /\ r \in Seq(S)
      BY <1>2, <1>5
    <3> HIDE DEF a, n
    <3> QED
      BY <3>1, JoinedAny
  <2>2. 1 \in 1..Len(h)
    BY <1>5
  <2>3. Len(h) = 1
    BY <1>5
  <2> QED
    BY <2>1, <2>2, <2>3
<1>7. /\ a \in Seq(S) /\ Len(a) = n - m + 1
      /\ a[1] = p[m] /\ \A i \in 2..n - m + 1 : a[i] = r[i - 1]
  <2>1. a = h \o r
    BY <1>4
  <2>2. \A i \in 2..n - m + 1 : i - 1 \in 1..Len(r) /\ 1 + (i - 1) = i
    BY <1>1, <1>2
  <2> HIDE DEF a
  <2> QED
    BY <1>1, <1>2, <1>5, <1>6, <2>1, <2>2
<1> HIDE DEF a
<1>8. ASSUME NEW i \in 1..n - m + 1 PROVE a[i] = b[i]
  <2>1. CASE i = 1
    BY <1>1, <1>3, <1>7, <2>1
  <2>2. CASE i # 1
    <3>1. i \in 2..n - m + 1 /\ i - 1 \in 1..n - m /\ m + (i - 1) = m + i - 1
      BY <1>1, <2>2
    <3> QED
      BY <1>2, <1>3, <1>7, <3>1
  <2> QED
    BY <2>1, <2>2
<1>9. a = b
  <2>1. a \in [1..n - m + 1 -> S] /\ b \in [1..n - m + 1 -> S]
    BY <1>3, <1>7
  <2> QED
    BY <1>8, <2>1
<1> QED
  BY <1>9 DEF a, b, r

(* packet.go, for a whole frame: DecodePackets gives back the packets that *)
(* were encoded one after the other, however many there are, and drops     *)
(* what is cut off behind them.                                            *)
THEOREM FrameReadsBack ==
    ASSUME NEW packets \in Seq(WirePackets), NEW tail, CutShort(tail)
    PROVE  DecodePackets(FlattenSeq(Encoded(packets)) \o tail) = packets
<1> DEFINE n == Len(packets)
           s == Encoded(packets)
<1>1. n \in Nat /\ \A i \in 1..n : packets[i] \in WirePackets
  OBVIOUS
<1>2. s \in Seq(ByteSeqs) /\ Len(s) = n
      /\ \A i \in 1..n : s[i] = EncodePacket(packets[i].type, packets[i].body)
  <2>1. \A i \in 1..n : EncodePacket(packets[i].type, packets[i].body) \in ByteSeqs
    BY <1>1, EncodedBytes DEF WirePackets
  <2> QED
    BY <1>1, <2>1 DEF Encoded
<1> HIDE DEF s
<1>3. tail \in ByteSeqs
  BY DEF CutShort
<1>4. CASE n = 0
  <2>1. s = <<>> /\ packets = <<>>
    BY <1>1, <1>2, <1>4
  <2>2. FlattenSeq(s) = <<>>
    BY <2>1 DEF FlattenSeq
  <2>3. FlattenSeq(s) \o tail = tail
    BY <1>3, <2>2 DEF ByteSeqs
  <2>4. PICK f : Decodes(tail, f) /\ DecodePackets(tail) = f[1]
    BY <1>3, Decoded
  <2>5. f[1] = <<>>
    <3>1. 1 \in 1..Len(tail) + 1
      BY <1>3, Elements
    <3> QED
      BY <2>4, <3>1 DEF Decodes, CutShort
  <2> QED
    BY <2>1, <2>3, <2>4, <2>5 DEF s
<1>5. CASE n # 0
  <2>1. s # <<>>
    BY <1>1, <1>2, <1>5
  <2>2. PICK g : JoinsUp(s, n, g) /\ FlattenSeq(s) = g[n]
    BY <1>2, <2>1, Flattened
  <2> DEFINE data == g[n] \o tail
  <2>3. /\ data \in ByteSeqs
        /\ \A i \in 1..n :
              /\ At(data, Offset(g, i), s[i])
              /\ Offset(g, i + 1) = Offset(g, i) + Len(s[i])
        /\ At(data, Offset(g, n + 1), tail)
        /\ Len(data) = Offset(g, n + 1) + Len(tail) - 1
    <3>1. LET d == g[Len(s)] \o tail
          IN  /\ d \in ByteSeqs
              /\ \A i \in 1..Len(s) :
                    /\ At(d, Offset(g, i), s[i])
                    /\ Offset(g, i + 1) = Offset(g, i) + Len(s[i])
              /\ At(d, Offset(g, Len(s) + 1), tail)
              /\ Len(d) = Offset(g, Len(s) + 1) + Len(tail) - 1
      <4>1. JoinsUp(s, Len(s), g)
        BY <1>2, <2>2
      <4> QED
        BY <1>2, <1>3, <2>1, <4>1, PartsStand
    <3> QED
      BY <1>2, <3>1
  <2> HIDE DEF data
  <2>4. PICK f : Decodes(data, f) /\ DecodePackets(data) = f[1]
    BY <2>3, Decoded
  <2>5. \A o \in 1..Len(data) + 1 :
           f[o] = IF HasPacket(data, o) THEN <<PacketAt(data, o)>> \o f[PacketEnd(data, o)]
                  ELSE <<>>
    BY <2>4 DEF Decodes
  <2>6. \A o, q : q \in ByteSeqs /\ At(data, o, q) => o \in 1..Len(data) + 1
    BY <2>3, Elements DEF At
  <2> DEFINE T == {k \in Nat : k <= n => f[Offset(g, n + 1 - k)] = SubSeq(packets, n + 1 - k, n)}
  <2>7. 0 \in T
    <3>1. f[Offset(g, n + 1)] = <<>>
      <4>1. ~HasPacket(data, Offset(g, n + 1))
        BY <2>3, TailShifts
      <4> QED
        BY <1>3, <2>3, <2>5, <2>6, <4>1
    <3>2. SubSeq(packets, n + 1, n) = <<>> /\ n + 1 - 0 = n + 1
      BY <1>1
    <3> QED
      BY <3>1, <3>2
  <2>8. ASSUME NEW k \in Nat, k \in T, k + 1 <= n
        PROVE  f[Offset(g, n + 1 - (k + 1))] = SubSeq(packets, n + 1 - (k + 1), n)
    <3>1. PICK m \in 1..n : m = n - k /\ n + 1 - k = m + 1 /\ n + 1 - (k + 1) = m
      BY <1>1, <2>8
    <3>2. f[Offset(g, m + 1)] = SubSeq(packets, m + 1, n)
      BY <1>1, <2>8, <3>1
    <3>3. PICK o, x : o = Offset(g, m) /\ x = packets[m]
      OBVIOUS
    <3>4. x \in WirePackets /\ s[m] = EncodePacket(x.type, x.body) /\ s[m] \in ByteSeqs
      BY <1>1, <1>2, <3>3
    <3>5. /\ HasPacket(data, o)
          /\ PacketAt(data, o) = [type |-> x.type, body |-> x.body]
          /\ PacketEnd(data, o) = o + Len(s[m])
      BY <2>3, <3>3, <3>4, PacketReadsBack DEF WirePackets
    <3>6. PacketAt(data, o) = x /\ PacketEnd(data, o) = Offset(g, m + 1)
      BY <2>3, <3>3, <3>4, <3>5 DEF WirePackets
    <3>7. o \in 1..Len(data) + 1
      BY <2>3, <2>6, <3>3, <3>4
    <3>8. f[o] = <<x>> \o SubSeq(packets, m + 1, n)
      BY <2>5, <3>2, <3>5, <3>6, <3>7
    <3> QED
      BY <3>1, <3>3, <3>8, FirstAndRest
  <2>9. \A k \in Nat : k \in T
    <3>1. \A k \in Nat : k \in T => k + 1 \in T
      BY <2>8
    <3> HIDE DEF T
    <3> QED
      BY <2>7, <3>1, AllNumbers
  <2>10. f[Offset(g, 1)] = SubSeq(packets, 1, n)
    <3>1. n \in T /\ n + 1 - n = 1
      BY <1>1, <2>9
    <3> QED
      BY <1>1, <3>1
  <2>11. Offset(g, 1) = 1 /\ SubSeq(packets, 1, n) = packets
    BY <1>1 DEF Offset
  <2>12. FlattenSeq(s) \o tail = data
    BY <2>2 DEF data
  <2> QED
    BY <2>4, <2>10, <2>11, <2>12 DEF s
<1> QED
  BY <1>1, <1>4, <1>5

-----------------------------------------------------------------------------
(* Seven bits of an id.                                                    *)
Seven(id, k) == (id \div Weight[k]) % 128

(* The weights are the powers of 128.                                      *)
LEMMA Weights ==
    /\ Weight[1] = 1 /\ Weight[2] = 128 /\ Weight[3] = 128 * 128
    /\ Weight[4] = 16384 * 128 /\ Weight[5] = 2097152 * 128
BY SMT DEF Weight

(* An id is the sum of its bits, seven by seven.                           *)
LEMMA IDIsItsBits ==
    ASSUME NEW id \in Nat, id < IDLimit
    PROVE  /\ \A k \in 1..5 : Seven(id, k) \in 0..127
           /\ Seven(id, 5) < 16
           /\ id = Seven(id, 1) * Weight[1] + Seven(id, 2) * Weight[2]
                   + Seven(id, 3) * Weight[3] + Seven(id, 4) * Weight[4]
                   + Seven(id, 5) * Weight[5]
           /\ \A k \in 1..5 : k > VarIntLen(id) => Seven(id, k) = 0
<1>1. PICK a, b, c, d \in Nat : /\ a = id \div 128 /\ b = id \div 16384
                                /\ c = id \div 2097152 /\ d = id \div 268435456
  BY SMT
<1>2. b = a \div 128 /\ c = b \div 128 /\ d = c \div 128 /\ d < 16
  <2>1. b = a \div 128
    BY <1>1, SMT
  <2>2. c = b \div 128
    BY <1>1, SMT
  <2>3. d = c \div 128
    BY <1>1, SMT
  <2>4. d < 16
    BY <1>1, SMT DEF IDLimit
  <2> QED
    BY <2>1, <2>2, <2>3, <2>4
<1>3. /\ Seven(id, 1) = id % 128 /\ Seven(id, 2) = a % 128 /\ Seven(id, 3) = b % 128
      /\ Seven(id, 4) = c % 128 /\ Seven(id, 5) = d % 128
  BY <1>1, SMT DEF Seven, Weight
<1>4. /\ id = (id % 128) + 128 * a /\ a = (a % 128) + 128 * b
      /\ b = (b % 128) + 128 * c /\ c = (c % 128) + 128 * d /\ d % 128 = d
  BY <1>1, <1>2, SMT
<1>5. \A k \in 1..5 : Seven(id, k) \in 0..127
  BY <1>1, <1>3, SMT
<1>6. id = Seven(id, 1) * Weight[1] + Seven(id, 2) * Weight[2]
           + Seven(id, 3) * Weight[3] + Seven(id, 4) * Weight[4]
           + Seven(id, 5) * Weight[5]
  <2> DEFINE r1 == Seven(id, 1)
             r2 == Seven(id, 2)
             r3 == Seven(id, 3)
             r4 == Seven(id, 4)
             r5 == Seven(id, 5)
  <2>1. r1 \in Nat /\ r2 \in Nat /\ r3 \in Nat /\ r4 \in Nat /\ r5 \in Nat
    BY <1>5
  <2>2. id = r1 + 128 * a /\ a = r2 + 128 * b /\ b = r3 + 128 * c /\ c = r4 + 128 * d
    BY <1>3, <1>4
  <2>3. r5 = d
    BY <1>3, <1>4
  <2> HIDE DEF r1, r2, r3, r4, r5
  <2>4. id = r1 * 1 + r2 * 128 + r3 * 16384 + r4 * 2097152 + r5 * 268435456
    BY <2>1, <2>2, <2>3, SMT
  <2>5. id = r1 * Weight[1] + r2 * Weight[2] + r3 * Weight[3] + r4 * Weight[4]
             + r5 * Weight[5]
    BY <2>1, <2>4, SMT DEF Weight
  <2> QED
    BY <2>5 DEF r1, r2, r3, r4, r5
<1>7. \A k \in 1..5 : k > VarIntLen(id) => Seven(id, k) = 0
  BY <1>1, <1>3, SMT DEF VarIntLen
<1> QED
  BY <1>2, <1>3, <1>4, <1>5, <1>6, <1>7, SMT

(* The bytes of an id: all but the last have their upper bit set.          *)
LEMMA IDBytes ==
    ASSUME NEW id \in Nat, id < IDLimit
    PROVE  /\ VarIntLen(id) \in 1..5
           /\ EncodeVarInt(id) \in ByteSeqs /\ Len(EncodeVarInt(id)) = VarIntLen(id)
           /\ \A k \in 1..VarIntLen(id) :
                 /\ EncodeVarInt(id)[k] % 128 = Seven(id, k)
                 /\ EncodeVarInt(id)[k] < 128 <=> k = VarIntLen(id)
           /\ VarIntLen(id) = 5 => EncodeVarInt(id)[5] % 16 = Seven(id, 5)
<1>1. VarIntLen(id) \in 1..5
  BY DEF VarIntLen
<1>2. PICK n \in 1..5 : n = VarIntLen(id)
  BY <1>1
<1>3. /\ \A k \in 1..n : Seven(id, k) \in 0..127
      /\ Seven(id, 5) \in 0..15
  <2>1. (\A k \in 1..5 : Seven(id, k) \in 0..127) /\ Seven(id, 5) < 16
    BY IDIsItsBits
  <2>2. \A k \in 1..n : k \in 1..5
    OBVIOUS
  <2> QED
    BY <2>1, <2>2
<1>4. EncodeVarInt(id) = [k \in 1..n |-> Seven(id, k) + (IF k < n THEN 128 ELSE 0)]
  BY <1>2 DEF EncodeVarInt, Seven
<1>5. \A k \in 1..n : /\ EncodeVarInt(id)[k] \in Byte
                      /\ EncodeVarInt(id)[k] % 128 = Seven(id, k)
                      /\ EncodeVarInt(id)[k] < 128 <=> k = n
  <2> SUFFICES ASSUME NEW k \in 1..n
               PROVE  /\ EncodeVarInt(id)[k] \in Byte
                      /\ EncodeVarInt(id)[k] % 128 = Seven(id, k)
                      /\ EncodeVarInt(id)[k] < 128 <=> k = n
    OBVIOUS
  <2>1. PICK s \in 0..127 : s = Seven(id, k)
    BY <1>3
  <2>2. EncodeVarInt(id)[k] = s + (IF k < n THEN 128 ELSE 0)
    BY <1>4, <2>1
  <2>3. CASE k < n
    BY <2>1, <2>2, <2>3 DEF Byte
  <2>4. CASE k = n
    BY <2>1, <2>2, <2>4 DEF Byte
  <2> QED
    BY <2>3, <2>4
<1>6. EncodeVarInt(id) \in ByteSeqs /\ Len(EncodeVarInt(id)) = n
  BY <1>4, <1>5 DEF ByteSeqs
<1>7. n = 5 => EncodeVarInt(id)[5] % 16 = Seven(id, 5)
  BY <1>3, <1>4
<1> QED
  BY <1>2, <1>5, <1>6, <1>7

(* message.go: an id that is found somewhere among other bytes ends where  *)
(* it was made to end, and has its value, whatever follows.                *)
THEOREM VarIntReadsBack ==
    ASSUME NEW id \in Nat, id < IDLimit, NEW data \in ByteSeqs, NEW o \in Nat \ {0},
           At(data, o, EncodeVarInt(id))
    PROVE  /\ VarIntEnds(data, o) = {o + VarIntLen(id) - 1}
           /\ VarInt(data, o, o + VarIntLen(id) - 1) = id
<1>0. /\ o + VarIntLen(id) - 1 <= Len(data)
      /\ \A k \in 1..VarIntLen(id) : data[o + k - 1] = EncodeVarInt(id)[k]
  BY IDBytes DEF At
<1>1. PICK n \in 1..5 : n = VarIntLen(id)
  BY IDBytes
<1>2. \A k \in 1..n : /\ data[o + k - 1] % 128 = Seven(id, k)
                      /\ data[o + k - 1] < 128 <=> k = n
  <2>1. \A k \in 1..n : /\ EncodeVarInt(id)[k] % 128 = Seven(id, k)
                        /\ EncodeVarInt(id)[k] < 128 <=> k = n
    BY <1>1, IDBytes
  <2>2. \A k \in 1..n : data[o + k - 1] = EncodeVarInt(id)[k]
    BY <1>0, <1>1
  <2> QED
    BY <2>1, <2>2
<1>3. \A k \in 1..n : k = 5 => data[o + k - 1] % 16 = Seven(id, 5)
  <2>1. n = 5 => EncodeVarInt(id)[5] % 16 = Seven(id, 5)
    BY <1>1, IDBytes
  <2> QED
    BY <1>0, <1>1, <2>1
<1>4. Len(data) \in Nat /\ \A i \in 1..Len(data) : data[i] \in Nat
  BY Elements
<1>5. \A i \in o..(o + n - 1) : (data[i] < 128) <=> (i = o + n - 1)
  <2> SUFFICES ASSUME NEW i \in o..(o + n - 1)
               PROVE  data[i] < 128 <=> i = o + n - 1
    OBVIOUS
  <2>1. PICK k \in 1..n : i = o + k - 1
    <3>1. i - o + 1 \in 1..n /\ i = o + (i - o + 1) - 1
      OBVIOUS
    <3> QED
      BY <3>1
  <2>2. data[o + k - 1] < 128 <=> k = n
    BY <1>2
  <2>3. k = n <=> i = o + n - 1
    BY <2>1
  <2> QED
    BY <2>1, <2>2, <2>3
<1>6. VarIntEnds(data, o) = {o + n - 1}
  <2>1. \A e \in VarIntEnds(data, o) : e = o + n - 1
    <3> SUFFICES ASSUME NEW e \in VarIntEnds(data, o) PROVE e = o + n - 1
      OBVIOUS
    <3>1. /\ e \in o..Len(data) /\ data[e] < 128
          /\ \A k \in o..e - 1 : data[k] >= 128
      BY DEF VarIntEnds
    <3>2. data[o + n - 1] < 128 /\ data[o + n - 1] \in Nat
      <4>1. o + n - 1 \in o..(o + n - 1) /\ o + n - 1 \in 1..Len(data)
        BY <1>0, <1>1, <1>4
      <4>2. PICK j \in o..(o + n - 1) : j = o + n - 1 /\ j \in 1..Len(data)
        BY <4>1
      <4>3. data[j] < 128
        BY <1>5, <4>2
      <4>4. data[j] \in Nat
        BY <1>4, <4>2
      <4> QED
        BY <4>2, <4>3, <4>4
    <3>3. ~(e > o + n - 1)
      BY <3>1, <3>2
    <3>4. e \in o..(o + n - 1)
      BY <3>1, <3>3
    <3> QED
      BY <1>5, <3>1, <3>4
  <2>2. o + n - 1 \in VarIntEnds(data, o)
    <3>1. o + n - 1 \in o..Len(data) /\ data[o + n - 1] < 128
      BY <1>0, <1>1, <1>4, <1>5
    <3>2. \A k \in o..(o + n - 1) - 1 : data[k] >= 128
      <4> SUFFICES ASSUME NEW k \in o..(o + n - 1) - 1 PROVE data[k] >= 128
        OBVIOUS
      <4>1. k \in o..(o + n - 1) /\ k # o + n - 1 /\ k \in 1..Len(data)
        BY <1>0, <1>1, <1>4
      <4> QED
        <5>1. data[k] \in Nat
          BY <1>4, <4>1
        <5>2. ~(data[k] < 128)
          BY <1>5, <4>1
        <5> QED
          BY <5>1, <5>2
    <3> QED
      BY <3>1, <3>2 DEF VarIntEnds
  <2> QED
    BY <2>1, <2>2
<1>7. \A k \in 1..5 : Digit(data, o, o + n - 1, k) = Seven(id, k) * Weight[k]
  <2> SUFFICES ASSUME NEW k \in 1..5
               PROVE  Digit(data, o, o + n - 1, k) = Seven(id, k) * Weight[k]
    OBVIOUS
  <2>0. Weight[k] \in Nat
    BY SMT DEF Weight
  <2>1. CASE k > n
    <3>1. Seven(id, k) = 0
      BY <1>1, <2>1, IDIsItsBits
    <3>2. Digit(data, o, o + n - 1, k) = 0
      BY <2>1 DEF Digit
    <3> QED
      BY <2>0, <3>1, <3>2
  <2>2. CASE k <= n
    <3>1. Digit(data, o, o + n - 1, k)
            = (data[o + k - 1] % (IF k = 5 THEN 16 ELSE 128)) * Weight[k]
      BY <2>2 DEF Digit
    <3>2. data[o + k - 1] % (IF k = 5 THEN 16 ELSE 128) = Seven(id, k)
      BY <1>2, <1>3, <2>2
    <3> QED
      BY <3>1, <3>2
  <2> QED
    BY <2>1, <2>2
<1>8. VarInt(data, o, o + n - 1) = id
  <2>1. /\ Digit(data, o, o + n - 1, 1) = Seven(id, 1) * Weight[1]
        /\ Digit(data, o, o + n - 1, 2) = Seven(id, 2) * Weight[2]
        /\ Digit(data, o, o + n - 1, 3) = Seven(id, 3) * Weight[3]
        /\ Digit(data, o, o + n - 1, 4) = Seven(id, 4) * Weight[4]
        /\ Digit(data, o, o + n - 1, 5) = Seven(id, 5) * Weight[5]
    BY <1>7
  <2>2. id = Seven(id, 1) * Weight[1] + Seven(id, 2) * Weight[2]
             + Seven(id, 3) * Weight[3] + Seven(id, 4) * Weight[4]
             + Seven(id, 5) * Weight[5]
    BY IDIsItsBits
  <2> QED
    BY <2>1, <2>2 DEF VarInt
<1> QED
  BY <1>1, <1>6, <1>8

-----------------------------------------------------------------------------
(* Four parts in a row, the first of one byte.                             *)
InARow(data, p, q, r, s) ==
    /\ data \in ByteSeqs /\ Len(data) = 1 + Len(q) + Len(r) + Len(s)
    /\ data[1] = p[1]
    /\ At(data, 2, q) /\ At(data, 2 + Len(q), r)
    /\ At(data, 2 + Len(q) + Len(r), s)

LEMMA FourParts ==
    ASSUME NEW p \in ByteSeqs, NEW q \in ByteSeqs, NEW r \in ByteSeqs, NEW s \in ByteSeqs,
           Len(p) = 1
    PROVE  InARow(p \o q \o r \o s, p, q, r, s)
<1> DEFINE a == p \o q
           b == a \o r
           c == b \o s
<1>0. Len(q) \in Nat /\ Len(r) \in Nat /\ Len(s) \in Nat
  BY DEF ByteSeqs
<1>1. /\ a \in ByteSeqs /\ Len(a) = Len(p) + Len(q) /\ \A i \in 1..Len(p) : a[i] = p[i]
      /\ \A i \in 1..Len(q) : a[Len(p) + i] = q[i]
  BY Joined
<1>2. c = p \o q \o r \o s
  OBVIOUS
<1> HIDE DEF a
<1>3. /\ b \in ByteSeqs /\ Len(b) = Len(a) + Len(r) /\ \A i \in 1..Len(a) : b[i] = a[i]
      /\ \A i \in 1..Len(r) : b[Len(a) + i] = r[i]
  BY <1>1, Joined
<1> HIDE DEF b
<1>4. /\ c \in ByteSeqs /\ Len(c) = Len(b) + Len(s) /\ \A i \in 1..Len(b) : c[i] = b[i]
      /\ \A i \in 1..Len(s) : c[Len(b) + i] = s[i]
  BY <1>3, Joined
<1> HIDE DEF c
<1>5. c[1] = p[1]
  BY <1>0, <1>1, <1>3, <1>4
<1>6. At(c, 2, q)
  <2>1. \A i \in 1..Len(q) : c[1 + i] = q[i] /\ 2 + i - 1 = 1 + i
    BY <1>0, <1>1, <1>3, <1>4
  <2> QED
    BY <1>0, <1>1, <1>3, <1>4, <2>1 DEF At
<1>7. At(c, 2 + Len(q), r)
  <2>1. \A i \in 1..Len(r) : c[1 + Len(q) + i] = r[i]
                             /\ 2 + Len(q) + i - 1 = 1 + Len(q) + i
    BY <1>0, <1>1, <1>3, <1>4
  <2> QED
    BY <1>0, <1>1, <1>3, <1>4, <2>1 DEF At
<1>8. At(c, 2 + Len(q) + Len(r), s)
  <2>1. \A i \in 1..Len(s) : c[1 + Len(q) + Len(r) + i] = s[i]
            /\ 2 + Len(q) + Len(r) + i - 1 = 1 + Len(q) + Len(r) + i
    BY <1>0, <1>1, <1>3, <1>4
  <2> QED
    BY <1>0, <1>1, <1>3, <1>4, <2>1 DEF At
<1>9. Len(c) = 1 + Len(q) + Len(r) + Len(s)
  BY <1>0, <1>1, <1>3, <1>4
<1>10. InARow(c, p, q, r, s)
  BY <1>4, <1>5, <1>6, <1>7, <1>8, <1>9 DEF InARow
<1> QED
  BY <1>2, <1>10

(* What EncodeMessage puts where: I is the id's part, R the route's.       *)
IDPart(typ, id)       == IF HasID(typ) THEN EncodeVarInt(id) ELSE <<>>
RoutePart(typ, route) == IF HasRoute(typ) THEN <<Len(route) % 256>> \o route ELSE <<>>

LEMMA RoutePartBytes ==
    ASSUME NEW route \in ByteSeqs, Len(route) < RouteLimit
    PROVE  LET r == <<Len(route) % 256>> \o route
           IN  /\ r \in ByteSeqs /\ Len(r) = 1 + Len(route) /\ r[1] = Len(route)
               /\ At(r, 2, route)
<1> DEFINE t == <<Len(route) % 256>>
           r == t \o route
<1>1. t \in ByteSeqs /\ Len(t) = 1 /\ t[1] = Len(route)
  <2>1. Len(route) % 256 = Len(route) /\ Len(route) \in Byte
    <3>1. Len(route) \in Nat
      BY Elements
    <3> QED
      BY <3>1, ByteOfByte
  <2> QED
    BY <2>1 DEF ByteSeqs
<1> HIDE DEF t
<1>2. /\ r \in ByteSeqs /\ Len(r) = Len(t) + Len(route)
      /\ \A i \in 1..Len(t) : r[i] = t[i]
      /\ \A i \in 1..Len(route) : r[Len(t) + i] = route[i]
  BY <1>1, Joined
<1> HIDE DEF r
<1>3. r[1] = t[1]
  BY <1>1, <1>2
<1>4. At(r, 2, route)
  <2>1. Len(route) \in Nat /\ \A i \in 1..Len(route) : 2 + i - 1 = 1 + i
    BY Elements
  <2> QED
    BY <1>1, <1>2, <2>1 DEF At
<1> QED
  BY <1>1, <1>2, <1>3, <1>4 DEF r, t

(* What stands in a part of s stands in s.                                 *)
LEMMA PartOfPart ==
    ASSUME NEW s \in ByteSeqs, NEW q \in ByteSeqs, NEW r \in ByteSeqs, NEW o, NEW k,
           At(s, o, q), At(q, k, r)
    PROVE  At(s, o + k - 1, r)
<1>1. Len(s) \in Nat /\ Len(q) \in Nat /\ Len(r) \in Nat
  BY Elements
<1>2. /\ o \in Nat \ {0} /\ o + Len(q) - 1 <= Len(s)
      /\ \A i \in 1..Len(q) : s[o + i - 1] = q[i]
      /\ k \in Nat \ {0} /\ k + Len(r) - 1 <= Len(q)
      /\ \A i \in 1..Len(r) : q[k + i - 1] = r[i]
  BY DEF At
<1>3. \A i \in 1..Len(r) : /\ k + i - 1 \in 1..Len(q)
                           /\ o + (k + i - 1) - 1 = (o + k - 1) + i - 1
  BY <1>1, <1>2
<1>4. \A i \in 1..Len(r) : s[(o + k - 1) + i - 1] = r[i]
  BY <1>2, <1>3
<1> QED
  BY <1>1, <1>2, <1>4 DEF At

(* The rest of a message of a type with a route ...                        *)
LEMMA RouteRead ==
    ASSUME NEW data \in ByteSeqs, NEW typ, HasRoute(typ), data[1] % 2 = 0,
           NEW id, NEW o \in Nat \ {0}, NEW route \in ByteSeqs, NEW body \in ByteSeqs,
           Len(data) = o + Len(route) + Len(body),
           data[o] = Len(route),
           At(data, o + 1, route), At(data, o + Len(route) + 1, body)
    PROVE  WithRoute(data, typ, id, o)
               = [type |-> typ, id |-> id, route |-> route, body |-> body]
<1>1. Len(route) \in Nat /\ Len(body) \in Nat /\ Len(data) \in Nat
  BY Elements
<1>2. PICK e \in Nat : e = o + data[o]
  BY <1>1
<1>3. /\ e <= Len(data) /\ o <= Len(data) /\ e = (o + 1) + Len(route) - 1
      /\ e + 1 = o + Len(route) + 1
      /\ Len(data) = (o + Len(route) + 1) + Len(body) - 1
  BY <1>1, <1>2
<1>4. SubSeq(data, o + 1, (o + 1) + Len(route) - 1) = route
  BY CutOut
<1>5. SubSeq(data, o + Len(route) + 1, (o + Len(route) + 1) + Len(body) - 1) = body
  BY CutOut
<1>6. WithRoute(data, typ, id, o)
        = [type |-> typ, id |-> id, route |-> SubSeq(data, o + 1, e),
           body |-> SubSeq(data, e + 1, Len(data))]
  <2>1. ~(o > Len(data)) /\ ~(e > Len(data)) /\ data[1] % 2 # 1
    BY <1>1, <1>3
  <2> QED
    BY <1>2, <2>1 DEF WithRoute
<1>7. SubSeq(data, o + 1, e) = route /\ SubSeq(data, e + 1, Len(data)) = body
  BY <1>3, <1>4, <1>5
<1> QED
  BY <1>6, <1>7

(* ... and without one.                                                    *)
LEMMA NoRouteRead ==
    ASSUME NEW data \in ByteSeqs, NEW typ, ~HasRoute(typ),
           NEW id, NEW o \in Nat \ {0}, NEW body \in ByteSeqs,
           o + Len(body) - 1 = Len(data), At(data, o, body)
    PROVE  WithRoute(data, typ, id, o)
               = [type |-> typ, id |-> id, route |-> <<>>, body |-> body]
<1>1. Len(body) \in Nat /\ Len(data) \in Nat
  BY Elements
<1>2. SubSeq(data, o, Len(data)) = body
  <2>1. SubSeq(data, o, o + Len(body) - 1) = body
    BY CutOut
  <2> QED
    BY <2>1
<1>3. ~(o - 1 > Len(data)) /\ (o - 1) + 1 = o
  BY <1>1
<1>4. WithRoute(data, typ, id, o)
        = [type |-> typ, id |-> id, route |-> <<>>,
           body |-> SubSeq(data, (o - 1) + 1, Len(data))]
  BY <1>3 DEF WithRoute
<1> QED
  BY <1>2, <1>3, <1>4

(* message.go: a message that is decoded is the one that was encoded, but  *)
(* for an id or a route that its type does not carry: for every uint32 and *)
(* every route that a byte can count.                                      *)
THEOREM MessageReadsBack ==
    ASSUME NEW id \in Nat, id < IDLimit, NEW typ \in 0..3,
           NEW route \in ByteSeqs, Len(route) < RouteLimit, NEW body \in ByteSeqs
    PROVE  DecodeMessage(EncodeMessage(id, typ, route, body))
               = Message(id, typ, route, body)
<1> DEFINE t == <<typ * 2>>
           I == IDPart(typ, id)
           R == RoutePart(typ, route)
<1>1. t \in ByteSeqs /\ Len(t) = 1 /\ t[1] = typ * 2
  BY DEF ByteSeqs, Byte
<1>2. PICK data : data = t \o I \o R \o body
  OBVIOUS
<1>3. EncodeMessage(id, typ, route, body) = data
  BY <1>2 DEF EncodeMessage, IDPart, RoutePart
<1>4. /\ I \in ByteSeqs /\ Len(I) \in Nat
      /\ HasID(typ) => I = EncodeVarInt(id) /\ Len(I) = VarIntLen(id)
      /\ ~HasID(typ) => Len(I) = 0
  BY IDBytes, Elements DEF IDPart, ByteSeqs
<1>5. /\ R \in ByteSeqs /\ Len(R) \in Nat
      /\ HasRoute(typ) => /\ Len(R) = 1 + Len(route) /\ R[1] = Len(route)
                          /\ At(R, 2, route)
      /\ ~HasRoute(typ) => Len(R) = 0
  <2>1. CASE HasRoute(typ)
    BY <2>1, RoutePartBytes, Elements DEF RoutePart
  <2>2. CASE ~HasRoute(typ)
    BY <2>2 DEF RoutePart, ByteSeqs
  <2> QED
    BY <2>1, <2>2
<1> HIDE DEF t, I, R
<1>6. /\ data \in ByteSeqs /\ Len(data) = 1 + Len(I) + Len(R) + Len(body)
      /\ data[1] = t[1]
      /\ At(data, 2, I) /\ At(data, 2 + Len(I), R)
      /\ At(data, 2 + Len(I) + Len(R), body)
  <2>1. t \in ByteSeqs /\ Len(t) = 1 /\ I \in ByteSeqs /\ R \in ByteSeqs
    BY <1>1, <1>4, <1>5
  <2>2. InARow(t \o I \o R \o body, t, I, R, body)
    BY <2>1, FourParts
  <2> QED
    BY <1>2, <2>2 DEF InARow
<1>7. /\ data # <<>> /\ (data[1] \div 2) % 8 = typ /\ data[1] % 2 = 0
      /\ Len(body) \in Nat /\ Len(route) \in Nat
  <2>1. Len(body) \in Nat /\ Len(route) \in Nat
    BY Elements
  <2>2. data # <<>>
    BY <1>4, <1>5, <1>6, <2>1
  <2>3. data[1] = typ * 2
    BY <1>1, <1>6
  <2> QED
    BY <2>1, <2>2, <2>3
<1>8. PICK o \in Nat \ {0} : o = 2 + Len(I)
  BY <1>4
<1>9. PICK v : v = IF HasID(typ) THEN id ELSE 0
  OBVIOUS
<1>10. WithRoute(data, typ, v, o) = Message(id, typ, route, body)
  <2>1. CASE HasRoute(typ)
    <3>1. Len(data) = o + Len(route) + Len(body)
      <4>1. Len(data) = 1 + Len(I) + Len(R) + Len(body)
        BY <1>6
      <4>2. Len(R) = 1 + Len(route) /\ Len(I) \in Nat
        BY <1>4, <1>5, <2>1
      <4> QED
        BY <1>7, <1>8, <4>1, <4>2
    <3>2. data[o] = Len(route)
      <4>1. 1 \in 1..Len(R) /\ o + 1 - 1 = o /\ R[1] = Len(route)
        BY <1>5, <1>7, <2>1
      <4>2. \A i \in 1..Len(R) : data[o + i - 1] = R[i]
        BY <1>6, <1>8 DEF At
      <4> QED
        BY <4>1, <4>2
    <3>3. At(data, o + 1, route)
      <4>1. At(data, o + 2 - 1, route)
        BY <1>5, <1>6, <1>8, <2>1, PartOfPart
      <4>2. o + 2 - 1 = o + 1
        OBVIOUS
      <4> QED
        BY <4>1, <4>2
    <3>4. At(data, o + Len(route) + 1, body)
      <4>1. 2 + Len(I) + Len(R) = o + Len(route) + 1
        BY <1>4, <1>5, <1>7, <1>8, <2>1
      <4> QED
        BY <1>6, <4>1
    <3>5. WithRoute(data, typ, v, o)
            = [type |-> typ, id |-> v, route |-> route, body |-> body]
      <4>1. data \in ByteSeqs /\ data[1] % 2 = 0
        BY <1>6, <1>7
      <4> QED
        BY <2>1, <3>1, <3>2, <3>3, <3>4, <4>1, RouteRead
    <3> QED
      BY <1>9, <2>1, <3>5 DEF Message
  <2>2. CASE ~HasRoute(typ)
    <3>1. o + Len(body) - 1 = Len(data)
      BY <1>4, <1>5, <1>6, <1>7, <1>8, <2>2
    <3>2. At(data, o, body)
      <4>1. 2 + Len(I) + Len(R) = o
        BY <1>4, <1>5, <1>8, <2>2
      <4> QED
        BY <1>6, <4>1
    <3>3. WithRoute(data, typ, v, o)
            = [type |-> typ, id |-> v, route |-> <<>>, body |-> body]
      BY <1>6, <2>2, <3>1, <3>2, NoRouteRead
    <3> QED
      BY <1>9, <2>2, <3>3 DEF Message
  <2> QED
    BY <2>1, <2>2
<1>11. DecodeMessage(data) = WithRoute(data, typ, v, o)
  <2>1. CASE HasID(typ)
    <3>1. PICK e : e = 2 + VarIntLen(id) - 1
      OBVIOUS
    <3>2. VarIntEnds(data, 2) = {e} /\ VarInt(data, 2, e) = id
      BY <1>4, <1>6, <2>1, <3>1, VarIntReadsBack
    <3>3. e + 1 = o /\ v = id
      BY <1>4, <1>8, <1>9, <2>1, <3>1
    <3>4. (CHOOSE x \in {e} : TRUE) = e
      OBVIOUS
    <3> QED
      BY <1>7, <2>1, <3>2, <3>3, <3>4 DEF DecodeMessage
  <2>2. CASE ~HasID(typ)
    <3>1. o = 2 /\ v = 0
      BY <1>4, <1>8, <1>9, <2>2
    <3> QED
      BY <1>7, <2>2, <3>1 DEF DecodeMessage
  <2> QED
    BY <2>1, <2>2
<1> QED
  BY <1>3, <1>10, <1>11

-----------------------------------------------------------------------------

(***************************************************************************)
(* The write mutex.                                                        *)
(***************************************************************************)
WriterInv ==
    /\ wpc \in [Writers -> {"idle", "want", "in"}]
    /\ \A w \in Writers : wpc[w] = "in" => mu = w

LEMMA WriterInit == Init => WriterInv
  BY DEF Init, WriterInv

(* Only writeRaw takes the mutex, and only a writer that is not in it asks *)
(* for a write.                                                            *)
LEMMA WriterStep == WriterInv /\ [Next]_vars => WriterInv'
<1> SUFFICES ASSUME WriterInv, [Next]_vars PROVE WriterInv'
  OBVIOUS
<1> USE DEF WriterInv
<1>1. CASE UNCHANGED <<mu, wpc>>
  BY <1>1
<1>2. ASSUME NEW w \in Writers, NEW packet, BeginWrite(w, packet)
      PROVE  WriterInv'
  BY <1>2 DEF BeginWrite
<1>3. ASSUME NEW w \in Writers, LockWrite(w) PROVE WriterInv'
  BY <1>3 DEF LockWrite, Writers, Step, Beat, Nobody
<1>4. ASSUME NEW w \in Writers, NEW failed, EndWrite(w, failed), wpc[w] = "in"
      PROVE  WriterInv'
  BY <1>4 DEF EndWrite
<1>5. ASSUME NEW w \in Writers, Write(w) \/ WriteFails(w) PROVE WriterInv'
  BY <1>5, <1>4 DEF Write, WriteFails
<1>6. CASE Connect \/ HandshakeRead \/ SendRound \/ EchoHeartbeat
  <2>1. Step \in Writers
    BY DEF Writers
  <2> QED
    BY <1>6, <1>2, <2>1 DEF Connect, HandshakeRead, SendRound, EchoHeartbeat
<1>7. CASE Tick
  <2>1. Beat \in Writers
    BY DEF Writers
  <2> QED
    BY <1>7, <1>2, <2>1 DEF Tick
<1>8. CASE \/ DialFails \/ HandshakeFails \/ Connected \/ SkipRound \/ ListenRound
           \/ Sent \/ SendFails \/ ReadFrame \/ RecvFails \/ NextPacket \/ Echoed
           \/ Kicked \/ DecodePanics \/ RecvReturns \/ Ignore \/ RoundDone
           \/ AssertionFails \/ AllRoundsDone \/ DeferredClose \/ Return
  BY <1>1, <1>8
  DEF DialFails, HandshakeFails, Connected, SkipRound, ListenRound, Sent, SendFails,
      ReadFrame, RecvFails, NextPacket, Echoed, Kicked, DecodePanics, RecvReturns,
      Ignore, RoundDone, AssertionFails, AllRoundsDone, DeferredClose, Return, writer
<1>9. CASE BeatEnds \/ Watch \/ ContextEnds \/ ServerNext \/ Terminated \/ UNCHANGED vars
  BY <1>1, <1>9
  DEF BeatEnds, Watch, ContextEnds, ServerNext, ServerAnswers, ServerSends,
      ServerHangsUp, Terminated, writer, vars
<1> QED
  BY <1>3, <1>5, <1>6, <1>7, <1>8, <1>9 DEF Next, StepNext

(* Client.writeRaw: the step and the heartbeat loop are never both inside  *)
(* conn.WriteMessage.                                                      *)
THEOREM OneWriterAtATime == Spec => []OneWriter
<1>1. WriterInv => OneWriter
  BY DEF WriterInv, OneWriter
<1> QED
  BY <1>1, WriterInit, WriterStep, PTL DEF Spec

-----------------------------------------------------------------------------
(***************************************************************************)
(* Types, with what the two sides send.                                    *)
(***************************************************************************)
(* A packet of the client: only data has a type, request or notify, and    *)
(* only a request has an id.                                               *)
ByClient(x) ==
    /\ x \in Packets
    /\ x.kind \in {"handshake", "ack", "heartbeat", "data"}
    /\ x.kind = "data" => x.type \in {"request", "notify"}
    /\ x.kind # "data" => x.type = "none"
    /\ x.type # "request" => x.id = 0

(* A packet of the server.                                                 *)
ByServer(x) ==
    /\ x \in Packets
    /\ x.kind = "data" => x.type \in {"response", "push"}
    /\ x.kind # "data" => x.type = "none"
    /\ x.type # "response" => x.id = 0

LEMMA PacketTypes ==
  /\ \A kind \in Kinds \ {"data"}, body \in Bodies :
        /\ ByServer(Packet(kind, body))
        /\ kind # "kick" => ByClient(Packet(kind, body))
  /\ \A id \in Nat, body \in Bodies, about \in Nat :
        /\ ByClient(Data("request", id, body, about))
        /\ ByClient(Data("notify", 0, body, about))
        /\ ByServer(Data("response", id, body, about))
        /\ ByServer(Data("push", 0, body, about))
  BY DEF ByClient, ByServer, Packet, Data, Packets, Kinds, Types, Bodies

(* An answer is a packet or none; a response takes over what it answers.   *)
LEMMA ReplyShape ==
  ASSUME NEW p, ByClient(p), NEW r \in Replies(p)
  PROVE  \/ r = <<>>
         \/ \E x : /\ r = <<x>> /\ ByServer(x)
                   /\ x.type = "response" =>
                         p.type = "request" /\ x.id = p.id /\ x.about = p.about
<1>0. p.id \in Nat /\ p.about \in Nat
  BY DEF ByClient, Packets
<1>1. CASE p.kind = "handshake"
  <2>1. PICK b \in {"ok", "off"} : r = <<Packet("handshake", b)>>
    BY <1>1 DEF Replies, ByClient
  <2>2. ByServer(Packet("handshake", b)) /\ Packet("handshake", b).type = "none"
    BY PacketTypes DEF Kinds, Bodies, Packet
  <2> QED
    BY <2>1, <2>2
<1>2. CASE p.kind = "ack"
  BY <1>2 DEF Replies, ByClient
<1>3. CASE p.kind = "heartbeat"
  <2>1. r = <<Packet("heartbeat", "ok")>>
    BY <1>3 DEF Replies, ByClient
  <2>2. ByServer(Packet("heartbeat", "ok")) /\ Packet("heartbeat", "ok").type = "none"
    BY PacketTypes DEF Kinds, Bodies, Packet
  <2> QED
    BY <2>1, <2>2
<1>4. CASE p.kind = "data" /\ p.type = "request"
  <2>1. PICK b \in {"ok", "off"} : r = <<Data("response", p.id, b, p.about)>>
    BY <1>4 DEF Replies
  <2>2. /\ ByServer(Data("response", p.id, b, p.about))
        /\ Data("response", p.id, b, p.about).id = p.id
        /\ Data("response", p.id, b, p.about).about = p.about
    BY <1>0, PacketTypes DEF Bodies, Data
  <2> QED
    BY <1>4, <2>1, <2>2
<1>5. CASE p.kind = "data" /\ p.type = "notify"
  <2>1. \/ r = <<>>
        \/ \E b \in {"ok", "off"} : r = <<Data("push", 0, b, p.about)>>
    BY <1>5 DEF Replies
  <2>2. \A b \in {"ok", "off"} : /\ ByServer(Data("push", 0, b, p.about))
                                /\ Data("push", 0, b, p.about).type = "push"
    BY <1>0, PacketTypes DEF Bodies, Data
  <2> QED
    BY <2>1, <2>2
<1> QED
  BY <1>1, <1>2, <1>3, <1>4, <1>5 DEF ByClient

LEMMA UnaskedShape ==
  ASSUME NEW x \in Unasked
  PROVE  ByServer(x) /\ x.type # "response"
<1>1. \/ x = Packet("kick", "ok") \/ x = Packet("heartbeat", "ok")
      \/ \E b \in Bodies : x = Data("push", 0, b, 0)
  BY DEF Unasked, Bodies
<1>2. Packet("kick", "ok").type = "none" /\ Packet("heartbeat", "ok").type = "none"
  BY DEF Packet
<1>3. \A b \in Bodies : Data("push", 0, b, 0).type = "push"
  BY DEF Data
<1> QED
  BY <1>1, <1>2, <1>3, PacketTypes DEF Kinds, Bodies

(***************************************************************************)
(* Requests and answers.                                                   *)
(***************************************************************************)
(* The step is in a round it has sent something in, or listens.            *)
Asking == pc \in {"sent", "recv", "scan", "echoed", "match"}

(* A packet that carries an id has got it from Send; one that carries the  *)
(* id of the round in progress is about that round.                        *)
Mine(x) ==
    x.type \in {"request", "response"} =>
        /\ x.id \in 1..nextID
        /\ Asking /\ x.id = reqID => x.about = round

SentRight     == \A w \in Writers : ByClient(out[w]) /\ Mine(out[w])
UpRight       == \A i \in DOMAIN up : ByClient(up[i]) /\ Mine(up[i])
DownRight     == \A i \in DOMAIN down : \A j \in DOMAIN down[i] :
                    ByServer(down[i][j]) /\ Mine(down[i][j])
FrameRight    == \A i \in DOMAIN frame : ByServer(frame[i]) /\ Mine(frame[i])
ReceivedRight == pc = "match" => ByServer(msg) /\ msg.kind = "data" /\ Mine(msg)

AnswerType ==
    /\ reqID \in Nat /\ nextID \in Nat /\ round \in Nat
    /\ out \in [Writers -> Packets]
    /\ up \in Seq(Packets)
    /\ down \in Seq(Seq(Packets))
    /\ frame \in Seq(Packets)
    /\ msg \in Packets
    /\ got \in Seq([round : Nat, msg : Packets])

AnswerInv ==
    /\ AnswerType
    /\ SentRight /\ UpRight /\ DownRight /\ FrameRight /\ ReceivedRight
    /\ RequestGetsItsAnswer

LEMMA NothingShape == ByClient(Nothing) /\ Nothing.type = "none"
  BY PacketTypes DEF Nothing, Packet, Kinds, Bodies

LEMMA AnswerInit == Init => AnswerInv
<1> SUFFICES ASSUME Init PROVE AnswerInv
  OBVIOUS
<1>1. AnswerType
  BY NothingShape DEF Init, AnswerType, ByClient
<1>2. SentRight
  BY NothingShape DEF Init, SentRight, Mine
<1>3. UpRight /\ DownRight /\ FrameRight /\ ReceivedRight /\ RequestGetsItsAnswer
  BY DEF Init, UpRight, DownRight, FrameRight, ReceivedRight, RequestGetsItsAnswer
<1> QED
  BY <1>1, <1>2, <1>3 DEF AnswerInv

(* A step that moves no packet.                                            *)
LEMMA AnswerFrame ==
  ASSUME AnswerInv, UNCHANGED <<cfg, out, up, down, frame, msg, got>>,
         reqID' \in Nat, nextID' \in Nat, round' \in Nat,
         ASSUME NEW x PROVE Mine(x) => Mine(x)',
         pc' = "match" => pc = "match"
  PROVE  AnswerInv'
<1>1. AnswerType'
  BY DEF AnswerInv, AnswerType
<1>2. SentRight' /\ UpRight' /\ DownRight' /\ FrameRight' /\ ReceivedRight'
  BY DEF AnswerInv, SentRight, UpRight, DownRight, FrameRight, ReceivedRight
<1>3. RequestGetsItsAnswer'
  BY DEF AnswerInv, RequestGetsItsAnswer
<1> QED
  BY <1>1, <1>2, <1>3 DEF AnswerInv

LEMMA AnswerQuiet ==
  ASSUME AnswerInv,
         UNCHANGED <<cfg, round, reqID, nextID, out, up, down, frame, msg, got>>,
         Asking' => Asking, pc' = "match" => pc = "match"
  PROVE  AnswerInv'
<1>1. ASSUME NEW x PROVE Mine(x) => Mine(x)'
  BY DEF Mine
<1>2. reqID' \in Nat /\ nextID' \in Nat /\ round' \in Nat
  BY DEF AnswerInv, AnswerType
<1> QED
  BY <1>1, <1>2, AnswerFrame

LEMMA ControlPacket ==
  ASSUME NEW kind \in {"handshake", "ack", "heartbeat"}
  PROVE  /\ ByClient(Packet(kind, "ok")) /\ Packet(kind, "ok") \in Packets
         /\ Mine(Packet(kind, "ok"))'
<1>1. ByClient(Packet(kind, "ok"))
  BY PacketTypes DEF Kinds, Bodies
<1>2. Packet(kind, "ok").type = "none"
  BY DEF Packet
<1> QED
  BY <1>1, <1>2 DEF ByClient, Mine

LEMMA AnswerControl ==
  ASSUME AnswerInv, Connect \/ HandshakeRead \/ EchoHeartbeat \/ Tick
  PROVE  AnswerInv'
<1> USE DEF Writers
<1>0. PICK w \in Writers, kind \in {"handshake", "ack", "heartbeat"} :
         BeginWrite(w, Packet(kind, "ok"))
  BY DEF Connect, HandshakeRead, EchoHeartbeat, Tick
<1>1. /\ UNCHANGED <<cfg, got, up, round, reqID, nextID, msg>>
      /\ Asking' => Asking
      /\ pc' = "match" => pc = "match"
  BY DEF Connect, HandshakeRead, EchoHeartbeat, Tick, Asking, step, server
<1>2. ASSUME NEW y PROVE Mine(y) => Mine(y)'
  BY <1>1 DEF Mine
<1>3. /\ down' \in Seq(Seq(Packets)) /\ frame' \in Seq(Packets)
      /\ DownRight' /\ FrameRight'
  <2>0. /\ down \in Seq(Seq(Packets)) /\ frame \in Seq(Packets)
        /\ DownRight /\ FrameRight
    BY DEF AnswerInv, AnswerType
  <2>1. CASE UNCHANGED <<down, frame>>
    BY <2>0, <2>1, <1>2 DEF DownRight, FrameRight
  <2>2. CASE down # <<>> /\ down' = Tail(down) /\ UNCHANGED frame
    BY <2>0, <2>2, <1>2 DEF DownRight, FrameRight
  <2>3. CASE frame # <<>> /\ frame' = Tail(frame) /\ UNCHANGED down
    BY <2>0, <2>3, <1>2 DEF DownRight, FrameRight
  <2> QED
    BY <2>1, <2>2, <2>3 DEF Connect, HandshakeRead, EchoHeartbeat, Tick, Welcome,
       Readable, step, server
<1>4. AnswerType'
  <2>1. out' = [out EXCEPT ![w] = Packet(kind, "ok")]
    BY <1>0 DEF BeginWrite
  <2> QED
    BY <2>1, <1>1, <1>3, ControlPacket DEF AnswerInv, AnswerType
<1>5. out' = [out EXCEPT ![w] = Packet(kind, "ok")] /\ SentRight'
  <2>1. out' = [out EXCEPT ![w] = Packet(kind, "ok")]
    BY <1>0 DEF BeginWrite
  <2> QED
    BY <2>1, <1>2, ControlPacket DEF AnswerInv, AnswerType, SentRight
<1>6. UpRight' /\ ReceivedRight' /\ RequestGetsItsAnswer'
  BY <1>1, <1>2 DEF AnswerInv, UpRight, ReceivedRight, RequestGetsItsAnswer
<1> QED
  BY <1>3, <1>4, <1>5, <1>6 DEF AnswerInv

(* Send draws an id that no packet carries yet.                            *)
LEMMA SentPacket ==
  ASSUME AnswerType, NEW n \in Nat, NEW x, SendRound, n = nextID + 1,
         x = IF Round.request THEN Data("request", n, "ok", round)
                              ELSE Data("notify", 0, "ok", round)
  PROVE  ByClient(x) /\ x \in Packets /\ Mine(x)'
<1>1. /\ nextID' = n /\ UNCHANGED round /\ n \in 1..n
  BY DEF SendRound, AnswerType
<1>2. CASE Round.request
  <2>1. x.id = n /\ x.about = round
    BY <1>2 DEF Data
  <2>2. ByClient(x)
    BY <1>2, PacketTypes DEF Bodies, AnswerType
  <2> QED
    BY <2>1, <2>2, <1>1 DEF ByClient, Mine
<1>3. CASE ~Round.request
  <2>1. x.type = "notify"
    BY <1>3 DEF Data
  <2>2. ByClient(x)
    BY <1>3, PacketTypes DEF Bodies, AnswerType
  <2> QED
    BY <2>1, <2>2 DEF ByClient, Mine
<1> QED
  BY <1>2, <1>3

LEMMA AnswerSends ==
  ASSUME AnswerInv, SendRound
  PROVE  AnswerInv'
<1>0. AnswerType
  BY DEF AnswerInv
<1>1. PICK n \in Nat : n = nextID + 1
  BY <1>0 DEF AnswerType
<1>2. PICK x : x = IF Round.request THEN Data("request", n, "ok", round)
                                   ELSE Data("notify", 0, "ok", round)
  OBVIOUS
<1>3. /\ pc = "round" /\ pc' = "sent" /\ nextID' = n /\ reqID' = n
      /\ out' = [out EXCEPT ![Step] = x]
      /\ UNCHANGED <<cfg, round, frame, msg, got, up, down>>
  BY <1>1, <1>2 DEF SendRound, BeginWrite, server
<1>4. ByClient(x) /\ x \in Packets /\ Mine(x)'
  BY <1>0, <1>1, <1>2, SentPacket
<1>5. ASSUME NEW y PROVE Mine(y) => Mine(y)'
  BY <1>0, <1>1, <1>3 DEF Mine, AnswerType
<1>6. AnswerType'
  BY <1>0, <1>3, <1>4 DEF AnswerType
<1>7. SentRight'
  <2>1. \A w \in Writers : out'[w] = x \/ out'[w] = out[w]
    BY <1>0, <1>3 DEF AnswerType
  <2> QED
    BY <2>1, <1>4, <1>5 DEF AnswerInv, SentRight
<1>8. UpRight' /\ DownRight' /\ FrameRight' /\ ReceivedRight'
  BY <1>3, <1>5 DEF AnswerInv, UpRight, DownRight, FrameRight, ReceivedRight
<1>9. RequestGetsItsAnswer'
  BY <1>3 DEF AnswerInv, RequestGetsItsAnswer
<1> QED
  BY <1>6, <1>7, <1>8, <1>9 DEF AnswerInv

(* What arrives keeps to what is known of it.                              *)
LEMMA AnswerDown ==
  ASSUME AnswerInv, UNCHANGED <<cfg, pc, round, reqID, nextID, out, frame, msg, got>>,
         up' \in Seq(Packets), down' \in Seq(Seq(Packets)), UpRight', DownRight'
  PROVE  AnswerInv'
<1>1. ASSUME NEW x PROVE Mine(x) => Mine(x)'
  BY DEF Mine, Asking
<1>2. AnswerType' /\ SentRight' /\ FrameRight' /\ ReceivedRight'
  BY <1>1 DEF AnswerInv, AnswerType, SentRight, FrameRight, ReceivedRight
<1>3. RequestGetsItsAnswer'
  BY DEF AnswerInv, RequestGetsItsAnswer
<1> QED
  BY <1>2, <1>3 DEF AnswerInv

(* A frame the server may send.                                            *)
FrameOK(f) == f \in Seq(Packets) /\ \A j \in DOMAIN f : ByServer(f[j]) /\ Mine(f[j])

LEMMA UnaskedFrame ==
  ASSUME NEW x \in Unasked
  PROVE  FrameOK(<<x>>)
<1>1. ByServer(x) /\ x.type \notin {"request", "response"} /\ x \in Packets
  <2>1. ByServer(x) /\ x.type # "response"
    BY UnaskedShape
  <2> QED
    BY <2>1 DEF ByServer
<1> QED
  BY <1>1 DEF FrameOK, Mine

LEMMA ReplyFrame ==
  ASSUME AnswerInv, up # <<>>, NEW r \in Replies(up[1])
  PROVE  FrameOK(r)
<1>1. up \in Seq(Packets) /\ ByClient(up[1]) /\ Mine(up[1])
  BY DEF AnswerInv, AnswerType, UpRight
<1>2. CASE r = <<>>
  BY <1>2 DEF FrameOK
<1>3. ASSUME NEW x, r = <<x>>, ByServer(x),
             x.type = "response" => /\ up[1].type = "request" /\ x.id = up[1].id
                                    /\ x.about = up[1].about
      PROVE  FrameOK(r)
  <2>1. x \in Packets /\ x.type # "request"
    BY <1>3 DEF ByServer
  <2>2. Mine(x)
    BY <1>1, <1>3, <2>1 DEF Mine
  <2> QED
    BY <1>3, <2>1, <2>2 DEF FrameOK
<1> QED
  BY <1>1, <1>2, <1>3, ReplyShape

LEMMA JoinedFrame ==
  ASSUME NEW f, NEW g, FrameOK(f), FrameOK(g)
  PROVE  FrameOK(f \o g)
  BY DEF FrameOK

(* down takes one frame more.                                              *)
LEMMA DownGrows ==
  ASSUME AnswerInv, UNCHANGED <<pc, round, reqID, nextID>>,
         NEW f, FrameOK(f), down' = Append(down, f)
  PROVE  down' \in Seq(Seq(Packets)) /\ DownRight'
<1>1. ASSUME NEW x PROVE Mine(x) => Mine(x)'
  BY DEF Mine, Asking
<1>2. down \in Seq(Seq(Packets)) /\ f \in Seq(Packets) /\ down' \in Seq(Seq(Packets))
  BY DEF AnswerInv, AnswerType, FrameOK
<1>3. \A i \in DOMAIN down' : down'[i] = f \/ (i \in DOMAIN down /\ down'[i] = down[i])
  BY <1>2
<1>4. \A j \in DOMAIN f : ByServer(f[j]) /\ Mine(f[j])'
  BY <1>1 DEF FrameOK
<1> QED
  BY <1>1, <1>2, <1>3, <1>4 DEF AnswerInv, DownRight

LEMMA AnswerServer ==
  ASSUME AnswerInv, ServerNext
  PROVE  AnswerInv'
<1>0. UNCHANGED <<cfg, pc, round, reqID, nextID, out, frame, msg, got>>
  BY DEF ServerNext, ServerAnswers, ServerSends, ServerHangsUp, step, writer
<1>1. ASSUME NEW x PROVE Mine(x) => Mine(x)'
  BY <1>0 DEF Mine, Asking
<1>2. up' \in Seq(Packets) /\ UpRight'
  <2>1. up \in Seq(Packets) /\ UpRight
    BY DEF AnswerInv, AnswerType
  <2>2. up' = up \/ (up # <<>> /\ up' = Tail(up))
    BY DEF ServerNext, ServerAnswers, ServerSends, ServerHangsUp
  <2> QED
    BY <2>1, <2>2, <1>1 DEF UpRight
<1>3. down' \in Seq(Seq(Packets)) /\ DownRight'
  <2>1. CASE down' = down
    BY <2>1, <1>1 DEF AnswerInv, AnswerType, DownRight
  <2>2. ASSUME NEW f, FrameOK(f), down' = Append(down, f)
        PROVE  down' \in Seq(Seq(Packets)) /\ DownRight'
    BY <2>2, <1>0, DownGrows
  <2>3. CASE ServerAnswers
    <3>1. PICK r \in Replies(up[1]) :
             \/ down' = down \/ down' = Append(down, r)
             \/ \E x \in Unasked : down' \in {Append(down, <<x>> \o r),
                                             Append(down, r \o <<x>>)}
      BY <2>3 DEF ServerAnswers
    <3>2. FrameOK(r)
      BY <2>3, ReplyFrame DEF ServerAnswers
    <3>3. \A x \in Unasked : FrameOK(<<x>> \o r) /\ FrameOK(r \o <<x>>)
      BY <3>2, UnaskedFrame, JoinedFrame
    <3> QED
      BY <2>1, <2>2, <3>1, <3>2, <3>3
  <2>4. CASE ServerSends
    BY <2>2, <2>4, UnaskedFrame DEF ServerSends
  <2>5. CASE ServerHangsUp
    BY <2>1, <2>5 DEF ServerHangsUp
  <2> QED
    BY <2>3, <2>4, <2>5 DEF ServerNext
<1> QED
  BY <1>0, <1>2, <1>3, AnswerDown

(* writeRaw hands over what its caller asked it to.                        *)
LEMMA AnswerWrites ==
  ASSUME AnswerInv, NEW w \in Writers, Write(w)
  PROVE  AnswerInv'
<1>0. /\ UNCHANGED <<cfg, pc, round, reqID, nextID, out, frame, msg, got, down>>
      /\ up' = Append(up, out[w])
  BY DEF Write, EndWrite, step, server
<1>1. ASSUME NEW x PROVE Mine(x) => Mine(x)'
  BY <1>0 DEF Mine, Asking
<1>2. ByClient(out[w]) /\ Mine(out[w]) /\ out[w] \in Packets /\ up \in Seq(Packets)
  BY DEF AnswerInv, AnswerType, SentRight, ByClient
<1>3. up' \in Seq(Packets) /\ UpRight'
  <2>1. PICK x : x = out[w]
    OBVIOUS
  <2>2. up' = Append(up, x) /\ x \in Packets /\ ByClient(x) /\ Mine(x)'
    BY <1>0, <1>1, <1>2, <2>1
  <2>3. \A i \in DOMAIN up' : up'[i] = x \/ (i \in DOMAIN up /\ up'[i] = up[i])
    BY <1>2, <2>2
  <2> QED
    BY <1>1, <1>2, <2>2, <2>3 DEF AnswerInv, UpRight
<1>4. down' \in Seq(Seq(Packets)) /\ DownRight'
  BY <1>0, <1>1 DEF AnswerInv, AnswerType, DownRight
<1> QED
  BY <1>0, <1>3, <1>4, AnswerDown

(* Recv goes through a frame.                                              *)
LEMMA AnswerReads ==
  ASSUME AnswerInv, ReadFrame \/ NextPacket
  PROVE  AnswerInv'
<1>0. /\ UNCHANGED <<cfg, round, reqID, nextID, msg, got, out, up>>
      /\ Asking /\ pc' # "match"
      /\ \/ frame' = down[1] /\ down # <<>> /\ down' = Tail(down)
         \/ down' = down /\ frame' = frame
         \/ down' = down /\ frame # <<>> /\ frame' = Tail(frame)
  BY DEF ReadFrame, NextPacket, Readable, Asking, writer, server
<1>1. ASSUME NEW x PROVE Mine(x) => Mine(x)'
  BY <1>0 DEF Mine
<1>2. /\ down \in Seq(Seq(Packets)) /\ frame \in Seq(Packets)
      /\ DownRight /\ FrameRight
  BY DEF AnswerInv, AnswerType
<1>3. down' \in Seq(Seq(Packets)) /\ DownRight'
  <2>1. CASE down' = down
    BY <1>1, <1>2, <2>1 DEF DownRight
  <2>2. CASE down # <<>> /\ down' = Tail(down)
    BY <1>1, <1>2, <2>2 DEF DownRight
  <2> QED
    BY <1>0, <2>1, <2>2
<1>4. frame' \in Seq(Packets) /\ FrameRight'
  <2>1. CASE frame' = frame
    BY <1>1, <1>2, <2>1 DEF FrameRight
  <2>2. CASE frame # <<>> /\ frame' = Tail(frame)
    BY <1>1, <1>2, <2>2 DEF FrameRight
  <2>3. CASE frame' = down[1] /\ down # <<>>
    <3>1. 1 \in DOMAIN down /\ down[1] \in Seq(Packets)
      BY <1>2, <2>3
    <3> QED
      BY <1>1, <1>2, <2>3, <3>1 DEF DownRight, FrameRight
  <2> QED
    BY <1>0, <2>1, <2>2, <2>3
<1>5. AnswerType' /\ SentRight' /\ UpRight' /\ ReceivedRight'
  BY <1>0, <1>1, <1>3, <1>4
  DEF AnswerInv, AnswerType, SentRight, UpRight, ReceivedRight
<1>6. RequestGetsItsAnswer'
  BY <1>0 DEF AnswerInv, RequestGetsItsAnswer
<1> QED
  BY <1>3, <1>4, <1>5, <1>6 DEF AnswerInv

LEMMA AnswerReceives ==
  ASSUME AnswerInv, RecvReturns
  PROVE  AnswerInv'
<1>0. /\ UNCHANGED <<cfg, round, reqID, nextID, got, out, up, down>>
      /\ Asking /\ frame' = <<>> /\ frame # <<>> /\ msg' = frame[1]
      /\ frame[1].kind = "data"
  BY DEF RecvReturns, Head1, Asking, writer, server
<1>1. ASSUME NEW x PROVE Mine(x) => Mine(x)'
  BY <1>0 DEF Mine
<1>2. PICK x : x = frame[1]
  OBVIOUS
<1>3. x \in Packets /\ ByServer(x) /\ Mine(x)' /\ x.kind = "data" /\ msg' = x
  <2>1. frame \in Seq(Packets) /\ FrameRight /\ 1 \in DOMAIN frame
    BY <1>0 DEF AnswerInv, AnswerType
  <2> QED
    BY <1>0, <1>1, <1>2, <2>1 DEF FrameRight
<1>4. AnswerType' /\ SentRight' /\ UpRight' /\ DownRight' /\ FrameRight'
  BY <1>0, <1>1, <1>3
  DEF AnswerInv, AnswerType, SentRight, UpRight, DownRight, FrameRight
<1>5. ReceivedRight'
  BY <1>3 DEF ReceivedRight
<1>6. RequestGetsItsAnswer'
  BY <1>0 DEF AnswerInv, RequestGetsItsAnswer
<1> QED
  BY <1>4, <1>5, <1>6 DEF AnswerInv

(* The round takes the message: were it a request's, nothing but the       *)
(* response with its id passes.                                            *)
LEMMA AnswerTaken ==
  ASSUME AnswerInv, RoundDone
  PROVE  AnswerInv'
<1>0. /\ UNCHANGED <<cfg, reqID, nextID, frame, msg, out, up, down>>
      /\ pc = "match" /\ pc' = "round" /\ round' = round + 1
      /\ got' = Append(got, [round |-> round, msg |-> msg])
  BY DEF RoundDone, writer, server
<1>1. ASSUME NEW x PROVE Mine(x) => Mine(x)'
  BY <1>0 DEF Mine, Asking
<1>2. AnswerType
  BY DEF AnswerInv
<1>3. AnswerType' /\ SentRight' /\ UpRight' /\ DownRight' /\ FrameRight' /\ ReceivedRight'
  BY <1>0, <1>1, <1>2
  DEF AnswerInv, AnswerType, SentRight, UpRight, DownRight, FrameRight, ReceivedRight
<1>4. Asked => msg.type = "response" /\ msg.about = round
  BY <1>0 DEF AnswerInv, ReceivedRight, RoundDone, Answers, ByServer, Mine, Asking
<1>5. RequestGetsItsAnswer'
  <2>1. \A i \in DOMAIN got' :
           \/ i \in DOMAIN got /\ got'[i] = got[i]
           \/ got'[i] = [round |-> round, msg |-> msg]
    <3>1. PICK y : y = [round |-> round, msg |-> msg]
      OBVIOUS
    <3>2. y \in [round : Nat, msg : Packets] /\ got \in Seq([round : Nat, msg : Packets])
      BY <1>2, <3>1 DEF AnswerType
    <3>3. got' = Append(got, y)
      BY <1>0, <3>1
    <3>4. \A i \in DOMAIN got' : \/ i \in DOMAIN got /\ got'[i] = got[i]
                                 \/ got'[i] = y
      BY <3>2, <3>3
    <3> QED
      BY <3>1, <3>4
  <2>2. cfg' = cfg /\ RequestGetsItsAnswer
    BY <1>0 DEF AnswerInv
  <2> QED
    BY <1>4, <2>1, <2>2 DEF RequestGetsItsAnswer, Asked, Round
<1> QED
  BY <1>3, <1>5 DEF AnswerInv

LEMMA AnswerStep == AnswerInv /\ [Next]_vars => AnswerInv'
<1> SUFFICES ASSUME AnswerInv, [Next]_vars PROVE AnswerInv'
  OBVIOUS
<1>1. CASE SkipRound \/ ListenRound
  <2>1. /\ UNCHANGED <<cfg, nextID, out, up, down, frame, msg, got>>
        /\ pc = "round" /\ pc' # "match"
        /\ \/ pc' = "round" /\ reqID' = reqID /\ round' = round + 1
           \/ pc' = "recv" /\ reqID' = 0 /\ round' = round
    BY <1>1 DEF SkipRound, ListenRound, writer, server
  <2>2. reqID' \in Nat /\ nextID' \in Nat /\ round' \in Nat
    BY <2>1 DEF AnswerInv, AnswerType
  <2>3. ASSUME NEW x PROVE Mine(x) => Mine(x)'
    BY <2>1 DEF Mine, Asking
  <2> QED
    BY <2>1, <2>2, <2>3, AnswerFrame
<1>2. CASE \/ DialFails \/ HandshakeFails \/ Connected \/ Sent \/ SendFails
           \/ RecvFails \/ Echoed \/ Kicked \/ DecodePanics \/ Ignore
           \/ AssertionFails \/ AllRoundsDone \/ DeferredClose \/ Return
  <2>1. /\ UNCHANGED <<cfg, round, reqID, nextID, out, up, down, frame, msg, got>>
        /\ Asking' => Asking
        /\ pc' = "match" => pc = "match"
    BY <1>2
    DEF DialFails, HandshakeFails, Connected, Sent, SendFails, RecvFails, Echoed,
        Kicked, DecodePanics, Ignore, AssertionFails, AllRoundsDone, DeferredClose,
        Return, Asking, writer, server
  <2> QED
    BY <2>1, AnswerQuiet
<1>3. CASE \/ \E w \in Writers : LockWrite(w) \/ WriteFails(w)
           \/ BeatEnds \/ Watch \/ ContextEnds \/ Terminated \/ UNCHANGED vars
  <2>1. UNCHANGED <<cfg, pc, round, reqID, nextID, out, up, down, frame, msg, got>>
    BY <1>3
    DEF LockWrite, WriteFails, EndWrite, BeatEnds, Watch, ContextEnds, Terminated,
        step, writer, server, vars
  <2>2. Asking' => Asking
    BY <2>1 DEF Asking
  <2> QED
    BY <2>1, <2>2, AnswerQuiet
<1> QED
  BY <1>1, <1>2, <1>3, AnswerControl, AnswerSends, AnswerReads, AnswerReceives,
     AnswerTaken, AnswerWrites, AnswerServer
  DEF Next, StepNext

(* executePomeloWS and Client.Send: ids are drawn once per message, so the *)
(* response a request round waits for cannot be an earlier round's, and no *)
(* push passes for it, whatever the server sends and however it batches.   *)
THEOREM RequestsGetTheirAnswers == Spec => []RequestGetsItsAnswer
<1>1. AnswerInv => RequestGetsItsAnswer
  BY DEF AnswerInv
<1> QED
  BY <1>1, AnswerInit, AnswerStep, PTL DEF Spec


-----------------------------------------------------------------------------
(***************************************************************************)
(* The course of a step.                                                   *)
(***************************************************************************)
Ended  == {"closing", "cancelling", "returned"}
Unread == {"dial", "cancelling", "returned"}

(* What AnswerType leaves to say.                                          *)
RunType ==
    /\ cfg \in Seq(RoundType)
    /\ pc \in PCs
    /\ verdict \in Verdicts
    /\ ctx \in {"live", "deadline", "cancelled"}
    /\ open \in BOOLEAN /\ hbDone \in BOOLEAN /\ hungUp \in BOOLEAN
    /\ beat \in {"off", "loop", "done"}
    /\ watcher \in {"off", "waiting", "done"}
    /\ mu \in Writers \union {Nobody}
    /\ wpc \in [Writers -> {"idle", "want", "in"}]
    /\ werr \in [Writers -> BOOLEAN]
    /\ Len(up) <= Window /\ Len(down) <= Window
    /\ ticks \in 0..MaxTicks /\ extras \in 0..MaxExtras

(* The rounds before the current one that wait for a message have got one, *)
(* in order, and are satisfied with it; the others have not.               *)
RoundsDone ==
    /\ round \in 1..(Len(cfg) + 1)
    /\ Asking => round <= Len(cfg) /\ Waits(cfg[round])
    /\ \A i \in DOMAIN got : /\ got[i].round \in 1..(round - 1)
                             /\ Waits(cfg[got[i].round])
                             /\ Satisfied(cfg[got[i].round], got[i].msg)
    /\ \A i \in 1..(round - 1) :
          Waits(cfg[i]) => \E j \in DOMAIN got : got[j].round = i
    /\ \A i, j \in DOMAIN got : i < j => got[i].round < got[j].round

(* A connection that was closed before the end has been closed by the      *)
(* watcher.                                                                *)
ClosedByContext == pc \notin Unread /\ ~open => Done

VerdictSoFar ==
    /\ pc \notin Ended => verdict = [status |-> "success", cause |-> "none"]
    /\ pc \in Ended /\ verdict.status = "success" => round = Len(cfg) + 1
    /\ verdict.status = "timeout" => ctx = "deadline"
    /\ verdict = [status |-> "failed", cause |-> "recv"] =>
          hungUp \/ ctx = "cancelled"

CourseInv == RunType /\ RoundsDone /\ ClosedByContext /\ VerdictSoFar

LEMMA CourseTypes == AnswerInv /\ CourseInv => TypeOK
  BY DEF AnswerInv, AnswerType, CourseInv, RunType, RoundsDone, TypeOK

LEMMA CourseVerdict == AnswerInv /\ CourseInv => VerdictTrue
<1> SUFFICES ASSUME AnswerInv, CourseInv, pc \in Ended PROVE VerdictTrue
  BY DEF VerdictTrue, Ended
<1>1. CASE verdict.status # "success"
  BY <1>1 DEF CourseInv, VerdictSoFar, VerdictTrue
<1>2. CASE verdict.status = "success"
  <2>1. round = Len(cfg) + 1 /\ Len(cfg) \in Nat /\ DOMAIN cfg = 1..Len(cfg)
    BY <1>2 DEF CourseInv, VerdictSoFar, RunType
  <2>2. \A i \in DOMAIN cfg : i \in 1..(round - 1)
    BY <2>1
  <2>3. \A i \in DOMAIN cfg : Waits(cfg[i]) <=> \E j \in DOMAIN got : got[j].round = i
    BY <2>2 DEF CourseInv, RoundsDone
  <2> QED
    BY <1>2, <2>3 DEF CourseInv, RoundsDone, VerdictSoFar, VerdictTrue, Waits
<1> QED
  BY <1>1, <1>2

LEMMA CourseInit == Init => CourseInv
<1> SUFFICES ASSUME Init PROVE CourseInv
  OBVIOUS
<1>1. RunType
  <2>1. cfg \in Seq(RoundType)
    BY ConfigAssumption DEF Init
  <2>2. /\ Len(up) <= Window /\ Len(down) <= Window
        /\ ticks \in 0..MaxTicks /\ extras \in 0..MaxExtras
    BY BoundAssumption DEF Init
  <2>3. verdict \in Verdicts
    BY DEF Init, Verdicts
  <2> QED
    BY <2>1, <2>2, <2>3 DEF Init, RunType, PCs
<1>2. RoundsDone
  BY <1>1 DEF Init, RunType, RoundsDone, Asking
<1>3. ClosedByContext /\ VerdictSoFar
  BY DEF Init, ClosedByContext, Unread, VerdictSoFar, Ended
<1> QED
  BY <1>1, <1>2, <1>3 DEF CourseInv

(* The variables of the step and of the goroutines beside it.              *)
LEMMA FlagTypes ==
  ASSUME RunType, [Next]_vars
  PROVE  /\ cfg' = cfg /\ pc' \in PCs /\ verdict' \in Verdicts
         /\ ctx' \in {"live", "deadline", "cancelled"}
         /\ open' \in BOOLEAN /\ hbDone' \in BOOLEAN /\ hungUp' \in BOOLEAN
         /\ beat' \in {"off", "loop", "done"}
         /\ watcher' \in {"off", "waiting", "done"}
<1> USE DEF RunType, PCs
<1>1. CASE UNCHANGED <<cfg, verdict, ctx, open, beat, watcher, hbDone, hungUp>>
           /\ pc' \in PCs
  BY <1>1
<1>2. CASE DialFails \/ HandshakeFails
  <2>1. verdict' \in Verdicts
    BY <1>2 DEF DialFails, HandshakeFails, Ends, TimeoutOr, Verdicts
  <2>2. /\ pc' \in PCs /\ UNCHANGED <<cfg, ctx, beat, watcher, hbDone, hungUp>>
        /\ open' = open \/ open' = FALSE
    BY <1>2 DEF DialFails, HandshakeFails, helper, server
  <2> QED
    BY <2>1, <2>2
<1>3. CASE SendFails \/ RecvFails \/ Kicked \/ DecodePanics \/ AssertionFails
  BY <1>3
  DEF SendFails, RecvFails, Kicked, DecodePanics, AssertionFails, Ends, TimeoutOr,
      Verdicts, helper, server
<1>4. CASE Connect \/ Connected \/ DeferredClose \/ Return
  BY <1>4 DEF Connect, Connected, DeferredClose, Return, Close, helper, server, Done
<1>5. CASE \/ HandshakeRead \/ SkipRound \/ SendRound \/ ListenRound \/ Sent
           \/ ReadFrame \/ NextPacket \/ EchoHeartbeat \/ Echoed \/ RecvReturns
           \/ Ignore \/ RoundDone \/ AllRoundsDone
  BY <1>1, <1>5
  DEF HandshakeRead, SkipRound, SendRound, ListenRound, Sent, ReadFrame, NextPacket,
      EchoHeartbeat, Echoed, RecvReturns, Ignore, RoundDone, AllRoundsDone, helper,
      server
<1>6. CASE \/ \E w \in Writers : LockWrite(w) \/ Write(w) \/ WriteFails(w)
           \/ Tick \/ Terminated \/ UNCHANGED vars \/ ServerAnswers \/ ServerSends
  BY <1>1, <1>6
  DEF LockWrite, Write, WriteFails, EndWrite, Tick, Terminated, ServerAnswers,
      ServerSends, vars, step, helper, server
<1>7. CASE BeatEnds \/ Watch \/ ContextEnds \/ ServerHangsUp
  <2>1. CASE BeatEnds
    BY <2>1 DEF BeatEnds, step, server
  <2>2. CASE Watch
    BY <2>2 DEF Watch, Close, step, server
  <2>3. CASE ContextEnds
    BY <2>3 DEF ContextEnds, step, helper, server
  <2>4. CASE ServerHangsUp
    BY <2>4 DEF ServerHangsUp, step, helper
  <2> QED
    BY <1>7, <2>1, <2>2, <2>3, <2>4
<1> QED
  BY <1>2, <1>3, <1>4, <1>5, <1>6, <1>7 DEF Next, StepNext, ServerNext

(* The mutex and the two writers.                                          *)
LEMMA WriterTypes ==
  ASSUME RunType, [Next]_vars
  PROVE  /\ mu' \in Writers \union {Nobody}
         /\ wpc' \in [Writers -> {"idle", "want", "in"}]
         /\ werr' \in [Writers -> BOOLEAN]
<1> USE DEF RunType
<1>1. CASE UNCHANGED <<mu, wpc, werr>>
  BY <1>1
<1>2. ASSUME NEW w \in Writers, NEW packet, BeginWrite(w, packet)
      PROVE  /\ mu' = mu /\ werr' = werr
             /\ wpc' \in [Writers -> {"idle", "want", "in"}]
  BY <1>2 DEF BeginWrite
<1>3. Step \in Writers /\ Beat \in Writers
  BY DEF Writers
<1>4. CASE Connect \/ HandshakeRead \/ SendRound \/ EchoHeartbeat \/ Tick
  BY <1>2, <1>3, <1>4 DEF Connect, HandshakeRead, SendRound, EchoHeartbeat, Tick
<1>5. ASSUME NEW w \in Writers, LockWrite(w) \/ Write(w) \/ WriteFails(w)
      PROVE  /\ mu' \in Writers \union {Nobody}
             /\ wpc' \in [Writers -> {"idle", "want", "in"}]
             /\ werr' \in [Writers -> BOOLEAN]
  BY <1>5 DEF LockWrite, Write, WriteFails, EndWrite
<1>6. CASE \/ DialFails \/ HandshakeFails \/ Connected \/ SkipRound \/ ListenRound
           \/ Sent \/ SendFails \/ ReadFrame \/ RecvFails \/ NextPacket \/ Echoed
           \/ Kicked \/ DecodePanics \/ RecvReturns \/ Ignore \/ RoundDone
           \/ AssertionFails \/ AllRoundsDone \/ DeferredClose \/ Return
  BY <1>1, <1>6
  DEF DialFails, HandshakeFails, Connected, SkipRound, ListenRound, Sent, SendFails,
      ReadFrame, RecvFails, NextPacket, Echoed, Kicked, DecodePanics, RecvReturns,
      Ignore, RoundDone, AssertionFails, AllRoundsDone, DeferredClose, Return, writer
<1>7. CASE BeatEnds \/ Watch \/ ContextEnds \/ ServerNext \/ Terminated \/ UNCHANGED vars
  BY <1>1, <1>7
  DEF BeatEnds, Watch, ContextEnds, ServerNext, ServerAnswers, ServerSends,
      ServerHangsUp, Terminated, writer, vars
<1> QED
  BY <1>4, <1>5, <1>6, <1>7 DEF Next, StepNext

(* The connection holds no more than a window in each direction.           *)
LEMMA WindowTypes ==
  ASSUME AnswerInv, RunType, [Next]_vars
  PROVE  /\ Len(up') <= Window /\ Len(down') <= Window
         /\ ticks' \in 0..MaxTicks /\ extras' \in 0..MaxExtras
<1>0. /\ up \in Seq(Packets) /\ down \in Seq(Seq(Packets))
      /\ Len(up) \in Nat /\ Len(down) \in Nat /\ Window \in Nat
      /\ MaxTicks \in Nat /\ MaxExtras \in Nat
      /\ Len(up) <= Window /\ Len(down) <= Window
      /\ ticks \in 0..MaxTicks /\ extras \in 0..MaxExtras
  BY BoundAssumption DEF AnswerInv, AnswerType, RunType
<1>1. CASE UNCHANGED <<up, down, ticks, extras>>
  BY <1>0, <1>1
<1>2. CASE HandshakeRead \/ ReadFrame
  <2>1. /\ UNCHANGED <<up, ticks, extras>> /\ down # <<>> /\ down' = Tail(down)
    BY <1>2 DEF HandshakeRead, ReadFrame, Readable, Welcome
  <2>2. Len(down') <= Len(down)
    BY <1>0, <2>1
  <2> QED
    BY <1>0, <2>1, <2>2
<1>3. CASE Tick
  <2>1. ticks < MaxTicks /\ ticks' = ticks + 1 /\ UNCHANGED <<up, down, extras>>
    BY <1>3 DEF Tick, server
  <2> QED
    BY <1>0, <2>1
<1>4. ASSUME NEW w \in Writers, Write(w)
      PROVE  /\ Len(up') <= Window /\ Len(down') <= Window
             /\ ticks' \in 0..MaxTicks /\ extras' \in 0..MaxExtras
  <2>1. /\ UNCHANGED <<down, ticks, extras>> /\ Len(up) < Window
        /\ up' = Append(up, out[w])
    BY <1>4 DEF Write, EndWrite, server
  <2>2. Len(up') = Len(up) + 1
    BY <1>0, <2>1
  <2> QED
    BY <1>0, <2>1, <2>2
<1>5. CASE ServerAnswers
  <2>1. /\ up' = Tail(up) /\ up # <<>> /\ UNCHANGED ticks /\ Len(down) < Window
        /\ down' = down \/ \E f : down' = Append(down, f)
        /\ extras' = extras \/ (extras < MaxExtras /\ extras' = extras + 1)
    BY <1>5 DEF ServerAnswers
  <2>2. Len(up') <= Len(up) /\ Len(down') <= Len(down) + 1
    BY <1>0, <2>1
  <2>3. Len(up') \in Nat /\ Len(down') \in Nat
    BY <1>0, <2>1
  <2> QED
    BY <1>0, <2>1, <2>2, <2>3
<1>6. CASE ServerSends
  <2>1. /\ UNCHANGED <<up, ticks>> /\ Len(down) < Window
        /\ \E f : down' = Append(down, f)
        /\ extras < MaxExtras /\ extras' = extras + 1
    BY <1>6 DEF ServerSends
  <2>2. Len(down') = Len(down) + 1
    BY <1>0, <2>1
  <2> QED
    BY <1>0, <2>1, <2>2
<1>7. CASE \/ DialFails \/ Connect \/ HandshakeFails \/ Connected \/ SkipRound
           \/ SendRound \/ ListenRound \/ Sent \/ SendFails \/ RecvFails
           \/ NextPacket \/ EchoHeartbeat \/ Echoed \/ Kicked \/ DecodePanics
           \/ RecvReturns \/ Ignore \/ RoundDone \/ AssertionFails
           \/ AllRoundsDone \/ DeferredClose \/ Return
  BY <1>1, <1>7
  DEF DialFails, Connect, HandshakeFails, Connected, SkipRound, SendRound,
      ListenRound, Sent, SendFails, RecvFails, NextPacket, EchoHeartbeat, Echoed,
      Kicked, DecodePanics, RecvReturns, Ignore, RoundDone, AssertionFails,
      AllRoundsDone, DeferredClose, Return, server
<1>8. CASE \/ \E w \in Writers : LockWrite(w) \/ WriteFails(w)
           \/ BeatEnds \/ Watch \/ ContextEnds \/ ServerHangsUp \/ Terminated
           \/ UNCHANGED vars
  BY <1>1, <1>8
  DEF LockWrite, WriteFails, EndWrite, BeatEnds, Watch, ContextEnds, ServerHangsUp,
      Terminated, vars, server
<1> QED
  BY <1>2, <1>3, <1>4, <1>5, <1>6, <1>7, <1>8 DEF Next, StepNext, ServerNext

LEMMA RunTypeStep == AnswerInv /\ RunType /\ [Next]_vars => RunType'
<1> SUFFICES ASSUME AnswerInv, RunType, [Next]_vars PROVE RunType'
  OBVIOUS
<1>1. cfg' \in Seq(RoundType)
  BY FlagTypes DEF RunType
<1> QED
  BY <1>1, FlagTypes, WriterTypes, WindowTypes DEF RunType

(* A step that moves no round on.                                          *)
LEMMA CourseFrame ==
  ASSUME RunType, RunType', RoundsDone, ClosedByContext, VerdictSoFar,
         UNCHANGED <<cfg, round, got, verdict>>,
         Asking' => Asking, pc' \in Ended <=> pc \in Ended,
         ctx' = ctx \/ ctx = "live", hungUp => hungUp',
         pc' \notin Unread => pc \notin Unread,
         ~open' => ~open \/ pc' \in Unread \/ Done
  PROVE  CourseInv'
<1>1. RoundsDone'
  BY DEF RoundsDone, Satisfied
<1>2. ClosedByContext'
  BY DEF ClosedByContext, Done
<1>3. VerdictSoFar'
  BY DEF VerdictSoFar
<1> QED
  BY <1>1, <1>2, <1>3 DEF CourseInv

(* The step ends other than by getting through its rounds.                 *)
LEMMA CourseEnds ==
  ASSUME RunType, RunType', RoundsDone, ClosedByContext, VerdictSoFar,
         UNCHANGED <<cfg, round, got, ctx, hungUp>>,
         pc' \in Ended, pc' \notin Unread => pc \notin Unread /\ open' = open,
         verdict'.status # "success",
         verdict'.status = "timeout" => ctx = "deadline",
         verdict' = [status |-> "failed", cause |-> "recv"] =>
             hungUp \/ ctx = "cancelled"
  PROVE  CourseInv'
<1>1. ~Asking'
  BY DEF Asking, Ended
<1>2. RoundsDone'
  BY <1>1 DEF RoundsDone, Satisfied
<1>3. ClosedByContext'
  BY DEF ClosedByContext, Done
<1>4. VerdictSoFar'
  BY DEF VerdictSoFar
<1> QED
  BY <1>2, <1>3, <1>4 DEF CourseInv

(* A round starts, or is passed over.                                      *)
LEMMA CourseStarts ==
  ASSUME RunType, RunType', RoundsDone, ClosedByContext, VerdictSoFar,
         SkipRound \/ SendRound \/ ListenRound
  PROVE  CourseInv'
<1>1. /\ UNCHANGED <<cfg, got, verdict, ctx, open, hungUp>>
      /\ pc = "round" /\ pc' \in {"round", "sent", "recv"} /\ round <= Len(cfg)
      /\ \/ round' = round + 1 /\ ~Waits(cfg[round]) /\ pc' = "round"
         \/ round' = round /\ Waits(cfg[round])
  BY DEF SkipRound, SendRound, ListenRound, HasRecv, Round, Waits, server
<1>2. round \in 1..Len(cfg) /\ Len(cfg) \in Nat
  BY <1>1 DEF RunType, RoundsDone
<1>3. RoundsDone'
  <2>1. CASE round' = round
    BY <1>1, <2>1 DEF RoundsDone, Satisfied
  <2>2. CASE round' = round + 1
    <3>1. ~Asking' /\ round' \in 1..(Len(cfg) + 1)
      BY <1>1, <1>2, <2>2 DEF Asking
    <3>2. \A i \in 1..(round' - 1) : i \in 1..(round - 1) \/ i = round
      BY <1>2, <2>2
    <3>3. \A i \in 1..(round - 1) : i \in 1..(round' - 1)
      BY <1>2, <2>2
    <3>4. ~Waits(cfg[round])
      BY <1>1, <1>2, <2>2
    <3> QED
      BY <1>1, <3>1, <3>2, <3>3, <3>4 DEF RoundsDone, Satisfied
  <2> QED
    BY <1>1, <2>1, <2>2
<1>4. ClosedByContext'
  BY <1>1 DEF ClosedByContext, Unread, Done
<1>5. VerdictSoFar'
  BY <1>1 DEF VerdictSoFar, Ended
<1> QED
  BY <1>3, <1>4, <1>5 DEF CourseInv

(* A round takes its message.                                              *)
LEMMA CourseTakes ==
  ASSUME AnswerInv, RunType, RunType', RoundsDone, ClosedByContext, VerdictSoFar,
         RoundDone
  PROVE  CourseInv'
<1>1. /\ UNCHANGED <<cfg, verdict, ctx, open, hungUp>>
      /\ pc = "match" /\ pc' = "round" /\ round' = round + 1
      /\ got' = Append(got, [round |-> round, msg |-> msg])
  BY DEF RoundDone, server
<1>2. round \in 1..Len(cfg) /\ Len(cfg) \in Nat /\ Waits(cfg[round])
  BY <1>1 DEF RunType, RoundsDone, Asking
<1>3. Satisfied(cfg[round], msg)
  BY DEF RoundDone, Answers, Round, Satisfied
<1>4. PICK n : n = Len(got) + 1
  OBVIOUS
<1>5. /\ n \in Nat /\ n \in DOMAIN got' /\ DOMAIN got' = 1..n /\ DOMAIN got = 1..(n - 1)
      /\ \A i \in 1..(n - 1) : got'[i] = got[i]
      /\ got'[n].round = round /\ got'[n].msg = msg
  <2>1. PICK y : y = [round |-> round, msg |-> msg]
    OBVIOUS
  <2>2. /\ y \in [round : Nat, msg : Packets]
        /\ got \in Seq([round : Nat, msg : Packets]) /\ got' = Append(got, y)
    BY <1>1, <2>1 DEF AnswerInv, AnswerType
  <2>3. /\ n \in Nat /\ n \in DOMAIN got' /\ DOMAIN got' = 1..n /\ DOMAIN got = 1..(n - 1)
        /\ \A i \in 1..(n - 1) : got'[i] = got[i]
        /\ got'[n] = y
    BY <1>4, <2>2
  <2> QED
    BY <2>1, <2>3
<1>6. RoundsDone'
  <2>1. round' \in 1..(Len(cfg') + 1) /\ ~Asking'
    BY <1>1, <1>2 DEF Asking
  <2>2. ASSUME NEW i \in DOMAIN got'
        PROVE  /\ got'[i].round \in 1..(round' - 1)
               /\ Waits(cfg'[got'[i].round])
               /\ Satisfied(cfg'[got'[i].round], got'[i].msg)
    <3>1. CASE i = n
      BY <1>1, <1>2, <1>3, <1>5, <3>1
    <3>2. CASE i \in 1..(n - 1)
      <4>1. /\ got[i].round \in 1..(round - 1) /\ Waits(cfg[got[i].round])
            /\ Satisfied(cfg[got[i].round], got[i].msg)
        BY <1>5, <3>2 DEF RoundsDone
      <4> QED
        BY <1>1, <1>2, <1>5, <3>2, <4>1
    <3> QED
      BY <1>5, <3>1, <3>2
  <2>3. ASSUME NEW i \in 1..(round' - 1), Waits(cfg'[i])
        PROVE  \E j \in DOMAIN got' : got'[j].round = i
    <3>1. CASE i = round
      <4>1. got'[n].round = i
        BY <1>5, <3>1
      <4> QED
        BY <1>5, <4>1
    <3>2. CASE i \in 1..(round - 1)
      <4>1. PICK j \in DOMAIN got : got[j].round = i
        BY <1>1, <2>3, <3>2 DEF RoundsDone
      <4> QED
        BY <1>5, <4>1
    <3> QED
      BY <1>1, <1>2, <3>1, <3>2
  <2>4. ASSUME NEW i \in DOMAIN got', NEW j \in DOMAIN got', i < j
        PROVE  got'[i].round < got'[j].round
    <3>1. i \in 1..(n - 1) /\ got[i].round \in 1..(round - 1)
      BY <1>5, <2>4 DEF RoundsDone
    <3>2. CASE j = n
      BY <1>2, <1>5, <3>1, <3>2
    <3>3. CASE j \in 1..(n - 1)
      BY <1>5, <2>4, <3>1, <3>3 DEF RoundsDone
    <3> QED
      BY <1>5, <3>2, <3>3
  <2> QED
    BY <2>1, <2>2, <2>3, <2>4 DEF RoundsDone
<1>7. ClosedByContext'
  BY <1>1 DEF ClosedByContext, Unread, Done
<1>8. VerdictSoFar'
  BY <1>1 DEF VerdictSoFar, Ended
<1> QED
  BY <1>6, <1>7, <1>8 DEF CourseInv

LEMMA CourseStep == AnswerInv /\ CourseInv /\ [Next]_vars => CourseInv'
<1> SUFFICES ASSUME AnswerInv, CourseInv, [Next]_vars PROVE CourseInv'
  OBVIOUS
<1>0. RunType /\ RunType' /\ RoundsDone /\ ClosedByContext /\ VerdictSoFar
  BY RunTypeStep DEF CourseInv
<1>1. CASE DialFails \/ HandshakeFails \/ RecvFails \/ Kicked
  <2>1. /\ UNCHANGED <<cfg, round, got, ctx, hungUp>> /\ pc' \in Ended
        /\ pc' \notin Unread => pc \notin Unread /\ open' = open
    BY <1>1 DEF DialFails, HandshakeFails, RecvFails, Kicked, Ended, Unread, server
  <2>2. /\ verdict'.status = TimeoutOr("failed")
        /\ verdict'.cause = "recv" => RecvFails
    BY <1>1 DEF DialFails, HandshakeFails, RecvFails, Kicked, Ends
  <2>3. /\ verdict'.status # "success"
        /\ verdict'.status = "timeout" => ctx = "deadline"
        /\ verdict'.status = "failed" => ctx # "deadline"
    BY <2>2 DEF TimeoutOr
  <2>4. verdict' = [status |-> "failed", cause |-> "recv"] =>
            hungUp \/ ctx = "cancelled"
    <3> SUFFICES ASSUME verdict' = [status |-> "failed", cause |-> "recv"]
                 PROVE  hungUp \/ ctx = "cancelled"
      OBVIOUS
    <3>1. RecvFails /\ ctx # "deadline"
      BY <2>2, <2>3
    <3> QED
      BY <1>0, <3>1 DEF RecvFails, ReadError, ClosedByContext, Unread, Done, RunType
  <2> QED
    BY <1>0, <2>1, <2>3, <2>4, CourseEnds
<1>2. CASE SendFails \/ DecodePanics \/ AssertionFails
  <2>1. /\ UNCHANGED <<cfg, round, got, ctx, hungUp, open>> /\ pc' = "closing"
        /\ pc \notin Unread
    BY <1>2 DEF SendFails, DecodePanics, AssertionFails, Unread, server
  <2>2. /\ verdict'.status \in {"failed", "panic"}
        /\ verdict'.cause # "recv"
    BY <1>2 DEF SendFails, DecodePanics, AssertionFails, Ends
  <2> QED
    BY <1>0, <2>1, <2>2, CourseEnds DEF Ended, Unread
<1>3. CASE AllRoundsDone
  <2>1. /\ UNCHANGED <<cfg, round, got, verdict, ctx, open, hungUp>>
        /\ pc = "round" /\ pc' = "closing" /\ round > Len(cfg)
    BY <1>3 DEF AllRoundsDone, server
  <2>2. round = Len(cfg) + 1 /\ ~Asking'
    BY <1>0, <2>1 DEF RoundsDone, RunType, Asking
  <2>3. RoundsDone'
    BY <1>0, <2>1, <2>2 DEF RoundsDone, Satisfied
  <2>4. ClosedByContext'
    BY <1>0, <2>1 DEF ClosedByContext, Unread, Done
  <2>5. VerdictSoFar'
    BY <1>0, <2>1, <2>2 DEF VerdictSoFar, Ended
  <2> QED
    BY <1>0, <2>3, <2>4, <2>5 DEF CourseInv
<1>4. CASE Connect
  <2>1. /\ UNCHANGED <<cfg, round, got, verdict, ctx, hungUp>> /\ open' = TRUE
        /\ pc = "dial" /\ pc' = "handshake"
    BY <1>4 DEF Connect, server
  <2>2. RoundsDone' /\ ClosedByContext' /\ VerdictSoFar'
    BY <1>0, <2>1
    DEF RoundsDone, Satisfied, Asking, ClosedByContext, VerdictSoFar, Ended
  <2> QED
    BY <1>0, <2>2 DEF CourseInv
<1>5. CASE \/ HandshakeRead \/ Connected \/ Sent \/ ReadFrame \/ NextPacket
           \/ EchoHeartbeat \/ Echoed \/ RecvReturns \/ Ignore
  <2>1. /\ UNCHANGED <<cfg, round, got, verdict, ctx, open, hungUp>>
        /\ Asking' => Asking
        /\ pc \notin Ended /\ pc' \notin Ended
        /\ pc \notin Unread /\ pc' \notin Unread
    BY <1>5
    DEF HandshakeRead, Connected, Sent, ReadFrame, NextPacket, EchoHeartbeat, Echoed,
        RecvReturns, Ignore, Asking, Ended, Unread, server
  <2> QED
    BY <1>0, <2>1, CourseFrame
<1>6. CASE DeferredClose \/ Return
  <2>1. /\ UNCHANGED <<cfg, round, got, verdict, hungUp>>
        /\ pc \in Ended /\ pc' \in Ended /\ pc' \in Unread
        /\ ctx' = ctx \/ ctx = "live"
    BY <1>6 DEF DeferredClose, Return, Ended, Unread, Done, server
  <2>2. ~Asking'
    BY <2>1 DEF Asking, Ended
  <2> QED
    BY <1>0, <2>1, <2>2, CourseFrame
<1>7. CASE \/ \E w \in Writers : LockWrite(w) \/ Write(w) \/ WriteFails(w)
           \/ Tick \/ BeatEnds \/ ContextEnds \/ Watch \/ ServerNext \/ Terminated
           \/ UNCHANGED vars
  <2>1. /\ UNCHANGED <<cfg, pc, round, got, verdict>>
        /\ ctx' = ctx \/ ctx = "live"
        /\ hungUp => hungUp'
        /\ ~open' => ~open \/ Done
    BY <1>7
    DEF LockWrite, Write, WriteFails, EndWrite, Tick, BeatEnds, ContextEnds, Watch,
        ServerNext, ServerAnswers, ServerSends, ServerHangsUp, Terminated, Done,
        step, server, vars
  <2>2. Asking' => Asking
    BY <2>1 DEF Asking
  <2> QED
    BY <1>0, <2>1, <2>2, CourseFrame
<1> QED
  BY <1>0, <1>1, <1>2, <1>3, <1>4, <1>5, <1>6, <1>7, CourseStarts, CourseTakes
  DEF Next, StepNext

LEMMA CourseHolds == Spec => [](AnswerInv /\ CourseInv)
  BY AnswerInit, AnswerStep, CourseInit, CourseStep, PTL DEF Spec

(* Every variable of Pomelo stays in its type, for any configuration, any  *)
(* window and any server: the connection never holds more than it may, and *)
(* no index runs past the rounds of the step.                              *)
THEOREM TypeCorrect == Spec => []TypeOK
  BY CourseHolds, CourseTypes, PTL

(* executePomeloWS: a step that says success has satisfied each of its     *)
(* rounds, in order; one that says timeout had its deadline; and a read    *)
(* that the watcher's Close interrupted at the deadline is never put down  *)
(* as a failure.                                                           *)
THEOREM VerdictTrueHolds == Spec => []VerdictTrue
  BY CourseHolds, CourseVerdict, PTL

-----------------------------------------------------------------------------
(***************************************************************************)
(* What Pomelo sends, as bytes.                                            *)
(***************************************************************************)
LEMMA Limits ==
    /\ \A n : IsID(n) => n \in Nat /\ n < IDLimit
    /\ \A n : IsLength(n) => n \in Nat /\ n < BodyLimit
<1>1. ASSUME NEW n, IsID(n) PROVE n \in Nat /\ n < IDLimit
  BY <1>1, SMT DEF IsID, IDLimit
<1>2. ASSUME NEW n, IsLength(n) PROVE n \in Nat /\ n < BodyLimit
  BY <1>2, SMT DEF IsLength, BodyLimit
<1> QED
  BY <1>1, <1>2

LEMMA BodyLimitIsBig == BodyLimit \in Nat /\ BodyLimit > 2000
  BY SMT DEF BodyLimit

(* No two kinds, types or bodies have the same code.                       *)
LEMMA Names ==
    /\ \A k \in Kinds : PackageCode[k] \in 1..5 /\ NameOf(PackageCode, PackageCode[k]) = k
    /\ \A t \in Types \ {"none"} :
          MessageCode[t] \in 0..3 /\ NameOf(MessageCode, MessageCode[t]) = t
    /\ \A b \in Bodies : NameOf(BodyBytes, BodyBytes[b]) = b
<1>1. ASSUME NEW k \in Kinds
      PROVE  PackageCode[k] \in 1..5 /\ NameOf(PackageCode, PackageCode[k]) = k
  BY DEF Kinds, PackageCode, NameOf
<1>2. ASSUME NEW t \in Types \ {"none"}
      PROVE  MessageCode[t] \in 0..3 /\ NameOf(MessageCode, MessageCode[t]) = t
  BY DEF Types, MessageCode, NameOf
<1>3. ASSUME NEW b \in Bodies PROVE NameOf(BodyBytes, BodyBytes[b]) = b
  <2>1. BodyBytes["ok"][1] = 123 /\ BodyBytes["off"][1] = 0
    BY DEF BodyBytes
  <2>2. BodyBytes["ok"] # <<>> /\ BodyBytes["off"] # <<>> /\ BodyBytes["empty"] = <<>>
    BY DEF BodyBytes
  <2>3. DOMAIN BodyBytes = Bodies
    BY DEF BodyBytes, Bodies
  <2> QED
    BY <2>1, <2>2, <2>3 DEF Bodies, NameOf
<1> QED
  BY <1>1, <1>2, <1>3

LEMMA BodyIsShort ==
    ASSUME NEW b \in Bodies
    PROVE  /\ BodyBytes[b] \in ByteSeqs /\ Len(BodyBytes[b]) < BodyLimit - 1000
           /\ BodyBytes[b] = <<>> <=> b = "empty"
<1>1. /\ BodyBytes["ok"] = <<123, 125>> /\ BodyBytes["off"] = <<0>>
      /\ BodyBytes["empty"] = <<>>
  BY DEF BodyBytes
<1>2. /\ <<123, 125>> \in ByteSeqs /\ Len(<<123, 125>>) = 2
      /\ <<0>> \in ByteSeqs /\ Len(<<0>>) = 1
      /\ <<>> \in ByteSeqs /\ Len(<<>>) = 0
  BY DEF ByteSeqs, Byte
<1>3. <<123, 125>> # <<>> /\ <<0>> # <<>>
  BY <1>2
<1>4. b = "ok" \/ b = "off" \/ b = "empty"
  BY DEF Bodies
<1>5. Len(BodyBytes[b]) \in 0..2 /\ BodyBytes[b] \in ByteSeqs
  BY <1>1, <1>2, <1>4
<1> QED
  <2>1. Len(BodyBytes[b]) < BodyLimit - 1000
    <3>1. PICK n \in 0..2 : n = Len(BodyBytes[b])
      BY <1>5
    <3>2. n < BodyLimit - 1000
      BY BodyLimitIsBig
    <3> QED
      BY <3>1, <3>2
  <2> QED
    BY <1>1, <1>3, <1>4, <1>5, <2>1

(* The bytes of a message.                                                 *)
LEMMA MessageBytes ==
    ASSUME NEW id \in Nat, id < IDLimit, NEW typ \in 0..3,
           NEW route \in ByteSeqs, Len(route) < RouteLimit,
           NEW body \in ByteSeqs, Len(body) < BodyLimit - 1000
    PROVE  /\ EncodeMessage(id, typ, route, body) \in ByteSeqs
           /\ Len(EncodeMessage(id, typ, route, body)) < BodyLimit
<1> DEFINE t == <<typ * 2>>
           I == IDPart(typ, id)
           R == RoutePart(typ, route)
<1>1. t \in ByteSeqs /\ Len(t) = 1
  BY DEF ByteSeqs, Byte
<1>2. PICK data : data = t \o I \o R \o body
  OBVIOUS
<1>3. EncodeMessage(id, typ, route, body) = data
  BY <1>2 DEF EncodeMessage, IDPart, RoutePart
<1>4. I \in ByteSeqs /\ Len(I) \in 0..5
  <2>1. CASE HasID(typ)
    <3>1. I = EncodeVarInt(id)
      BY <2>1 DEF IDPart
    <3>2. PICK i, n : i = EncodeVarInt(id) /\ n = VarIntLen(id)
      OBVIOUS
    <3>3. i \in ByteSeqs /\ Len(i) = n /\ n \in 1..5
      BY <3>2, IDBytes
    <3> QED
      BY <3>1, <3>2, <3>3
  <2>2. CASE ~HasID(typ)
    BY <2>2 DEF IDPart, ByteSeqs
  <2> QED
    BY <2>1, <2>2
<1>5. R \in ByteSeqs /\ Len(R) \in 0..RouteLimit
  <2>1. CASE HasRoute(typ)
    <3>1. R \in ByteSeqs /\ Len(R) = 1 + Len(route)
      BY <2>1, RoutePartBytes DEF RoutePart
    <3>2. PICK n : n = Len(route)
      OBVIOUS
    <3>3. n \in Nat /\ n < 256
      BY <3>2, Elements DEF RouteLimit
    <3>4. 1 + n \in 0..256
      BY <3>3
    <3>5. Len(R) \in 0..256
      BY <3>1, <3>2, <3>4
    <3> QED
      BY <3>1, <3>5 DEF RouteLimit
  <2>2. CASE ~HasRoute(typ)
    BY <2>2 DEF RoutePart, ByteSeqs, RouteLimit
  <2> QED
    BY <2>1, <2>2
<1> HIDE DEF t, I, R
<1>6. data \in ByteSeqs /\ Len(data) = 1 + Len(I) + Len(R) + Len(body)
  BY <1>1, <1>2, <1>4, <1>5, FourParts DEF InARow
<1> QED
  <2>1. Len(body) \in Nat /\ Len(I) \in 0..5 /\ Len(R) \in 0..256
    BY <1>4, <1>5, Elements DEF RouteLimit
  <2>2. PICK i, r, n : i = Len(I) /\ r = Len(R) /\ n = Len(body)
    OBVIOUS
  <2>3. 1 + i + r + n < BodyLimit
    <3>1. i \in 0..5 /\ r \in 0..256 /\ n \in Nat /\ n < BodyLimit - 1000
      BY <2>1, <2>2
    <3> QED
      BY <3>1, BodyLimitIsBig
  <2>4. Len(data) < BodyLimit
    BY <1>6, <2>2, <2>3
  <2> QED
    BY <1>3, <1>6, <2>4

-----------------------------------------------------------------------------
(* A packet with a body and a type of its kind, whose id, counted from     *)
(* base, is a uint32.                                                      *)
Fits(base, x) ==
    /\ x.kind \in Kinds /\ x.body \in Bodies
    /\ WireID(base, x) \in Nat /\ WireID(base, x) < IDLimit
    /\ x.kind = "data" => x.type \in Types \ {"none"}
    /\ x.type \notin {"request", "response"} => x.id = 0

(* The packet on the connection.                                           *)
Packed(base, x) ==
    [type |-> PackageCode[x.kind],
     body |-> IF x.kind = "data" /\ x.body # "empty"
              THEN EncodeMessage(WireID(base, x), MessageCode[x.type], RouteBytes,
                                 BodyBytes[x.body])
              ELSE BodyBytes[x.body]]

LEMMA RouteIsShort == RouteBytes \in ByteSeqs /\ Len(RouteBytes) < RouteLimit
  BY DEF RouteBytes, ByteSeqs, Byte, RouteLimit

LEMMA PackedBytes ==
    ASSUME NEW base, NEW x, Fits(base, x)
    PROVE  /\ Packed(base, x) \in WirePackets
           /\ EncodePacket(Packed(base, x).type, Packed(base, x).body) = Bytes(base, x)
<1>1. PackageCode[x.kind] \in Byte
  BY Names DEF Fits, Byte
<1>2. BodyBytes[x.body] \in ByteSeqs /\ Len(BodyBytes[x.body]) < BodyLimit - 1000
  BY BodyIsShort DEF Fits
<1>3. /\ Packed(base, x).body \in ByteSeqs
      /\ Len(Packed(base, x).body) < BodyLimit
  <2>1. CASE x.kind = "data" /\ x.body # "empty"
    <3>1. PICK e : e = EncodeMessage(WireID(base, x), MessageCode[x.type], RouteBytes,
                                     BodyBytes[x.body])
      OBVIOUS
    <3>2. MessageCode[x.type] \in 0..3
      BY <2>1, Names DEF Fits
    <3>3. e \in ByteSeqs /\ Len(e) < BodyLimit
      BY <1>2, <3>1, <3>2, RouteIsShort, MessageBytes DEF Fits
    <3> QED
      BY <2>1, <3>1, <3>3 DEF Packed
  <2>2. CASE ~(x.kind = "data" /\ x.body # "empty")
    <3>1. Packed(base, x).body = BodyBytes[x.body]
      BY <2>2 DEF Packed
    <3> QED
      BY <1>2, <3>1, Elements, BodyLimitIsBig
  <2> QED
    BY <2>1, <2>2
<1>4. Packed(base, x) = [type |-> PackageCode[x.kind], body |-> Packed(base, x).body]
  BY DEF Packed
<1>5. Packed(base, x) \in WirePackets
  BY <1>1, <1>3, <1>4 DEF WirePackets
<1>6. EncodePacket(Packed(base, x).type, Packed(base, x).body) = Bytes(base, x)
  BY DEF Packed, Bytes
<1> QED
  BY <1>5, <1>6

(* The other end sees what was meant.                                      *)
LEMMA PackedIsSeen ==
    ASSUME NEW base, NEW x, Fits(base, x)
    PROVE  Seen(Packed(base, x)) = Meant(base, x)
<1>1. /\ Packed(base, x).type = PackageCode[x.kind]
      /\ NameOf(PackageCode, Packed(base, x).type) = x.kind
      /\ NameOf(BodyBytes, BodyBytes[x.body]) = x.body
  BY Names DEF Fits, Packed
<1>2. CASE x.kind # "data"
  <2>1. Packed(base, x).body = BodyBytes[x.body]
    BY <1>2 DEF Packed
  <2> QED
    BY <1>1, <1>2, <2>1 DEF Seen, Meant
<1>3. CASE x.kind = "data" /\ x.body = "empty"
  <2>1. Packed(base, x).body = <<>>
    BY <1>3, BodyIsShort DEF Packed, Bodies
  <2>2. DecodeMessage(Packed(base, x).body) = Panic
    BY <2>1 DEF DecodeMessage
  <2> QED
    BY <1>1, <1>3, <2>2 DEF Seen, Meant
<1>4. CASE x.kind = "data" /\ x.body # "empty"
  <2>1. PICK id, typ, body : /\ id = WireID(base, x) /\ typ = MessageCode[x.type]
                             /\ body = BodyBytes[x.body]
    OBVIOUS
  <2>2. /\ typ \in 0..3 /\ NameOf(MessageCode, typ) = x.type
        /\ NameOf(BodyBytes, body) = x.body
    BY <1>1, <1>4, <2>1, Names DEF Fits
  <2>3. Packed(base, x).body = EncodeMessage(id, typ, RouteBytes, body)
    BY <1>4, <2>1 DEF Packed
  <2>4. DecodeMessage(Packed(base, x).body) = Message(id, typ, RouteBytes, body)
    BY <2>1, <2>2, <2>3, RouteIsShort, BodyIsShort, MessageReadsBack DEF Fits
  <2>5. PICK m : m = Message(id, typ, RouteBytes, body)
    OBVIOUS
  <2>6. m.type = typ /\ m.body = body /\ m.id = (IF HasID(typ) THEN id ELSE 0) /\ m # Panic
    <3>1. "id" \in DOMAIN m /\ "id" \notin DOMAIN Panic
      BY <2>5 DEF Message, Panic
    <3> QED
      BY <2>5, <3>1 DEF Message
  <2>7. m.id = id
    <3>1. x.type \in {"request", "response"} \/ id = 0
      BY <2>1 DEF Fits, WireID
    <3>2. x.type \in {"request", "response"} => HasID(typ)
      BY <2>1 DEF HasID, MessageCode
    <3> QED
      BY <2>6, <3>1, <3>2
  <2> QED
    BY <1>1, <1>4, <2>1, <2>2, <2>4, <2>5, <2>6, <2>7 DEF Seen, Meant
<1> QED
  BY <1>2, <1>3, <1>4

(* What is left of a packet that is cut off.                               *)
LEMMA CutOffIsShort ==
    ASSUME NEW tail \in {<<>>} \cup {SubSeq(CutOff, 1, n) : n \in 1..5}
    PROVE  CutShort(tail)
<1>1. CASE tail = <<>>
  BY <1>1 DEF CutShort, HasPacket, ByteSeqs
<1>2. ASSUME NEW n \in 1..5, tail = SubSeq(CutOff, 1, n) PROVE CutShort(tail)
  <2>1. tail \in ByteSeqs /\ Len(tail) = n /\ \A i \in 1..n : tail[i] = CutOff[i]
    <3>1. CutOff \in ByteSeqs /\ Len(CutOff) = 5
      BY DEF CutOff, ByteSeqs, Byte
    <3>2. PICK c \in ByteSeqs : c = CutOff /\ Len(c) = 5
      BY <3>1
    <3>3. tail = SubSeq(c, 1, n) /\ c \in Seq(Byte) /\ n <= 5
      BY <1>2, <3>2 DEF ByteSeqs
    <3>4. tail \in Seq(Byte) /\ Len(tail) = n /\ \A i \in 1..n : tail[i] = c[i]
      BY <3>2, <3>3
    <3> QED
      BY <3>2, <3>4 DEF ByteSeqs
  <2>2. CASE n < 4
    BY <2>1, <2>2 DEF CutShort, HasPacket
  <2>3. CASE n \in {4, 5}
    <3>1. tail[1 + 1] = 0 /\ tail[1 + 2] = 0 /\ tail[1 + 3] = 2
      BY <2>1, <2>3 DEF CutOff
    <3>2. PacketEnd(tail, 1) = 7
      BY <3>1 DEF PacketEnd, PacketLength
    <3> QED
      BY <2>1, <2>3, <3>2 DEF CutShort, HasPacket
  <2> QED
    BY <2>2, <2>3
<1> QED
  BY <1>1, <1>2

(* A frame arrives packet by packet, whatever is cut off behind it.        *)
LEMMA FrameArrives ==
    ASSUME NEW base, NEW S, NEW f \in Seq(S), \A i \in DOMAIN f : Fits(base, f[i])
    PROVE  Arrives(base, f)
<1> DEFINE n == Len(f)
<1>1. PICK packets : packets = [i \in 1..n |-> Packed(base, f[i])]
  OBVIOUS
<1>2. n \in Nat /\ DOMAIN f = 1..n
  OBVIOUS
<1>3. packets \in Seq(WirePackets) /\ Len(packets) = n
      /\ \A i \in 1..n : packets[i] = Packed(base, f[i])
  BY <1>1, <1>2, PackedBytes
<1>4. Encoded(packets) = [i \in DOMAIN f |-> Bytes(base, f[i])]
  BY <1>2, <1>3, PackedBytes DEF Encoded
<1>5. [i \in DOMAIN packets |-> Seen(packets[i])] = [i \in DOMAIN f |-> Meant(base, f[i])]
  BY <1>2, <1>3, PackedIsSeen
<1>6. ASSUME NEW tail \in {<<>>} \cup {SubSeq(CutOff, 1, k) : k \in 1..5}
      PROVE  DecodePackets(FlattenSeq(Encoded(packets)) \o tail) = packets
  BY <1>3, CutOffIsShort, FrameReadsBack
<1> QED
  BY <1>4, <1>5, <1>6 DEF Arrives

(* Bodies and routes that are as long as they may be.                      *)
LEMMA LongOnes == LongOnesArrive
<1>1. ASSUME NEW n \in Nat PROVE Filled(n) \in ByteSeqs /\ Len(Filled(n)) = n
  BY DEF Filled, ByteSeqs, Byte
<1>2. ASSUME NEW n \in Lengths
      PROVE  DecodePackets(EncodePacket(4, Filled(n))) = <<[type |-> 4, body |-> Filled(n)]>>
  <2>1. n \in Nat /\ n < BodyLimit
    BY WireAssumption, Limits
  <2>2. PICK x : x = [type |-> 4, body |-> Filled(n)]
    OBVIOUS
  <2>3. PICK packets : packets = <<x>>
    OBVIOUS
  <2>4. x \in WirePackets
    BY <1>1, <2>1, <2>2 DEF WirePackets, Byte
  <2>5. packets \in Seq(WirePackets) /\ Len(packets) = 1 /\ packets[1] = x
    BY <2>3, <2>4
  <2>6. PICK e : e = EncodePacket(4, Filled(n))
    OBVIOUS
  <2>7. e \in ByteSeqs
    BY <1>1, <2>1, <2>6, EncodedBytes DEF Byte
  <2>8. Encoded(packets) = <<e>>
    BY <2>2, <2>5, <2>6 DEF Encoded
  <2>9. FlattenSeq(<<e>>) \o <<>> = e
    <3>1. PICK s : s = <<e>>
      OBVIOUS
    <3>2. s \in Seq(ByteSeqs) /\ Len(s) = 1 /\ s[1] = e /\ s # <<>>
      BY <2>7, <3>1
    <3>3. FlattenSeq(s) = e
      BY <3>2, Flattened DEF JoinsUp
    <3> QED
      BY <2>7, <3>1, <3>3 DEF ByteSeqs
  <2>10. CutShort(<<>>)
    BY CutOffIsShort
  <2>11. DecodePackets(FlattenSeq(Encoded(packets)) \o <<>>) = packets
    BY <2>5, <2>10, FrameReadsBack
  <2> QED
    BY <2>2, <2>3, <2>6, <2>8, <2>9, <2>11
<1>3. ASSUME NEW id \in IDs, NEW typ \in 0..3, NEW n \in {k \in Lengths : k < 256}
      PROVE  DecodeMessage(EncodeMessage(id, typ, Filled(n), <<128>>))
                 = Message(id, typ, Filled(n), <<128>>)
  <2>1. n \in Nat /\ n < RouteLimit
    BY WireAssumption, Limits DEF RouteLimit
  <2>2. id \in Nat /\ id < IDLimit
    BY WireAssumption, Limits
  <2>3. <<128>> \in ByteSeqs
    BY DEF ByteSeqs, Byte
  <2> QED
    BY <1>1, <2>1, <2>2, <2>3, MessageReadsBack
<1> QED
  BY <1>2, <1>3 DEF LongOnesArrive

-----------------------------------------------------------------------------
(***************************************************************************)
(* The client does not come to the end of its ids.                         *)
(***************************************************************************)
BeforeSend == {"dial", "handshake", "acked", "round"}

(* A round takes one id at most, and takes it when it begins.              *)
IDInv ==
    /\ cfg \in Configs
    /\ nextID <= Len(cfg)
    /\ pc \in BeforeSend => nextID < round
    /\ Asking => nextID <= round

LEMMA IDInit == Init => IDInv
<1> SUFFICES ASSUME Init PROVE IDInv
  OBVIOUS
<1>1. cfg \in Configs /\ nextID = 0 /\ round = 1 /\ pc = "dial"
  BY DEF Init
<1>2. Len(cfg) \in Nat
  BY <1>1, ConfigAssumption
<1> QED
  BY <1>1, <1>2 DEF IDInv, BeforeSend, Asking

LEMMA IDStep == AnswerInv /\ CourseInv /\ IDInv /\ [Next]_vars => IDInv'
<1> SUFFICES ASSUME AnswerInv, CourseInv, IDInv, [Next]_vars PROVE IDInv'
  OBVIOUS
<1>0. /\ nextID \in Nat /\ round \in Nat /\ Len(cfg) \in Nat
      /\ Asking => round <= Len(cfg)
  BY DEF AnswerInv, AnswerType, CourseInv, RunType, RoundsDone
<1>1. ASSUME UNCHANGED <<cfg, round, nextID>>,
             pc' \in BeforeSend => pc \in BeforeSend,
             Asking' => Asking \/ pc \in BeforeSend
      PROVE  IDInv'
  BY <1>0, <1>1 DEF IDInv
<1>2. CASE SkipRound \/ RoundDone
  <2>1. /\ UNCHANGED <<cfg, nextID>> /\ round' = round + 1 /\ pc' = "round"
        /\ pc = "round" \/ Asking
    BY <1>2 DEF SkipRound, RoundDone, Asking
  <2> QED
    BY <1>0, <2>1 DEF IDInv, BeforeSend, Asking
<1>3. CASE SendRound
  <2>1. /\ UNCHANGED <<cfg, round>> /\ nextID' = nextID + 1 /\ pc = "round"
        /\ pc' = "sent" /\ round <= Len(cfg)
    BY <1>3 DEF SendRound
  <2> QED
    BY <1>0, <2>1 DEF IDInv, BeforeSend, Asking
<1>4. CASE \/ DialFails \/ Connect \/ HandshakeRead \/ HandshakeFails \/ Connected
           \/ ListenRound \/ Sent \/ SendFails
           \/ ReadFrame \/ RecvFails \/ NextPacket \/ EchoHeartbeat \/ Echoed
           \/ Kicked \/ DecodePanics \/ RecvReturns
           \/ Ignore \/ AssertionFails \/ AllRoundsDone
           \/ DeferredClose \/ Return
  <2>1. /\ UNCHANGED <<cfg, round, nextID>>
        /\ pc' \in BeforeSend => pc \in BeforeSend
        /\ Asking' => Asking \/ pc \in BeforeSend
    BY <1>4
    DEF DialFails, Connect, HandshakeRead, HandshakeFails, Connected, ListenRound,
        Sent, SendFails, ReadFrame, RecvFails, NextPacket, EchoHeartbeat, Echoed,
        Kicked, DecodePanics, RecvReturns, Ignore, AssertionFails, AllRoundsDone,
        DeferredClose, Return, BeforeSend, Asking
  <2> QED
    BY <1>1, <2>1
<1>5. CASE \/ \E w \in Writers : LockWrite(w) \/ Write(w) \/ WriteFails(w)
           \/ Tick \/ BeatEnds \/ Watch \/ ContextEnds \/ ServerNext \/ Terminated
           \/ UNCHANGED vars
  <2>1. UNCHANGED <<cfg, pc, round, nextID>>
    BY <1>5
    DEF LockWrite, Write, WriteFails, EndWrite, Tick, BeatEnds, Watch, ContextEnds,
        ServerNext, ServerAnswers, ServerSends, ServerHangsUp, Terminated, step, vars
  <2>2. Asking' => Asking
    BY <2>1 DEF Asking
  <2> QED
    BY <1>1, <2>1, <2>2
<1> QED
  BY <1>2, <1>3, <1>4, <1>5 DEF Next, StepNext

LEMMA IDHolds == Spec => [](AnswerInv /\ IDInv)
<1>1. Init => AnswerInv /\ CourseInv /\ IDInv
  BY AnswerInit, CourseInit, IDInit
<1>2. AnswerInv /\ CourseInv /\ IDInv /\ [Next]_vars => (AnswerInv /\ CourseInv /\ IDInv)'
  BY AnswerStep, CourseStep, IDStep
<1> QED
  BY <1>1, <1>2, PTL DEF Spec

(* What is on its way has room for its id.                                 *)
LEMMA Sendable ==
    ASSUME AnswerInv, IDInv, NEW base \in Bases, NEW x, ByClient(x) \/ ByServer(x), Mine(x)
    PROVE  Fits(base, x)
<1>1. /\ x.kind \in Kinds /\ x.body \in Bodies /\ x.id \in Nat
      /\ x.kind = "data" => x.type \in Types \ {"none"}
      /\ x.type \notin {"request", "response"} => x.id = 0
  BY DEF ByClient, ByServer, Packets, Types
<1>2. /\ nextID \in Nat /\ nextID <= Len(cfg) /\ Len(cfg) \in Nat
      /\ base \in Nat /\ IsID(base + Len(cfg))
  BY WireAssumption, ConfigAssumption DEF AnswerInv, AnswerType, IDInv
<1>3. PICK n \in Nat : n = base + Len(cfg) /\ n < IDLimit
  BY <1>2, Limits
<1>4. WireID(base, x) \in Nat /\ WireID(base, x) <= n
  <2>1. CASE x.type \in {"request", "response"}
    <3>1. x.id \in 1..nextID
      BY <2>1 DEF Mine
    <3> QED
      BY <1>1, <1>2, <1>3, <2>1, <3>1 DEF WireID
  <2>2. CASE x.type \notin {"request", "response"}
    BY <1>1, <1>2, <1>3, <2>2 DEF WireID
  <2> QED
    BY <2>1, <2>2
<1>5. IDLimit \in Nat
  BY SMT DEF IDLimit
<1>6. WireID(base, x) < IDLimit
  BY <1>3, <1>4, <1>5
<1> QED
  BY <1>1, <1>4, <1>6 DEF Fits

(* packet.go and message.go under client.go and a server that speaks the   *)
(* protocol: whatever the two have on their way, in frames of any number   *)
(* of packets and at any point of a step's course, the other end reads     *)
(* from the bytes what was meant, as long as the client has ids left.      *)
THEOREM BytesArriveHolds == Spec => []BytesArrive
<1>1. AnswerInv /\ IDInv => BytesArrive
  <2> SUFFICES ASSUME AnswerInv, IDInv, NEW base \in Bases
               PROVE  /\ \A i \in DOMAIN down : Arrives(base, down[i])
                      /\ \A i \in DOMAIN up : Arrives(base, <<up[i]>>)
    BY LongOnes DEF BytesArrive
  <2>1. ASSUME NEW i \in DOMAIN down PROVE Arrives(base, down[i])
    <3>1. PICK f \in Seq(Packets) : f = down[i]
      BY <2>1 DEF AnswerInv, AnswerType
    <3>2. \A j \in DOMAIN f : ByServer(f[j]) /\ Mine(f[j])
      BY <2>1, <3>1 DEF AnswerInv, DownRight
    <3>3. \A j \in DOMAIN f : Fits(base, f[j])
      BY <3>2, Sendable
    <3> QED
      BY <3>1, <3>3, FrameArrives
  <2>2. ASSUME NEW i \in DOMAIN up PROVE Arrives(base, <<up[i]>>)
    <3>1. PICK x \in Packets : x = up[i]
      BY <2>2 DEF AnswerInv, AnswerType
    <3>2. Fits(base, x)
      BY <2>2, <3>1, Sendable DEF AnswerInv, UpRight
    <3>3. PICK f : f = <<x>>
      OBVIOUS
    <3>4. f \in Seq(Packets) /\ \A j \in DOMAIN f : Fits(base, f[j])
      BY <3>1, <3>2, <3>3
    <3> QED
      BY <3>1, <3>3, <3>4, FrameArrives
  <2> QED
    BY <2>1, <2>2
<1> QED
  BY <1>1, IDHolds, PTL
=============================================================================
