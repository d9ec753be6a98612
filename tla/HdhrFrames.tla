----------------------------- MODULE HdhrFrames -----------------------------
(***************************************************************************)
(* The datagrams of HDHomeRun discovery (internal/hdhr/discovery.go):      *)
(* frames with a type, a length and a checksum around a payload of         *)
(* tag-length-value fields.  Bytes are numbers, a 32-bit number is its     *)
(* four bytes, a text the sequence of its bytes.                           *)
(*                                                                         *)
(* A packet is its bytes up to the checksum and the checksum, which stands *)
(* for the very bytes it was computed over: CRC-32 is taken to tell any    *)
(* two contents apart.                                                     *)
(***************************************************************************)
EXTENDS Integers, Sequences

CONSTANT Malformed  \* what the code's ok = false stands for

Byte  == 0 .. 255
Bytes == Seq(Byte)
U32   == [1 .. 4 -> Byte]

maxPacketSize == 1460
packetDiscoverRequest == 2
packetDiscoverReply   == 3
tagDeviceType == 1
tagDeviceID   == 2
tagTunerCount == 16
tagLineupURL  == 39
tagBaseURL    == 42
deviceTypeTuner == <<0, 0, 0, 1>>
wildcard        == <<255, 255, 255, 255>>  \* of device types and of identifiers
defaultDeviceID == <<18, 52, 86, 121>>     \* 0x12345679

ASSUME MalformedAssumption ==
    /\ Malformed \notin [length : Nat, rest : Bytes]
    /\ Malformed \notin [type : Nat, payload : Bytes]
    /\ Malformed \notin [tag : Byte, value : Bytes, next : Nat]
    /\ Malformed \notin Seq([tag : Byte, value : Bytes])
    /\ Malformed \notin [deviceType : U32, deviceID : U32]
    /\ Malformed \notin [head : Bytes, crc : Bytes]

-----------------------------------------------------------------------------
(* Lengths: seven bits in one byte, fifteen in two.                        *)
VarLengthWide(length) ==  \* mutant: the second byte starts at bit 8
    IF length <= 127
    THEN <<length>>
    ELSE <<(length % 128) + 128, (length \div 256) % 256>>

LengthLimit == 128 * 256  \* the first length that two such bytes cannot hold

VarLength(length) ==
    IF length <= 127
    THEN <<length>>
    ELSE <<(length % 128) + 128, (length \div 128) % 256>>

ReadVarLength(payload) ==
    IF payload = <<>> \/ (payload[1] >= 128 /\ Len(payload) < 2)
    THEN Malformed
    ELSE IF payload[1] < 128
    THEN [length |-> payload[1], rest |-> SubSeq(payload, 2, Len(payload))]
    ELSE [length |-> (payload[1] % 128) + payload[2] * 128,
          rest   |-> SubSeq(payload, 3, Len(payload))]

(* appendU32TLV, appendU8TLV and appendStringTLV.                          *)
Tlv(tag, value) == <<tag>> \o VarLength(Len(value)) \o value

(* One turn of the loop of ParseDiscoveryRequest: the field that begins at *)
(* i, and where the next one does.                                         *)
Field(payload, i) ==
    LET read == ReadVarLength(SubSeq(payload, i + 1, Len(payload)))
    IN  IF read = Malformed THEN Malformed
        ELSE IF Len(read.rest) < read.length THEN Malformed
        ELSE [tag   |-> payload[i],
              value |-> SubSeq(read.rest, 1, read.length),
              next  |-> Len(payload) + 1 - (Len(read.rest) - read.length)]

(* The loop: the fields of a payload.                                      *)
Fields(payload) ==
    LET from[i \in 1 .. Len(payload) + 1] ==
          IF i = Len(payload) + 1 THEN <<>>
          ELSE LET field == Field(payload, i)
               IN  IF field = Malformed THEN Malformed
                   ELSE IF from[field.next] = Malformed THEN Malformed
                   ELSE <<[tag |-> field.tag, value |-> field.value]>>
                        \o from[field.next]
    IN  from[1]

-----------------------------------------------------------------------------
(* Frames.                                                                 *)
BigEndian(n) == <<(n \div 256) % 256, n % 256>>

FrameLimit == 256 * 256

SealFrame(frameType, payload) ==
    LET head == BigEndian(frameType) \o BigEndian(Len(payload)) \o payload
    IN  [head |-> head, crc |-> head]

(* What ReadFromUDP puts into a buffer of maxPacketSize bytes: the rest of *)
(* a longer datagram is lost, and its last four bytes there, which the     *)
(* reader takes for the checksum, are bytes of the payload or a piece of   *)
(* the checksum.                                                           *)
Fits(packet) == Len(packet.head) + 4 <= maxPacketSize
Received(packet) ==
    IF Fits(packet) THEN packet
    ELSE [head |-> SubSeq(packet.head, 1, maxPacketSize - 4), crc |-> <<>>]

OpenFrame(packet) ==
    LET h == packet.head
    IN  IF Len(h) < 4 \/ packet.crc # h \/ h[3] * 256 + h[4] # Len(h) - 4
        THEN Malformed
        ELSE [type |-> h[1] * 256 + h[2], payload |-> SubSeq(h, 5, Len(h))]

-----------------------------------------------------------------------------
(* A request asks for a type of device and an identifier; a field counts   *)
(* if it has four bytes, the last one wins, and a missing one asks for all.*)
Asked(fields, tag) ==
    LET I == {i \in DOMAIN fields : fields[i].tag = tag /\ Len(fields[i].value) = 4}
    IN  IF I = {} THEN wildcard
        ELSE fields[CHOOSE i \in I : \A j \in I : j <= i].value

ParseDiscoveryRequest(packet) ==
    LET frame == OpenFrame(packet)
    IN  IF frame = Malformed THEN Malformed
        ELSE IF frame.type # packetDiscoverRequest THEN Malformed
        ELSE LET fields == Fields(frame.payload)
             IN  IF fields = Malformed THEN Malformed
                 ELSE [deviceType |-> Asked(fields, tagDeviceType),
                       deviceID   |-> Asked(fields, tagDeviceID)]

(* A DeviceID as text: the values of its hexadecimal digits, 16 for any    *)
(* other character, without prefix and spaces.  Only texts of up to eight  *)
(* characters are considered: for them the code's second attempt, in       *)
(* decimal, fails whenever the first does.                                 *)
ParseDeviceID(text) ==
    IF text = <<>> \/ \E i \in DOMAIN text : text[i] = 16
    THEN defaultDeviceID
    ELSE LET digit(i) == IF i <= 8 - Len(text) THEN 0 ELSE text[i - (8 - Len(text))]
         IN  [i \in 1 .. 4 |-> digit(2 * i - 1) * 16 + digit(2 * i)]

Slash == 47
TrimRight(url) ==
    LET kept == {i \in DOMAIN url : url[i] # Slash}
    IN  IF kept = {} THEN <<>>
        ELSE SubSeq(url, 1, CHOOSE i \in kept : \A j \in kept : j <= i)

lineupPath == <<47, 108, 105, 110, 101, 117, 112, 46, 106, 115, 111, 110>>  \* /lineup.json

TypeExactly(asked, ours) ==  \* mutant: the wildcard type is forgotten
    /\ asked.deviceType = deviceTypeTuner
    /\ asked.deviceID \in {wildcard, ours}

Wanted(asked, ours) ==
    /\ asked.deviceType \in {wildcard, deviceTypeTuner}
    /\ asked.deviceID \in {wildcard, ours}

(* The answer to a packet, Malformed when there is none.                   *)
DiscoveryResponse(cfg, tuners, packet) ==
    LET asked == ParseDiscoveryRequest(packet)
        ours  == ParseDeviceID(cfg.DeviceID)
        base  == TrimRight(cfg.ServerURL)
        count == (IF tuners <= 0 THEN 2 ELSE tuners) % 256
    IN  IF asked = Malformed THEN Malformed
        ELSE IF ~Wanted(asked, ours) THEN Malformed
        ELSE SealFrame(packetDiscoverReply,
                       Tlv(tagDeviceType, deviceTypeTuner)
                       \o Tlv(tagDeviceID, ours)
                       \o Tlv(tagTunerCount, <<count>>)
                       \o Tlv(tagBaseURL, base)
                       \o Tlv(tagLineupURL, base \o lineupPath))
=============================================================================
