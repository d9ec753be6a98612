-------------------------- MODULE DiscoveryProofs --------------------------
(***************************************************************************)
(* Proofs about Discovery for any set of configurations, requests and      *)
(* tuner counts: its types, that nothing is sent before the proxy is       *)
(* active, and that every answer reads back as the settings in force while *)
(* it was made.                                                            *)
(***************************************************************************)
EXTENDS Discovery, HdhrFramesProofs, TLAPS

-----------------------------------------------------------------------------
(* The answer to an intact request.                                        *)

Texts(c) ==
    /\ c \in [DeviceID : Seq(0 .. 16), ServerURL : Bytes]
    /\ Len(c.DeviceID) <= 8 /\ Len(c.ServerURL) <= MaxText

(* A field of a four-byte number, of one byte and of a text.               *)
LEMMA CodedU32 ==
    ASSUME NEW tag \in Byte, NEW x \in U32
    PROVE  Coded(Tlv(tag, x), tag, x) /\ Len(Tlv(tag, x)) <= 7
<1>1. x \in Bytes /\ Len(x) = 4 /\ Len(x) < LengthLimit
      BY U32Bytes
<1>2. Coded(Tlv(tag, x), tag, x)
      BY <1>1 DEF Coded
<1>3. ASSUME NEW a, NEW v \in Bytes, Coded(a, tag, v), Len(v) = 4
      PROVE  Len(a) <= 7
  <2>1. Len(a) \in Len(v) + 2 .. Len(v) + 3
        BY <1>3, CodedBytes
  <2> DEFINE n == Len(v)
             m == Len(a)
  <2>2. m \in n + 2 .. n + 3 /\ n = 4
        BY <1>3, <2>1
  <2> HIDE DEF n, m
  <2>3. m <= 7
        BY <2>2
  <2>4. QED  BY <2>3 DEF m
<1>4. QED  BY <1>1, <1>2, <1>3

LEMMA CodedByte ==
    ASSUME NEW tag \in Byte, NEW n \in Byte
    PROVE  Coded(Tlv(tag, <<n>>), tag, <<n>>) /\ Len(Tlv(tag, <<n>>)) <= 4
<1>1. <<n>> \in Bytes /\ Len(<<n>>) = 1
      BY Single
<1>2. Coded(Tlv(tag, <<n>>), tag, <<n>>)
      BY <1>1 DEF Coded, LengthLimit
<1>3. Len(Tlv(tag, <<n>>)) \in Len(<<n>>) + 2 .. Len(<<n>>) + 3
      BY <1>2, CodedBytes
<1>4. QED  BY <1>1, <1>2, <1>3

LEMMA CodedText ==
    ASSUME NEW tag \in Byte, NEW text \in Bytes, Len(text) <= MaxText + 12
    PROVE  Coded(Tlv(tag, text), tag, text) /\ Len(Tlv(tag, text)) <= MaxText + 15
<1>1. Len(text) \in Nat
      BY LenProperties DEF Bytes
<1>2. Coded(Tlv(tag, text), tag, text)
      BY <1>1 DEF Coded, LengthLimit, MaxText
<1>3. Len(Tlv(tag, text)) \in Len(text) + 2 .. Len(text) + 3
      BY <1>2, CodedBytes
<1>4. QED  BY <1>1, <1>2, <1>3 DEF MaxText

LEMMA TagsAreBytes ==
    /\ tagDeviceType \in Byte /\ tagDeviceID \in Byte /\ tagTunerCount \in Byte
    /\ tagBaseURL \in Byte /\ tagLineupURL \in Byte /\ 127 \in Byte
BY DEF tagDeviceType, tagDeviceID, tagTunerCount, tagBaseURL, tagLineupURL, Byte

LEMMA LineupPathBytes == lineupPath \in Bytes /\ Len(lineupPath) = 12
BY DEF lineupPath, Bytes, Byte

(* The payload of an answer.                                               *)
Payload(c, t) ==
    Tlv(tagDeviceType, deviceTypeTuner)
    \o Tlv(tagDeviceID, ParseDeviceID(c.DeviceID))
    \o Tlv(tagTunerCount, <<(IF t <= 0 THEN 2 ELSE t) % 256>>)
    \o Tlv(tagBaseURL, TrimRight(c.ServerURL))
    \o Tlv(tagLineupURL, TrimRight(c.ServerURL) \o lineupPath)

LEMMA FiveLengths ==
    ASSUME NEW a \in Bytes, NEW b \in Bytes, NEW c \in Bytes, NEW d \in Bytes,
           NEW e \in Bytes
    PROVE  Len((((a \o b) \o c) \o d) \o e)
             = Len(a) + Len(b) + Len(c) + Len(d) + Len(e)
<1>1. a \o b \in Bytes /\ Len(a \o b) = Len(a) + Len(b)
      BY Concat
<1>2. (a \o b) \o c \in Bytes /\ Len((a \o b) \o c) = Len(a \o b) + Len(c)
      BY <1>1, Concat
<1>3. /\ ((a \o b) \o c) \o d \in Bytes
      /\ Len(((a \o b) \o c) \o d) = Len((a \o b) \o c) + Len(d)
      BY <1>2, Concat
<1>4. Len((((a \o b) \o c) \o d) \o e) = Len(((a \o b) \o c) \o d) + Len(e)
      BY <1>3, Concat
<1>5. QED  BY <1>1, <1>2, <1>3, <1>4

LEMMA PayloadReadsBack ==
    ASSUME NEW c, Texts(c), NEW t \in Int
    PROVE  /\ Payload(c, t) \in Bytes /\ Len(Payload(c, t)) < FrameLimit
           /\ t < 256 => Fields(Payload(c, t)) = Promised(c, t)
<1> DEFINE ours  == ParseDeviceID(c.DeviceID)
           base  == TrimRight(c.ServerURL)
           count == (IF t <= 0 THEN 2 ELSE t) % 256
           f1 == Tlv(tagDeviceType, deviceTypeTuner)
           f2 == Tlv(tagDeviceID, ours)
           f3 == Tlv(tagTunerCount, <<count>>)
           f4 == Tlv(tagBaseURL, base)
           f5 == Tlv(tagLineupURL, base \o lineupPath)
<1>1. count \in Byte /\ (t < 256 => count = IF t <= 0 THEN 2 ELSE t)
      BY DEF Byte
<1>2. deviceTypeTuner \in U32
      BY DEF deviceTypeTuner, U32, Byte
<1>3. ours \in U32
      BY ParseDeviceIDIsU32 DEF Texts
<1>4. base \in Bytes /\ Len(base) <= MaxText /\ Len(base) \in Nat
  <2>1. c.ServerURL \in Bytes /\ Len(c.ServerURL) <= MaxText /\ Len(c.ServerURL) \in Nat
        BY LenProperties DEF Texts, Bytes
  <2>2. TrimRight(c.ServerURL) \in Bytes
        /\ Len(TrimRight(c.ServerURL)) <= Len(c.ServerURL)
        BY <2>1, TrimRightBytes
  <2>3. Len(TrimRight(c.ServerURL)) \in Nat
        BY <2>2, LenProperties DEF Bytes
  <2>4. QED  BY <2>1, <2>2, <2>3 DEF MaxText
<1> HIDE DEF base
<1>5. /\ base \o lineupPath \in Bytes /\ Len(base \o lineupPath) <= MaxText + 12
      /\ Len(base) <= MaxText + 12
  <2>1. base \o lineupPath \in Bytes /\ Len(base \o lineupPath) = Len(base) + 12
        BY <1>4, LineupPathBytes, Concat
  <2>2. QED  BY <1>4, <2>1 DEF MaxText
<1> HIDE DEF count, ours
<1>6. /\ Coded(f1, tagDeviceType, deviceTypeTuner) /\ Len(f1) <= 7
      /\ Coded(f2, tagDeviceID, ours) /\ Len(f2) <= 7
      BY <1>2, <1>3, CodedU32, TagsAreBytes
<1>7. Coded(f3, tagTunerCount, <<count>>) /\ Len(f3) <= 4
      BY <1>1, CodedByte, TagsAreBytes
<1>8. /\ Coded(f4, tagBaseURL, base) /\ Len(f4) <= MaxText + 15
      /\ Coded(f5, tagLineupURL, base \o lineupPath) /\ Len(f5) <= MaxText + 15
      BY <1>4, <1>5, CodedText, TagsAreBytes
<1>9. Payload(c, t) = (((f1 \o f2) \o f3) \o f4) \o f5
      BY Zenon DEF Payload, ours, base, count
<1>10. ASSUME t < 256
       PROVE  Promised(c, t)
                = << [tag |-> tagDeviceType, value |-> deviceTypeTuner],
                     [tag |-> tagDeviceID,   value |-> ours],
                     [tag |-> tagTunerCount, value |-> <<count>>],
                     [tag |-> tagBaseURL,    value |-> base],
                     [tag |-> tagLineupURL,  value |-> base \o lineupPath] >>
  <2>1. Promised(c, t) = << [tag |-> tagDeviceType, value |-> deviceTypeTuner],
                            [tag |-> tagDeviceID,   value |-> ours],
                            [tag |-> tagTunerCount, value |-> <<IF t <= 0 THEN 2 ELSE t>>],
                            [tag |-> tagBaseURL,    value |-> base],
                            [tag |-> tagLineupURL,  value |-> base \o lineupPath] >>
        BY Zenon DEF Promised, ours, base
  <2>2. QED  BY <1>1, <1>10, <2>1
<1> HIDE DEF f1, f2, f3, f4, f5
<1>11. /\ Payload(c, t) \in Bytes
       /\ t < 256 => Fields(Payload(c, t)) = Promised(c, t)
  <2>0. /\ Coded(f1, tagDeviceType, deviceTypeTuner)
        /\ Coded(f2, tagDeviceID, ours)
        /\ Coded(f3, tagTunerCount, <<count>>)
        /\ Coded(f4, tagBaseURL, base)
        /\ Coded(f5, tagLineupURL, base \o lineupPath)
        BY <1>6, <1>7, <1>8
  <2>1. Decodes((((f1 \o f2) \o f3) \o f4) \o f5,
                << [tag |-> tagDeviceType, value |-> deviceTypeTuner],
                   [tag |-> tagDeviceID,   value |-> ours],
                   [tag |-> tagTunerCount, value |-> <<count>>],
                   [tag |-> tagBaseURL,    value |-> base],
                   [tag |-> tagLineupURL,  value |-> base \o lineupPath] >>)
        BY <2>0, FiveFields, Zenon
  <2>2. t < 256 => Decodes(Payload(c, t), Promised(c, t))
        BY <1>9, <1>10, <2>1, Zenon
  <2>3. Payload(c, t) \in Bytes
        BY <1>9, <2>1, Zenon DEF Decodes
  <2>4. QED  BY <2>2, <2>3 DEF Decodes
<1>12. Len(Payload(c, t)) < FrameLimit
  <2>1. f1 \in Bytes /\ f2 \in Bytes /\ f3 \in Bytes /\ f4 \in Bytes /\ f5 \in Bytes
        BY <1>6, <1>7, <1>8, CodedBytes
  <2>2. /\ Len(f1) \in Nat /\ Len(f2) \in Nat /\ Len(f3) \in Nat
        /\ Len(f4) \in Nat /\ Len(f5) \in Nat
        BY <2>1, LenProperties DEF Bytes
  <2>3. Len(Payload(c, t)) = Len(f1) + Len(f2) + Len(f3) + Len(f4) + Len(f5)
        BY <1>9, <2>1, FiveLengths
  <2>4. QED  BY <1>6, <1>7, <1>8, <2>2, <2>3 DEF MaxText, FrameLimit
<1>13. QED  BY <1>11, <1>12

(* An answer is made only to a packet that reads as a request wanted from  *)
(* this device, and a client reads in it what it was made of.              *)
LEMMA ResponseReadsBack ==
    ASSUME NEW c, Texts(c), NEW t \in Int, NEW packet,
           DiscoveryResponse(c, t, packet) # Malformed
    PROVE  LET response == DiscoveryResponse(c, t, packet)
               asked    == ParseDiscoveryRequest(packet)
           IN  /\ asked # Malformed /\ Wanted(asked, ParseDeviceID(c.DeviceID))
               /\ response.head \in Bytes /\ response.crc \in Bytes
               /\ OpenFrame(response).type = packetDiscoverReply
               /\ t < 256 => Fields(OpenFrame(response).payload) = Promised(c, t)
<1> DEFINE response == DiscoveryResponse(c, t, packet)
           asked    == ParseDiscoveryRequest(packet)
<1>1. /\ asked # Malformed /\ Wanted(asked, ParseDeviceID(c.DeviceID))
      /\ response = SealFrame(packetDiscoverReply, Payload(c, t))
      BY Zenon DEF DiscoveryResponse, Payload
<1>2. /\ Payload(c, t) \in Bytes /\ Len(Payload(c, t)) < FrameLimit
      /\ t < 256 => Fields(Payload(c, t)) = Promised(c, t)
      BY PayloadReadsBack
<1>3. packetDiscoverReply \in Nat /\ packetDiscoverReply < FrameLimit
      BY DEF packetDiscoverReply, FrameLimit
<1>4. OpenFrame(response) = [type |-> packetDiscoverReply, payload |-> Payload(c, t)]
      BY <1>1, <1>2, <1>3, FrameReadsBack
<1>5. response.head \in Bytes /\ response.crc \in Bytes
      BY <1>1, <1>2, <1>3, SealedBytes
<1>6. OpenFrame(response).type = packetDiscoverReply
      /\ OpenFrame(response).payload = Payload(c, t)
      BY <1>4
<1> HIDE DEF response
<1>7. QED  BY <1>1, <1>2, <1>5, <1>6 DEF response

-----------------------------------------------------------------------------
(* What the proxy reads in a request.                                      *)
Requesting == [type : U32, id : U32, pad : 0 .. MaxText, damage : Damages]

RequestPayload(r) ==
    Tlv(127, [i \in 1 .. r.pad |-> 3])
    \o Tlv(tagDeviceType, r.type) \o Tlv(tagDeviceID, r.id)

RequestFields(r) ==
    << [tag |-> 127, value |-> [i \in 1 .. r.pad |-> 3]],
       [tag |-> tagDeviceType, value |-> r.type],
       [tag |-> tagDeviceID, value |-> r.id] >>

LEMMA PadBytes ==
    ASSUME NEW n \in 0 .. MaxText
    PROVE  [i \in 1 .. n |-> 3] \in Bytes /\ Len([i \in 1 .. n |-> 3]) = n
<1>1. n \in Nat /\ 3 \in Byte
      BY DEF MaxText, Byte
<1>2. [i \in 1 .. n |-> 3] \in [1 .. n -> Byte]
      BY <1>1
<1>3. [i \in 1 .. n |-> 3] \in Seq(Byte)
      BY <1>1, <1>2, IsASeq
<1>4. QED  BY <1>1, <1>2, <1>3, LenProperties DEF Bytes

LEMMA RequestPayloadReads ==
    ASSUME NEW r \in Requesting
    PROVE  /\ Decodes(RequestPayload(r), RequestFields(r))
           /\ Decodes(Cut(RequestPayload(r)), Malformed)
           /\ Len(RequestPayload(r)) >= 1 /\ Len(RequestPayload(r)) < FrameLimit
           /\ Len(Cut(RequestPayload(r))) < FrameLimit
           /\ RequestPayload(r)[1] = 127
<1> DEFINE v == [i \in 1 .. r.pad |-> 3]
           a == Tlv(127, v)
           b == Tlv(tagDeviceType, r.type)
           c == Tlv(tagDeviceID, r.id)
           p == (a \o b) \o c
<1>1. r.type \in U32 /\ r.id \in U32 /\ r.pad \in 0 .. MaxText
      BY DEF Requesting
<1>2. v \in Bytes /\ Len(v) <= MaxText + 12
  <2>1. v \in Bytes /\ Len(v) = r.pad
        BY <1>1, PadBytes
  <2>2. ASSUME NEW n \in 0 .. MaxText PROVE n <= MaxText + 12
        BY DEF MaxText
  <2>3. QED  BY <1>1, <2>1, <2>2, Zenon
<1> HIDE DEF v
<1>3. Coded(a, 127, v) /\ Len(a) <= MaxText + 15
      BY <1>2, CodedText, TagsAreBytes
<1>4. /\ Coded(b, tagDeviceType, r.type) /\ Len(b) <= 7
      /\ Coded(c, tagDeviceID, r.id) /\ Len(c) <= 7
      BY <1>1, CodedU32, TagsAreBytes
<1>5. RequestPayload(r) = p
      BY Zenon DEF RequestPayload, v
<1>6. p = (a \o b) \o Tlv(tagDeviceID, r.id)
      OBVIOUS
<1>7. a = Tlv(127, v)
      OBVIOUS
<1> HIDE DEF a, b, c
<1>8. a \in Bytes /\ b \in Bytes /\ c \in Bytes
      BY <1>3, <1>4, CodedBytes
<1>9. Decodes(p, RequestFields(r))
  <2>1. Coded(a, 127, v) /\ Coded(b, tagDeviceType, r.type) /\ Coded(c, tagDeviceID, r.id)
        BY <1>3, <1>4
  <2>2. Decodes((a \o b) \o c, << [tag |-> 127, value |-> v],
                                  [tag |-> tagDeviceType, value |-> r.type],
                                  [tag |-> tagDeviceID, value |-> r.id] >>)
        BY <2>1, ThreeFields, ZenonT(60)
  <2>3. RequestFields(r) = << [tag |-> 127, value |-> v],
                              [tag |-> tagDeviceType, value |-> r.type],
                              [tag |-> tagDeviceID, value |-> r.id] >>
        BY Zenon DEF RequestFields, v
  <2>4. QED  BY <2>2, <2>3, Zenon
<1>10. Decodes(Cut(p), Malformed)
  <2>1. Coded(a, 127, v) /\ Coded(b, tagDeviceType, r.type)
        BY <1>3, <1>4
  <2>2. r.id \in Bytes /\ r.id # <<>> /\ Len(r.id) < LengthLimit /\ tagDeviceID \in Byte
        BY <1>1, U32Bytes, TagsAreBytes
  <2> HIDE DEF p
  <2>3. QED  BY <1>6, <2>1, <2>2, CutFields, Zenon
<1>11. /\ Len(p) = Len(a) + Len(b) + Len(c) /\ Len(a) \in Nat /\ Len(b) \in Nat
       /\ Len(c) \in Nat /\ Len(a) >= 2 /\ Len(b) >= 2 /\ Len(c) >= 2
  <2>1. a \o b \in Bytes /\ Len(a \o b) = Len(a) + Len(b)
        BY <1>8, Concat
  <2>2. Len(p) = Len(a \o b) + Len(c)
        BY <1>8, <2>1, Concat
  <2>3. Len(a) \in Nat /\ Len(b) \in Nat /\ Len(c) \in Nat
        BY <1>8, LenProperties DEF Bytes
  <2>4. ASSUME NEW x \in Bytes, NEW tag, NEW value \in Bytes, Coded(x, tag, value)
        PROVE  Len(x) >= 2
    <3>1. Len(x) \in Len(value) + 2 .. Len(value) + 3
          BY <2>4, CodedBytes
    <3>2. Len(value) \in Nat
          BY LenProperties DEF Bytes
    <3>3. QED  BY <3>1, <3>2
  <2>5. r.type \in Bytes /\ r.id \in Bytes
        BY <1>1, U32Bytes
  <2>6. Len(a) >= 2 /\ Len(b) >= 2 /\ Len(c) >= 2
        BY <1>2, <1>3, <1>4, <1>8, <2>4, <2>5
  <2>7. QED  BY <2>1, <2>2, <2>3, <2>6
<1>12. Len(p) >= 1 /\ Len(p) < FrameLimit
  <2> DEFINE n == Len(p)
             x == Len(a)
             y == Len(b)
             z == Len(c)
  <2>1. /\ n = x + y + z /\ x \in Nat /\ y \in Nat /\ z \in Nat
        /\ x >= 2 /\ x <= MaxText + 15 /\ y <= 7 /\ z <= 7
        BY <1>3, <1>4, <1>11
  <2> HIDE DEF n, x, y, z
  <2>2. n >= 1 /\ n < FrameLimit
        BY <2>1 DEF MaxText, FrameLimit
  <2>3. QED  BY <2>2 DEF n
<1>13. p \in Bytes
      BY <1>9 DEF Decodes
<1>14. Len(Cut(p)) < FrameLimit
  <2>1. p # <<>>
        BY <1>12, EmptySeq
  <2> HIDE DEF p
  <2>2. Len(Cut(p)) = Len(p) - 1 /\ Len(p) \in Nat
        BY <1>13, <2>1, CutConcat, EmptySeq, LenProperties DEF Bytes
  <2>3. QED  BY <1>12, <2>2 DEF FrameLimit
<1>15. p[1] = 127
  <2>1. a[1] = 127
    <3>1. VarLength(Len(v)) \in Bytes /\ <<127>> \in Bytes /\ Len(<<127>>) = 1 /\ <<127>>[1] = 127
      <4>1. Len(v) \in Nat /\ Len(v) < LengthLimit
            BY <1>2, LenProperties DEF Bytes, MaxText, LengthLimit
      <4>2. QED  BY <4>1, VarLengthBytes, Single, TagsAreBytes
    <3> DEFINE l == VarLength(Len(v))
               s == <<127>> \o l
    <3>2. a = s \o v
          BY Zenon DEF a, Tlv
    <3> HIDE DEF l
    <3>3. s \in Bytes /\ Len(s) >= 1 /\ s[1] = 127
      <4>1. l \in Bytes
            BY <3>1 DEF l
      <4>2. /\ s \in Bytes /\ Len(s) = 1 + Len(l) /\ Len(l) \in Nat
            BY <3>1, <4>1, Concat
      <4>3. \A i \in 1 .. Len(<<127>>) : (<<127>> \o l)[i] = <<127>>[i]
            BY <3>1, <4>1, DropPrefix
      <4>4. QED  BY <3>1, <4>2, <4>3
    <3> HIDE DEF s
    <3>4. Len(s) \in Nat /\ \A i \in 1 .. Len(s) : (s \o v)[i] = s[i]
          BY <1>2, <3>3, DropPrefix, LenProperties DEF Bytes
    <3>5. QED  BY <3>2, <3>3, <3>4
  <2>2. a \o b \in Bytes /\ Len(a \o b) >= 1 /\ (a \o b)[1] = a[1]
    <3>1. \A i \in 1 .. Len(a) : (a \o b)[i] = a[i]
          BY <1>8, DropPrefix
    <3>2. a \o b \in Bytes /\ Len(a \o b) = Len(a) + Len(b)
          BY <1>8, Concat
    <3>3. QED  BY <1>11, <3>1, <3>2
  <2>3. \A i \in 1 .. Len(a \o b) : ((a \o b) \o c)[i] = (a \o b)[i]
        BY <1>8, <2>2, DropPrefix
  <2>4. Len(a \o b) \in Nat
        BY <2>2, LenProperties DEF Bytes
  <2>5. QED  BY <2>1, <2>2, <2>3, <2>4
<1> HIDE DEF p
<1>16. QED  BY <1>5, <1>9, <1>10, <1>12, <1>14, <1>15, Zenon

(* Packet, by its payload.                                                 *)
LEMMA PacketOf ==
    ASSUME NEW r
    PROVE  LET p == RequestPayload(r)
               whole == SealFrame(packetDiscoverRequest, p)
           IN  /\ r.damage = "none" => Packet(r) = whole
               /\ r.damage = "bits" => Packet(r) = [whole EXCEPT !.head[5] = 99]
               /\ r.damage = "cut"  =>
                    Packet(r) = SealFrame(packetDiscoverRequest, Cut(p))
               /\ r.damage = "reply" => Packet(r) = SealFrame(packetDiscoverReply, p)
<1> DEFINE p == RequestPayload(r)
           whole == SealFrame(packetDiscoverRequest, p)
<1>1. Packet(r) = CASE r.damage = "none"    -> whole
                    [] r.damage = "bits"    -> [whole EXCEPT !.head[5] = 99]
                    [] r.damage = "cut"     -> SealFrame(packetDiscoverRequest, Cut(p))
                    [] r.damage = "reply"   -> SealFrame(packetDiscoverReply, p)
      BY Zenon DEF Packet, RequestPayload, Cut
<1> DEFINE bits  == [whole EXCEPT !.head[5] = 99]
           cut   == SealFrame(packetDiscoverRequest, Cut(p))
           reply == SealFrame(packetDiscoverReply, p)
<1> HIDE DEF whole, bits, cut, reply
<1>2. Packet(r) = CASE r.damage = "none"    -> whole
                    [] r.damage = "bits"    -> bits
                    [] r.damage = "cut"     -> cut
                    [] r.damage = "reply"   -> reply
      BY <1>1 DEF whole, bits, cut, reply
<1>3. /\ r.damage = "none"  => Packet(r) = whole
      /\ r.damage = "bits"  => Packet(r) = bits
      /\ r.damage = "cut"   => Packet(r) = cut
      /\ r.damage = "reply" => Packet(r) = reply
      BY <1>2
<1>4. QED  BY <1>3 DEF whole, bits, cut, reply

(* A whole request is read as what it asks.                                *)
LEMMA IntactIsRead ==
    ASSUME NEW r \in Requesting, r.damage = "none"
    PROVE  ParseDiscoveryRequest(Packet(r)) = [deviceType |-> r.type, deviceID |-> r.id]
<1> DEFINE p == RequestPayload(r)
           frame == OpenFrame(Packet(r))
<1>1. /\ p \in Bytes /\ Fields(p) = RequestFields(r) /\ Len(p) < FrameLimit
      BY RequestPayloadReads DEF Decodes
<1>2. packetDiscoverRequest \in Nat /\ packetDiscoverRequest < FrameLimit
      BY DEF packetDiscoverRequest, FrameLimit
<1>3. Packet(r) = SealFrame(packetDiscoverRequest, p)
      BY PacketOf
<1> HIDE DEF p
<1>4. frame = [type |-> packetDiscoverRequest, payload |-> p]
      BY <1>1, <1>2, <1>3, FrameReadsBack
<1>5. frame # Malformed
  <2>1. [type |-> packetDiscoverRequest, payload |-> p] \in [type : Nat, payload : Bytes]
        BY <1>1, <1>2
  <2>2. QED  BY <1>4, <2>1, MalformedAssumption
<1>6. frame.type = packetDiscoverRequest /\ frame.payload = p
      BY <1>4
<1> HIDE DEF frame
<1>7. r.type \in U32 /\ r.id \in U32
      BY DEF Requesting
<1>8. RequestFields(r) # Malformed
  <2>1. [i \in 1 .. r.pad |-> 3] \in Bytes
        BY PadBytes DEF Requesting
  <2>2. r.type \in Bytes /\ r.id \in Bytes
        BY <1>7, U32Bytes
  <2>3. RequestFields(r) \in Seq([tag : Byte, value : Bytes])
    <3> DEFINE v == [i \in 1 .. r.pad |-> 3]
    <3>1. v \in Bytes
          BY <2>1
    <3> HIDE DEF v
    <3>2. /\ [tag |-> 127, value |-> v] \in [tag : Byte, value : Bytes]
          /\ [tag |-> tagDeviceType, value |-> r.type] \in [tag : Byte, value : Bytes]
          /\ [tag |-> tagDeviceID, value |-> r.id] \in [tag : Byte, value : Bytes]
          BY <2>2, <3>1, TagsAreBytes
    <3>3. ASSUME NEW S, NEW x \in S, NEW y \in S, NEW z \in S
          PROVE  <<x, y, z>> \in Seq(S)
          OBVIOUS
    <3>4. << [tag |-> 127, value |-> v], [tag |-> tagDeviceType, value |-> r.type],
             [tag |-> tagDeviceID, value |-> r.id] >> \in Seq([tag : Byte, value : Bytes])
          BY <3>2, <3>3, Zenon
    <3>5. QED  BY <3>4, Zenon DEF RequestFields, v
  <2>4. QED  BY <2>3, MalformedAssumption, Zenon
<1>9. /\ Asked(RequestFields(r), tagDeviceType) = r.type
      /\ Asked(RequestFields(r), tagDeviceID) = r.id
  <2>1. 127 # tagDeviceType /\ 127 # tagDeviceID
        BY DEF tagDeviceType, tagDeviceID
  <2>2. QED  BY <1>7, <2>1, AskedOfThree DEF RequestFields
<1>10. ParseDiscoveryRequest(Packet(r))
         = [deviceType |-> Asked(RequestFields(r), tagDeviceType),
            deviceID   |-> Asked(RequestFields(r), tagDeviceID)]
       BY <1>1, <1>5, <1>6, <1>8, Zenon DEF ParseDiscoveryRequest, frame
<1>11. QED  BY <1>9, <1>10

(* A damaged one is not read.                                              *)
LEMMA DamagedIsNotRead ==
    ASSUME NEW r \in Requesting, r.damage # "none"
    PROVE  ParseDiscoveryRequest(Packet(r)) = Malformed
<1> DEFINE p == RequestPayload(r)
<1>1. /\ p \in Bytes /\ Len(p) >= 1 /\ Len(p) < FrameLimit /\ p[1] = 127
      /\ Cut(p) \in Bytes /\ Len(Cut(p)) < FrameLimit /\ Fields(Cut(p)) = Malformed
      BY RequestPayloadReads DEF Decodes
<1>2. /\ packetDiscoverRequest \in Nat /\ packetDiscoverRequest < FrameLimit
      /\ packetDiscoverReply \in Nat /\ packetDiscoverReply < FrameLimit
      /\ packetDiscoverReply # packetDiscoverRequest
      BY DEF packetDiscoverRequest, packetDiscoverReply, FrameLimit
<1> HIDE DEF p
<1>3. CASE r.damage = "bits"
  <2> DEFINE whole == SealFrame(packetDiscoverRequest, p)
             packet == [whole EXCEPT !.head[5] = 99]
  <2>1. Packet(r) = packet
        BY <1>3, PacketOf DEF p
  <2>2. /\ whole.head \in Bytes /\ whole.crc = whole.head
        /\ Len(whole.head) = 4 + Len(p)
        /\ \A i \in 1 .. Len(p) : whole.head[4 + i] = p[i]
        BY <1>1, <1>2, SealedBytes
  <2>3. whole = [head |-> whole.head, crc |-> whole.crc]
        BY Zenon DEF SealFrame
  <2> HIDE DEF whole
  <2>4. Len(p) \in Nat
        BY <1>1, LenProperties DEF Bytes
  <2>5. whole.head[5] = 127
    <3>1. 1 \in 1 .. Len(p) /\ 4 + 1 = 5
          BY <1>1, <2>4
    <3>2. QED  BY <1>1, <2>2, <3>1
  <2>6. DOMAIN whole.head = 1 .. Len(whole.head) /\ 5 \in 1 .. Len(whole.head)
        BY <1>1, <2>2, <2>4, LenProperties DEF Bytes
  <2>7. packet.head = [whole.head EXCEPT ![5] = 99] /\ packet.crc = whole.head
        BY <2>2, <2>3
  <2>8. packet.head[5] = 99
        BY <2>6, <2>7
  <2> HIDE DEF packet
  <2>9. packet.crc # packet.head
        BY <2>5, <2>7, <2>8
  <2>10. OpenFrame(packet) = Malformed
        BY <2>9, Zenon DEF OpenFrame
  <2>11. QED  BY <2>1, <2>10, Zenon DEF ParseDiscoveryRequest
<1>4. CASE r.damage = "cut"
  <2>1. Packet(r) = SealFrame(packetDiscoverRequest, Cut(p))
        BY <1>4, PacketOf DEF p
  <2>2. OpenFrame(Packet(r)) = [type |-> packetDiscoverRequest, payload |-> Cut(p)]
        BY <1>1, <1>2, <2>1, FrameReadsBack
  <2>3. OpenFrame(Packet(r)).payload = Cut(p)
        BY <2>2
  <2>4. QED  BY <1>1, <2>3, Zenon DEF ParseDiscoveryRequest
<1>5. CASE r.damage = "reply"
  <2>1. Packet(r) = SealFrame(packetDiscoverReply, p)
        BY <1>5, PacketOf DEF p
  <2>2. OpenFrame(Packet(r)) = [type |-> packetDiscoverReply, payload |-> p]
        BY <1>1, <1>2, <2>1, FrameReadsBack
  <2>3. OpenFrame(Packet(r)).type # packetDiscoverRequest
        BY <1>2, <2>2
  <2>4. QED  BY <2>3, Zenon DEF ParseDiscoveryRequest
<1>6. QED  BY <1>3, <1>4, <1>5 DEF Requesting, Damages

(* A datagram longer than the buffer is not read.                          *)
LEMMA CutIsNotRead ==
    ASSUME NEW packet, ~Fits(packet)
    PROVE  ParseDiscoveryRequest(Received(packet)) = Malformed
<1> DEFINE h == SubSeq(packet.head, 1, maxPacketSize - 4)
           cut == [head |-> h, crc |-> <<>>]
<1>1. Received(packet) = cut
      BY Zenon DEF Received
<1>2. cut.head = h /\ cut.crc = <<>>
      OBVIOUS
<1> HIDE DEF h, cut
<1>3. CASE h = <<>>
  <2>1. Len(h) < 4
        BY <1>3
  <2>2. OpenFrame(cut) = Malformed
        BY <1>2, <2>1, Zenon DEF OpenFrame
  <2>3. QED  BY <1>1, <2>2, Zenon DEF ParseDiscoveryRequest
<1>4. CASE h # <<>>
  <2>1. OpenFrame(cut) = Malformed
        BY <1>2, <1>4, Zenon DEF OpenFrame
  <2>2. QED  BY <1>1, <2>1, Zenon DEF ParseDiscoveryRequest
<1>5. QED  BY <1>3, <1>4

(* An answer goes only to one who asks for this device, and says what it   *)
(* was made of.                                                            *)
LEMMA AnswerReadsBack ==
    ASSUME NEW c \in Configs, NEW t \in Tuners, NEW r \in Requests,
           DiscoveryResponse(c, t, Received(Packet(r))) # Malformed
    PROVE  LET response == DiscoveryResponse(c, t, Received(Packet(r)))
           IN  /\ Addressed(r, c)
               /\ response.head \in Bytes /\ response.crc \in Bytes
               /\ OpenFrame(response).type = packetDiscoverReply
               /\ t < 256 => Fields(OpenFrame(response).payload) = Promised(c, t)
<1> DEFINE response == DiscoveryResponse(c, t, Received(Packet(r)))
           asked    == ParseDiscoveryRequest(Received(Packet(r)))
<1>1. Texts(c) /\ t \in Int /\ r \in Requesting
      BY ConfigsAssumption, TunersAssumption, RequestsAssumption DEF Texts, Requesting
<1>2. /\ asked # Malformed /\ Wanted(asked, ParseDeviceID(c.DeviceID))
      /\ response.head \in Bytes /\ response.crc \in Bytes
      /\ OpenFrame(response).type = packetDiscoverReply
      /\ t < 256 => Fields(OpenFrame(response).payload) = Promised(c, t)
      BY <1>1, ResponseReadsBack
<1> HIDE DEF response
<1>0. Fits(Packet(r)) /\ Received(Packet(r)) = Packet(r)
      BY <1>2, CutIsNotRead DEF Received
<1>3. r.damage = "none"
      BY <1>0, <1>1, <1>2, DamagedIsNotRead
<1>4. asked = [deviceType |-> r.type, deviceID |-> r.id]
      BY <1>0, <1>1, <1>3, IntactIsRead
<1>5. asked.deviceType = r.type /\ asked.deviceID = r.id
      BY <1>4
<1> HIDE DEF asked
<1>6. Addressed(r, c)
      BY <1>0, <1>2, <1>3, <1>5 DEF Wanted, Addressed
<1>7. QED  BY <1>2, <1>6 DEF response

-----------------------------------------------------------------------------
(* The state machine.                                                      *)

(* While a datagram is worked on, the settings in force are among those    *)
(* recorded since it was taken, and so is the configuration that was read. *)
Fresh ==
    hdhr \in {"ready", "cfg", "tuners"} =>
        /\ request \in Requests /\ cfg \in cfgs /\ tuners \in counts
        /\ hdhr = "tuners" => hcfg \in cfgs

(* While the announcer writes, a notification is left.                     *)
Unsent == announcer = "write" => sent \in 0 .. 2

Typed == TypeOK /\ Fresh /\ Unsent

(* What the step that answers makes known.                                 *)
LEMMA AnswerMade ==
    ASSUME TypeOK, Fresh, HdhrAnswer, answer' # answer
    PROVE  /\ answer'.to \in Requests /\ answer'.to = request
           /\ answer'.packet.head \in Bytes /\ answer'.packet.crc \in Bytes
           /\ hcfg \in answer'.cfgs /\ tuners \in answer'.counts
           /\ Addressed(answer'.to, hcfg)
           /\ OpenFrame(answer'.packet).type = packetDiscoverReply
           /\ tuners < 256 =>
                Fields(OpenFrame(answer'.packet).payload) = Promised(hcfg, tuners)
<1> DEFINE response == DiscoveryResponse(hcfg, tuners, Received(Packet(request)))
<1>1. /\ response # Malformed
      /\ answer' = [to |-> request, packet |-> response,
                    cfgs |-> cfgs, counts |-> counts]
      BY Zenon DEF HdhrAnswer
<1>2. request \in Requests /\ hcfg \in cfgs /\ tuners \in counts
      BY DEF HdhrAnswer, Fresh
<1>3. hcfg \in Configs /\ tuners \in Tuners
      BY DEF TypeOK
<1>4. /\ Addressed(request, hcfg)
      /\ response.head \in Bytes /\ response.crc \in Bytes
      /\ OpenFrame(response).type = packetDiscoverReply
      /\ tuners < 256 => Fields(OpenFrame(response).payload) = Promised(hcfg, tuners)
      BY <1>1, <1>2, <1>3, AnswerReadsBack
<1> HIDE DEF response
<1>5. /\ answer'.to = request /\ answer'.packet = response
      /\ answer'.cfgs = cfgs /\ answer'.counts = counts
      BY <1>1
<1>6. QED  BY <1>2, <1>4, <1>5

LEMMA TypedInit == Init => Typed
<1> SUFFICES ASSUME Init PROVE Typed
    OBVIOUS
<1>1. /\ hdhr \in {"off", "read"} /\ ssdp \in {"off", "read"}
      /\ announcer \in {"off", "alive"}
      BY DEF Init
<1>2. heard \in [Notifications -> Messages \union {None}]
      BY DEF Init
<1>3. failures \in 0 .. MaxFailures
      BY FailuresAssumption DEF Init
<1>4. /\ cfg \in Configs /\ ready \in BOOLEAN /\ tuners \in Tuners
      /\ stopping \in BOOLEAN /\ request = None /\ answer = None
      /\ hcfg \in Configs /\ cfgs = {} /\ counts = {} /\ scfg \in Configs
      /\ acfg \in Configs /\ sent = 0 /\ ticked \in BOOLEAN
      BY DEF Init
<1>5. TypeOK
  <2>1. cfgs \subseteq Configs /\ counts \subseteq Tuners /\ sent \in 0 .. 3
        BY <1>4
  <2>2. QED  BY <1>1, <1>2, <1>3, <1>4, <2>1 DEF TypeOK
<1>6. QED  BY <1>1, <1>4, <1>5 DEF Typed, Fresh, Unsent

LEMMA TypedStep == Typed /\ [Next]_vars => Typed'
<1> SUFFICES ASSUME TypeOK, Fresh, Unsent, [Next]_vars PROVE TypeOK' /\ Fresh' /\ Unsent'
    BY DEF Typed
<1>1. TypeOK'
  <2> USE FailuresAssumption DEF TypeOK, shared, hvars, svars, avars
  <2>1. CASE SetConfig
        BY <2>1 DEF SetConfig
  <2>2. CASE SetProxyReady
        BY <2>2 DEF SetProxyReady
  <2>3. CASE SetTuners
        BY <2>3 DEF SetTuners
  <2>4. CASE Signal
        BY <2>4 DEF Signal
  <2>5. CASE Exit
        BY <2>5 DEF Exit
  <2>6. CASE TickerFires
        BY <2>6 DEF TickerFires
  <2>7. CASE HdhrRead
        BY <2>7 DEF HdhrRead
  <2>8. CASE HdhrTimeout
        BY <2>8 DEF HdhrTimeout
  <2>9. CASE HdhrReady
        BY <2>9 DEF HdhrReady, HdhrNext
  <2>10. CASE HdhrConfig
        BY <2>10 DEF HdhrConfig
  <2>11. CASE HdhrAnswer
    <3>1. CASE answer' = answer
          BY <2>11, <3>1 DEF HdhrAnswer, HdhrNext, WriteFails
    <3>2. CASE answer' # answer
      <4>1. /\ answer'.to \in Requests
            /\ answer'.packet.head \in Bytes /\ answer'.packet.crc \in Bytes
            BY <2>11, <3>2, AnswerMade
      <4>2. QED  BY <2>11, <4>1 DEF HdhrAnswer, HdhrNext, WriteFails
    <3>3. QED  BY <3>1, <3>2
  <2>12. CASE SsdpRead
        BY <2>12 DEF SsdpRead
  <2>13. CASE SsdpAnswer
        BY <2>13 DEF SsdpAnswer, WriteFails
  <2>14. CASE SsdpTimeout
        BY <2>14 DEF SsdpTimeout
  <2>15. CASE SsdpBye
        BY <2>15 DEF SsdpBye, Message, Messages
  <2>16. CASE Alive
        BY <2>16 DEF Alive
  <2>17. CASE AliveWrite
    <3>1. heard' \in [Notifications -> Messages \union {None}]
      <4>1. Message("alive", acfg) \in Messages
            BY DEF Message, Messages
      <4> HIDE DEF Message, Messages
      <4>2. heard' = heard \/ heard' = [heard EXCEPT ![sent + 1] = Message("alive", acfg)]
            BY <2>17, Zenon DEF AliveWrite
      <4>3. QED  BY <4>1, <4>2
    <3>2. sent' \in 0 .. 3 /\ announcer' \in {"off", "alive", "write", "wait"}
          BY <2>17 DEF AliveWrite, Unsent
    <3>3. failures' \in 0 .. MaxFailures
          BY <2>17 DEF AliveWrite, WriteFails
    <3>4. QED  BY <2>17, <3>1, <3>2, <3>3 DEF AliveWrite
  <2>18. CASE AliveTick
        BY <2>18 DEF AliveTick
  <2>19. CASE AliveDone
        BY <2>19 DEF AliveDone
  <2>20. CASE UNCHANGED vars
        BY <2>20 DEF vars
  <2>21. QED
        BY <2>1, <2>2, <2>3, <2>4, <2>5, <2>6, <2>7,
           <2>8, <2>9, <2>10, <2>11, <2>12, <2>13, <2>14,
           <2>15, <2>16, <2>17, <2>18, <2>19, <2>20
        DEF Next, Hdhr, Ssdp, Announce, Outside, Arrival
<1>2. Fresh'
  <2>0. None \notin Requests
        BY RequestsAssumption
  <2> USE <2>0 DEF TypeOK, Fresh, shared, hvars, svars, avars
  <2>1. CASE SetConfig
        BY <2>1 DEF SetConfig
  <2>2. CASE SetProxyReady
        BY <2>2 DEF SetProxyReady
  <2>3. CASE SetTuners
        BY <2>3 DEF SetTuners
  <2>4. CASE Signal
        BY <2>4 DEF Signal
  <2>5. CASE Exit
        BY <2>5 DEF Exit
  <2>6. CASE TickerFires
        BY <2>6 DEF TickerFires
  <2>7. CASE HdhrRead
        BY <2>7 DEF HdhrRead
  <2>8. CASE HdhrTimeout
        BY <2>8 DEF HdhrTimeout
  <2>9. CASE HdhrReady
        BY <2>9 DEF HdhrReady, HdhrNext
  <2>10. CASE HdhrConfig
        BY <2>10 DEF HdhrConfig
  <2>11. CASE HdhrAnswer
        BY <2>11 DEF HdhrAnswer, HdhrNext
  <2>12. CASE SsdpRead
        BY <2>12 DEF SsdpRead
  <2>13. CASE SsdpAnswer
        BY <2>13 DEF SsdpAnswer, WriteFails
  <2>14. CASE SsdpTimeout
        BY <2>14 DEF SsdpTimeout
  <2>15. CASE SsdpBye
        BY <2>15 DEF SsdpBye, Message, Messages
  <2>16. CASE Alive
        BY <2>16 DEF Alive
  <2>17. CASE AliveWrite
        BY <2>17 DEF AliveWrite, Message, Messages, WriteFails
  <2>18. CASE AliveTick
        BY <2>18 DEF AliveTick
  <2>19. CASE AliveDone
        BY <2>19 DEF AliveDone
  <2>20. CASE UNCHANGED vars
        BY <2>20 DEF vars
  <2>21. QED
        BY <2>1, <2>2, <2>3, <2>4, <2>5, <2>6, <2>7,
           <2>8, <2>9, <2>10, <2>11, <2>12, <2>13, <2>14,
           <2>15, <2>16, <2>17, <2>18, <2>19, <2>20
        DEF Next, Hdhr, Ssdp, Announce, Outside, Arrival
<1>3. Unsent'
  <2> USE DEF TypeOK, Unsent, shared, hvars, svars, avars
  <2>1. CASE SetConfig
        BY <2>1 DEF SetConfig
  <2>2. CASE SetProxyReady
        BY <2>2 DEF SetProxyReady
  <2>3. CASE SetTuners
        BY <2>3 DEF SetTuners
  <2>4. CASE Signal
        BY <2>4 DEF Signal
  <2>5. CASE Exit
        BY <2>5 DEF Exit
  <2>6. CASE TickerFires
        BY <2>6 DEF TickerFires
  <2>7. CASE HdhrRead
        BY <2>7 DEF HdhrRead
  <2>8. CASE HdhrTimeout
        BY <2>8 DEF HdhrTimeout
  <2>9. CASE HdhrReady
        BY <2>9 DEF HdhrReady, HdhrNext
  <2>10. CASE HdhrConfig
        BY <2>10 DEF HdhrConfig
  <2>11. CASE HdhrAnswer
        BY <2>11 DEF HdhrAnswer, HdhrNext
  <2>12. CASE SsdpRead
        BY <2>12 DEF SsdpRead
  <2>13. CASE SsdpAnswer
        BY <2>13 DEF SsdpAnswer, WriteFails
  <2>14. CASE SsdpTimeout
        BY <2>14 DEF SsdpTimeout
  <2>15. CASE SsdpBye
        BY <2>15 DEF SsdpBye, Message, Messages
  <2>16. CASE Alive
        BY <2>16 DEF Alive
  <2>17. CASE AliveWrite
        BY <2>17 DEF AliveWrite, Message, Messages, WriteFails
  <2>18. CASE AliveTick
        BY <2>18 DEF AliveTick
  <2>19. CASE AliveDone
        BY <2>19 DEF AliveDone
  <2>20. CASE UNCHANGED vars
        BY <2>20 DEF vars
  <2>21. QED
        BY <2>1, <2>2, <2>3, <2>4, <2>5, <2>6, <2>7,
           <2>8, <2>9, <2>10, <2>11, <2>12, <2>13, <2>14,
           <2>15, <2>16, <2>17, <2>18, <2>19, <2>20
        DEF Next, Hdhr, Ssdp, Announce, Outside, Arrival
<1>4. QED  BY <1>1, <1>2, <1>3

(* Every reachable state has the types of TypeOK: in particular what the   *)
(* loop of hdhr.Run sends is a frame of bytes, for any request and any     *)
(* configuration.                                                          *)
THEOREM TypeCorrect == Spec => []TypeOK
<1>1. Typed => TypeOK
      BY DEF Typed
<1>2. QED  BY <1>1, TypedInit, TypedStep, PTL DEF Spec

(* Every answer of hdhr.Run goes to an intact request for this device and  *)
(* reads back as one configuration and one tuner count in force while it   *)
(* was made, for URLs of any length a datagram holds, provided the tuner   *)
(* count fits the byte it is sent in.                                      *)
THEOREM AnswersReadBack ==
    ASSUME \A t \in Tuners : t < 256
    PROVE  Spec => []AnswersFaithful
<1>1. Init => AnswersFaithful
      BY DEF Init, AnswersFaithful
<1>2. Typed /\ AnswersFaithful /\ [Next]_vars => AnswersFaithful'
  <2> SUFFICES ASSUME TypeOK, Fresh, AnswersFaithful, [Next]_vars
               PROVE  AnswersFaithful'
      BY DEF Typed
  <2>1. CASE answer' = answer
        BY <2>1 DEF AnswersFaithful
  <2>2. CASE answer' = None
        BY <2>2 DEF AnswersFaithful
  <2>3. CASE answer' # answer /\ answer' # None
    <3>1. HdhrAnswer
          BY <2>3 DEF Next, Hdhr, Ssdp, Announce, Outside, Arrival, SetConfig,
             SetProxyReady, SetTuners, Signal, Exit, TickerFires, HdhrRead,
             HdhrTimeout, HdhrReady, HdhrConfig, SsdpRead, SsdpAnswer, SsdpTimeout,
             SsdpBye, Alive, AliveWrite, AliveTick, AliveDone, vars, shared, hvars,
             svars, avars
    <3>2. tuners < 256
          BY DEF TypeOK
    <3>3. /\ hcfg \in answer'.cfgs /\ tuners \in answer'.counts
          /\ Addressed(answer'.to, hcfg)
          /\ OpenFrame(answer'.packet).type = packetDiscoverReply
          /\ Fields(OpenFrame(answer'.packet).payload) = Promised(hcfg, tuners)
          BY <2>3, <3>1, <3>2, AnswerMade
    <3>4. QED  BY <3>3, Zenon DEF AnswersFaithful
  <2>4. QED  BY <2>1, <2>2, <2>3
<1>3. QED  BY <1>1, <1>2, TypedInit, TypedStep, PTL DEF Spec

(* Before the proxy is active none of the three loops is past its test of  *)
(* proxyReady.                                                             *)
Quiet ==
    ~ready => /\ answer = None /\ (\A n \in Notifications : heard[n] = None)
              /\ hdhr \in {"off", "read", "ready"}
              /\ ssdp \in {"off", "read"}
              /\ announcer \in {"off", "alive", "wait"}

(* Nothing is sent before the proxy is active, by any of the three loops.  *)
THEOREM SilentBeforeReady == Spec => []SilentUntilReady
<1>1. Init => Quiet
      BY DEF Init, Quiet
<1>2. Quiet /\ [Next]_vars => Quiet'
  <2> SUFFICES ASSUME Quiet, [Next]_vars PROVE Quiet'
      OBVIOUS
  <2> USE DEF Quiet, shared, hvars, svars, avars
  <2>1. CASE SetConfig
        BY <2>1 DEF SetConfig
  <2>2. CASE SetProxyReady
        BY <2>2 DEF SetProxyReady
  <2>3. CASE SetTuners
        BY <2>3 DEF SetTuners
  <2>4. CASE Signal
        BY <2>4 DEF Signal
  <2>5. CASE Exit
        BY <2>5 DEF Exit
  <2>6. CASE TickerFires
        BY <2>6 DEF TickerFires
  <2>7. CASE HdhrRead
        BY <2>7 DEF HdhrRead
  <2>8. CASE HdhrTimeout
        BY <2>8 DEF HdhrTimeout
  <2>9. CASE HdhrReady
        BY <2>9 DEF HdhrReady, HdhrNext
  <2>10. CASE HdhrConfig
        BY <2>10 DEF HdhrConfig
  <2>11. CASE HdhrAnswer
        BY <2>11 DEF HdhrAnswer, HdhrNext
  <2>12. CASE SsdpRead
        BY <2>12 DEF SsdpRead
  <2>13. CASE SsdpAnswer
        BY <2>13 DEF SsdpAnswer, WriteFails
  <2>14. CASE SsdpTimeout
        BY <2>14 DEF SsdpTimeout
  <2>15. CASE SsdpBye
        BY <2>15 DEF SsdpBye, Message, Messages
  <2>16. CASE Alive
        BY <2>16 DEF Alive
  <2>17. CASE AliveWrite
        BY <2>17 DEF AliveWrite, Message, Messages, WriteFails
  <2>18. CASE AliveTick
        BY <2>18 DEF AliveTick
  <2>19. CASE AliveDone
        BY <2>19 DEF AliveDone
  <2>20. CASE UNCHANGED vars
        BY <2>20 DEF vars
  <2>21. QED
        BY <2>1, <2>2, <2>3, <2>4, <2>5, <2>6, <2>7,
           <2>8, <2>9, <2>10, <2>11, <2>12, <2>13, <2>14,
           <2>15, <2>16, <2>17, <2>18, <2>19, <2>20
        DEF Next, Hdhr, Ssdp, Announce, Outside, Arrival
<1>3. Quiet => SilentUntilReady
      BY DEF Quiet, SilentUntilReady
<1>4. QED  BY <1>1, <1>2, <1>3, PTL DEF Spec
=============================================================================
