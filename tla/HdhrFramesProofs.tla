-------------------------- MODULE HdhrFramesProofs --------------------------
(***************************************************************************)
(* What is written is what is read, for the three layers of a datagram:    *)
(* the variable length, the field and the frame.                           *)
(***************************************************************************)
EXTENDS HdhrFrames, SequenceTheorems, WellFoundedInduction, TLAPS

(* Division and remainder of the two bases a length is written in.         *)
LEMMA DivMod128 ==
    ASSUME NEW n \in Nat
    PROVE  /\ n % 128 \in 0 .. 127 /\ n \div 128 \in Nat
           /\ n = (n % 128) + (n \div 128) * 128
           /\ n < 128 * 256 => n \div 128 \in 0 .. 255
OBVIOUS

LEMMA DivMod256 ==
    ASSUME NEW n \in Nat
    PROVE  /\ n % 256 \in 0 .. 255 /\ n \div 256 \in Nat
           /\ n = (n % 256) + (n \div 256) * 256
           /\ n < 256 * 256 => n \div 256 \in 0 .. 255
OBVIOUS

(* What follows a prefix is what was appended to it.                       *)
LEMMA DropPrefix ==
    ASSUME NEW s \in Bytes, NEW t \in Bytes
    PROVE  /\ s \o t \in Bytes
           /\ Len(s \o t) = Len(s) + Len(t)
           /\ SubSeq(s \o t, Len(s) + 1, Len(s) + Len(t)) = t
           /\ \A i \in 1 .. Len(s) : (s \o t)[i] = s[i]
<1>1. /\ s \o t \in Bytes /\ Len(s \o t) = Len(s) + Len(t)
      /\ \A i \in 1 .. Len(s) + Len(t) :
           (s \o t)[i] = IF i <= Len(s) THEN s[i] ELSE t[i - Len(s)]
      BY ConcatProperties DEF Bytes
<1>2. Len(s) \in Nat /\ Len(t) \in Nat
      BY LenProperties DEF Bytes
<1>3. CASE t = <<>>
  <2>1. Len(s) + 1 > Len(s) + Len(t) /\ Len(s) + 1 \in Int /\ Len(s) + Len(t) \in Int
        BY <1>2, <1>3
  <2>2. SubSeq(s \o t, Len(s) + 1, Len(s) + Len(t)) = <<>>
        BY <2>1, SubSeqEmpty
  <2>3. QED  BY <1>1, <1>2, <1>3, <2>2
<1>4. CASE t # <<>>
  <2>1. Len(t) >= 1
        BY <1>2, <1>4, EmptySeq DEF Bytes
  <2>2. Len(s) + 1 \in Len(s) + 1 .. Len(s) + Len(t)
        /\ Len(s) + Len(t) \in Len(s) + 1 .. Len(s) + Len(t)
        BY <1>2, <2>1
  <2>3. SubSeq(s \o t, Len(s) + 1, Len(s) + Len(t))
          = SubSeq(t, Len(s) + 1 - Len(s), Len(s) + Len(t) - Len(s))
        BY <2>2, SubSeqOfConcat2 DEF Bytes
  <2>4. Len(s) + 1 - Len(s) = 1 /\ Len(s) + Len(t) - Len(s) = Len(t)
        BY <1>2
  <2>5. SubSeq(t, 1, Len(t)) = t
        BY SubSeqFull DEF Bytes
  <2>6. QED  BY <1>1, <1>2, <2>3, <2>4, <2>5
<1>5. QED  BY <1>3, <1>4

LEMMA Pair ==
    ASSUME NEW a \in Byte, NEW b \in Byte
    PROVE  /\ <<a, b>> \in Bytes /\ Len(<<a, b>>) = 2
           /\ <<a, b>>[1] = a /\ <<a, b>>[2] = b
BY DEF Bytes

LEMMA Single ==
    ASSUME NEW a \in Byte
    PROVE  <<a>> \in Bytes /\ Len(<<a>>) = 1 /\ <<a>>[1] = a
BY DEF Bytes

(* The two forms a length is read in.                                      *)
LEMMA ReadShort ==
    ASSUME NEW q, q # <<>>, ~(q[1] >= 128), q[1] < 128
    PROVE  ReadVarLength(q) = [length |-> q[1], rest |-> SubSeq(q, 2, Len(q))]
BY Zenon DEF ReadVarLength

LEMMA ReadLong ==
    ASSUME NEW q, q # <<>>, ~(Len(q) < 2), ~(q[1] < 128)
    PROVE  ReadVarLength(q) = [length |-> (q[1] % 128) + q[2] * 128,
                               rest   |-> SubSeq(q, 3, Len(q))]
BY Zenon DEF ReadVarLength

-----------------------------------------------------------------------------
(* A length below 2^15 is read back exactly, whatever follows it: the      *)
(* boundary at 128, where the second byte begins, included.                *)
THEOREM VarLengthReadsBack ==
    ASSUME NEW n \in Nat, n < LengthLimit, NEW rest \in Bytes
    PROVE  ReadVarLength(VarLength(n) \o rest) = [length |-> n, rest |-> rest]
<1> DEFINE p == VarLength(n) \o rest
<1>0. Len(rest) \in Nat
      BY LenProperties DEF Bytes
<1>1. CASE n <= 127
  <2>1. VarLength(n) = <<n>>
        BY <1>1, SMT DEF VarLength
  <2>2. n \in Byte
        BY <1>1 DEF Byte
  <2>3. <<n>> \in Bytes /\ Len(<<n>>) = 1 /\ <<n>>[1] = n
        BY <2>2, Single
  <2>4. Len(p) = 1 + Len(rest) /\ p[1] = n /\ SubSeq(p, 1 + 1, 1 + Len(rest)) = rest
    <3>1. /\ Len(<<n>> \o rest) = Len(<<n>>) + Len(rest)
          /\ SubSeq(<<n>> \o rest, Len(<<n>>) + 1, Len(<<n>>) + Len(rest)) = rest
          /\ \A i \in 1 .. Len(<<n>>) : (<<n>> \o rest)[i] = <<n>>[i]
          BY <2>3, DropPrefix
    <3>2. QED  BY <2>1, <2>3, <3>1
  <2> HIDE DEF p
  <2>5. p # <<>> /\ ~(p[1] >= 128) /\ p[1] < 128
    <3>1. Len(p) # 0
          BY <1>0, <2>4
    <3>2. QED  BY <1>1, <2>4, <3>1
  <2>6. SubSeq(p, 2, Len(p)) = rest
        BY <2>4
  <2>7. ReadVarLength(p) = [length |-> n, rest |-> rest]
        BY <2>4, <2>5, <2>6, ReadShort
  <2>8. QED  BY <2>7 DEF p
<1>2. CASE n > 127
  <2> DEFINE a == (n % 128) + 128
             b == n \div 128
  <2>1. n % 128 \in 0 .. 127 /\ n = (n % 128) + b * 128 /\ b \in 0 .. 255
        BY DivMod128 DEF LengthLimit
  <2>2. b % 256 = b /\ a % 128 = n % 128 /\ a >= 128
        BY <2>1
  <2>3. VarLength(n) = <<a, b>>
        BY <1>2, <2>2 DEF VarLength
  <2>4. a \in Byte /\ b \in Byte
        BY <2>1 DEF Byte
  <2> HIDE DEF a, b
  <2>5. /\ <<a, b>> \in Bytes /\ Len(<<a, b>>) = 2
        /\ <<a, b>>[1] = a /\ <<a, b>>[2] = b
        BY <2>4, Pair
  <2>6. /\ Len(p) = 2 + Len(rest) /\ p[1] = a /\ p[2] = b
        /\ SubSeq(p, 2 + 1, 2 + Len(rest)) = rest
    <3>1. /\ Len(<<a, b>> \o rest) = Len(<<a, b>>) + Len(rest)
          /\ SubSeq(<<a, b>> \o rest, Len(<<a, b>>) + 1, Len(<<a, b>>) + Len(rest)) = rest
          /\ \A i \in 1 .. Len(<<a, b>>) : (<<a, b>> \o rest)[i] = <<a, b>>[i]
          BY <2>5, DropPrefix
    <3>2. QED  BY <2>3, <2>5, <3>1
  <2> HIDE DEF p
  <2>7. p # <<>> /\ ~(Len(p) < 2) /\ ~(p[1] < 128) /\ SubSeq(p, 3, Len(p)) = rest
    <3>1. Len(p) \in Nat /\ Len(p) # 0 /\ ~(Len(p) < 2)
          BY <1>0, <2>6
    <3>2. ~(a < 128)
          BY <2>2, <2>4 DEF Byte
    <3>3. QED  BY <2>6, <3>1, <3>2
  <2>8. (p[1] % 128) + p[2] * 128 = n
        BY <2>1, <2>2, <2>6
  <2>9. ReadVarLength(p) = [length |-> n, rest |-> rest]
        BY <2>7, <2>8, ReadLong
  <2>10. QED  BY <2>9 DEF p
<1>3. QED  BY <1>1, <1>2

(* From 2^15 on the length is cut: what is read is another length.         *)
THEOREM VarLengthLimit ==
    ASSUME NEW n \in Nat, n >= LengthLimit
    PROVE  ReadVarLength(VarLength(n)).length # n
<1> DEFINE a == (n % 128) + 128
           b == (n \div 128) % 256
           p == <<a, b>>
<1>1. VarLength(n) = p
  <2>1. ~(n <= 127)
        BY DEF LengthLimit
  <2>2. QED  BY <2>1 DEF VarLength
<1>2. n % 128 \in 0 .. 127 /\ b \in 0 .. 255
      BY DivMod128, DivMod256
<1>3. a % 128 = n % 128 /\ a >= 128
      BY <1>2
<1>4. (a % 128) + b * 128 < LengthLimit
      BY <1>2, <1>3 DEF LengthLimit
<1> HIDE DEF a, b
<1>5. Len(p) = 2 /\ p[1] = a /\ p[2] = b /\ p # <<>>
      OBVIOUS
<1> HIDE DEF p
<1>6. ~(Len(p) < 2) /\ ~(p[1] < 128)
  <2>1. a \in Int /\ ~(a < 128)
        BY <1>2, <1>3 DEF a
  <2>2. QED  BY <1>5, <2>1
<1>7. ReadVarLength(p) = [length |-> (p[1] % 128) + p[2] * 128,
                          rest   |-> SubSeq(p, 3, Len(p))]
      BY <1>5, <1>6, ReadLong
<1>8. ReadVarLength(p).length = (a % 128) + b * 128
      BY <1>5, <1>7
<1>9. (a % 128) + b * 128 \in Nat
      BY <1>2, <1>3
<1>10. QED
  <2>1. (a % 128) + b * 128 # n
        BY <1>4, <1>9 DEF LengthLimit
  <2>2. QED  BY <1>1, <1>8, <2>1

(* A packet whose checksum and length are right is opened as its type and  *)
(* its payload.                                                            *)
LEMMA OpenWhole ==
    ASSUME NEW q, ~(Len(q) < 4), q[3] * 256 + q[4] = Len(q) - 4
    PROVE  OpenFrame([head |-> q, crc |-> q])
             = [type |-> q[1] * 256 + q[2], payload |-> SubSeq(q, 5, Len(q))]
<1> DEFINE packet == [head |-> q, crc |-> q]
<1>1. packet.head = q /\ packet.crc = q
      OBVIOUS
<1> HIDE DEF packet
<1>2. OpenFrame(packet) = [type |-> q[1] * 256 + q[2], payload |-> SubSeq(q, 5, Len(q))]
      BY <1>1, Zenon DEF OpenFrame
<1>3. QED  BY <1>2 DEF packet

(* A sealed frame of at most 65535 bytes opens to its type and payload.    *)
THEOREM FrameReadsBack ==
    ASSUME NEW t \in Nat, t < FrameLimit, NEW payload \in Bytes, Len(payload) < FrameLimit
    PROVE  OpenFrame(SealFrame(t, payload)) = [type |-> t, payload |-> payload]
<1> DEFINE L    == Len(payload)
           pre  == BigEndian(t) \o BigEndian(L)
           h    == pre \o payload
<1>1. ASSUME NEW k \in Nat, k < FrameLimit
      PROVE  /\ BigEndian(k) \in Bytes /\ Len(BigEndian(k)) = 2
             /\ BigEndian(k)[1] * 256 + BigEndian(k)[2] = k
  <2> DEFINE a == k \div 256
             b == k % 256
  <2>0. k < 256 * 256
        BY <1>1 DEF FrameLimit
  <2>1. a \in Byte /\ b \in Byte /\ k = b + a * 256
        BY <2>0, DivMod256 DEF Byte
  <2>2. a % 256 = a
        BY <2>1 DEF Byte
  <2>3. BigEndian(k) = <<a, b>>
        BY <2>2 DEF BigEndian
  <2> HIDE DEF a, b
  <2>4. <<a, b>> \in Bytes /\ Len(<<a, b>>) = 2 /\ <<a, b>>[1] = a /\ <<a, b>>[2] = b
        BY <2>1, Pair
  <2>5. QED  BY <2>1, <2>3, <2>4 DEF Byte
<1>2. L \in Nat /\ L < FrameLimit
      BY LenProperties DEF Bytes
<1>3. /\ pre \in Bytes /\ Len(pre) = 4
      /\ pre[1] * 256 + pre[2] = t /\ pre[3] * 256 + pre[4] = L
  <2>1. /\ BigEndian(t) \in Bytes /\ Len(BigEndian(t)) = 2
        /\ BigEndian(L) \in Bytes /\ Len(BigEndian(L)) = 2
        /\ BigEndian(t)[1] * 256 + BigEndian(t)[2] = t
        /\ BigEndian(L)[1] * 256 + BigEndian(L)[2] = L
        BY <1>1, <1>2
  <2>2. /\ pre \in Bytes /\ Len(pre) = 4
        /\ \A i \in 1 .. 4 :
             pre[i] = IF i <= 2 THEN BigEndian(t)[i] ELSE BigEndian(L)[i - 2]
    <3> DEFINE bt == BigEndian(t)
               bl == BigEndian(L)
    <3>1. bt \in Seq(Byte) /\ bl \in Seq(Byte) /\ Len(bt) = 2 /\ Len(bl) = 2
          BY <2>1 DEF Bytes
    <3> HIDE DEF bt, bl
    <3>2. /\ bt \o bl \in Seq(Byte) /\ Len(bt \o bl) = Len(bt) + Len(bl)
          /\ \A i \in 1 .. Len(bt) + Len(bl) :
               (bt \o bl)[i] = IF i <= Len(bt) THEN bt[i] ELSE bl[i - Len(bt)]
          BY <3>1, ConcatProperties
    <3>3. /\ bt \o bl \in Bytes /\ Len(bt \o bl) = 4
          /\ \A i \in 1 .. 4 : (bt \o bl)[i] = IF i <= 2 THEN bt[i] ELSE bl[i - 2]
          BY <3>1, <3>2 DEF Bytes
    <3>4. QED  BY <3>3 DEF bt, bl
  <2>3. /\ pre[1] = BigEndian(t)[1] /\ pre[2] = BigEndian(t)[2]
        /\ pre[3] = BigEndian(L)[1] /\ pre[4] = BigEndian(L)[2]
        BY <2>2
  <2>4. QED  BY <2>1, <2>2, <2>3
<1> HIDE DEF pre
<1>4. /\ Len(h) = 4 + L /\ SubSeq(h, 4 + 1, 4 + L) = payload
      /\ h[1] = pre[1] /\ h[2] = pre[2] /\ h[3] = pre[3] /\ h[4] = pre[4]
  <2>1. /\ Len(pre \o payload) = Len(pre) + Len(payload)
        /\ SubSeq(pre \o payload, Len(pre) + 1, Len(pre) + Len(payload)) = payload
        /\ \A i \in 1 .. Len(pre) : (pre \o payload)[i] = pre[i]
        BY <1>3, DropPrefix
  <2>2. QED  BY <1>3, <2>1
<1>5. SealFrame(t, payload) = [head |-> h, crc |-> h]
      BY DEF SealFrame, pre
<1> HIDE DEF h
<1>6. ~(Len(h) < 4) /\ h[3] * 256 + h[4] = Len(h) - 4 /\ SubSeq(h, 5, Len(h)) = payload
      BY <1>2, <1>3, <1>4
<1>7. h[1] * 256 + h[2] = t
      BY <1>3, <1>4
<1>8. OpenFrame([head |-> h, crc |-> h])
        = [type |-> h[1] * 256 + h[2], payload |-> SubSeq(h, 5, Len(h))]
      BY <1>6, OpenWhole
<1>9. QED  BY <1>5, <1>6, <1>7, <1>8

-----------------------------------------------------------------------------
(* The loop over the fields of a payload.                                  *)

LEMMA ByteSides ==
    ASSUME NEW a \in Byte, NEW b \in Byte
    PROVE  /\ a \in Nat /\ (a < 128 <=> ~(a >= 128))
           /\ (a % 128) + b * 128 \in Nat
BY DEF Byte

(* What readVarLength leaves is shorter than what it was given.            *)
LEMMA ReadVarLengthShape ==
    ASSUME NEW q \in Bytes, ReadVarLength(q) # Malformed
    PROVE  /\ ReadVarLength(q) \in [length : Nat, rest : Bytes]
           /\ Len(ReadVarLength(q).rest) < Len(q)
<1>1. q # <<>> /\ ~(q[1] >= 128 /\ Len(q) < 2)
      BY Zenon DEF ReadVarLength
<1>2. Len(q) \in Nat /\ Len(q) # 0 /\ q[1] \in Byte
  <2>1. Len(q) \in Nat /\ Len(q) # 0
        BY <1>1, EmptySeq, LenProperties DEF Bytes
  <2>2. QED  BY <2>1, ElementOfSeq DEF Bytes
<1>3. ASSUME NEW k \in 2 .. 3, k - 1 <= Len(q)
      PROVE  SubSeq(q, k, Len(q)) \in Bytes /\ Len(SubSeq(q, k, Len(q))) < Len(q)
  <2>1. \A i \in k .. Len(q) : q[i] \in Byte
        BY ElementOfSeq DEF Bytes
  <2>2. /\ SubSeq(q, k, Len(q)) \in Seq(Byte)
        /\ Len(SubSeq(q, k, Len(q))) = IF k <= Len(q) THEN Len(q) - k + 1 ELSE 0
        BY <1>2, <2>1, SubSeqProperties
  <2>3. QED  BY <1>2, <1>3, <2>2 DEF Bytes
<1>6. ASSUME NEW r, NEW length \in Nat, NEW rest \in Bytes,
             r = [length |-> length, rest |-> rest], Len(rest) < Len(q)
      PROVE  r \in [length : Nat, rest : Bytes] /\ Len(r.rest) < Len(q)
  <2>1. r.rest = rest
        BY <1>6
  <2>2. QED  BY <1>6, <2>1
<1>4. CASE q[1] < 128
  <2>1. ~(q[1] >= 128)
        BY <1>2, <1>4, ByteSides, Zenon
  <2>2. ReadVarLength(q) = [length |-> q[1], rest |-> SubSeq(q, 2, Len(q))]
        BY <1>1, <1>4, <2>1, ReadShort
  <2>3. SubSeq(q, 2, Len(q)) \in Bytes /\ Len(SubSeq(q, 2, Len(q))) < Len(q)
        BY <1>2, <1>3
  <2>4. q[1] \in Nat
        BY <1>2, ByteSides, Zenon
  <2>5. QED  BY <1>6, <2>2, <2>3, <2>4, Zenon
<1>5. CASE ~(q[1] < 128)
  <2>1. ~(Len(q) < 2)
        BY <1>1, <1>2, <1>5, ByteSides, Zenon
  <2>2. ReadVarLength(q) = [length |-> (q[1] % 128) + q[2] * 128,
                            rest   |-> SubSeq(q, 3, Len(q))]
        BY <1>1, <1>5, <2>1, ReadLong, Zenon
  <2>3. SubSeq(q, 3, Len(q)) \in Bytes /\ Len(SubSeq(q, 3, Len(q))) < Len(q)
        BY <1>2, <1>3, <2>1
  <2>4. q[2] \in Byte
        BY <1>2, <2>1, ElementOfSeq DEF Bytes
  <2>5. (q[1] % 128) + q[2] * 128 \in Nat
        BY <1>2, <2>4, ByteSides, Zenon
  <2>6. QED  BY <1>6, <2>2, <2>3, <2>5, Zenon
<1>7. QED  BY <1>4, <1>5

(* The next field begins further on, and no further than the end.          *)
LEMMA FieldShape ==
    ASSUME NEW payload \in Bytes, NEW i \in 1 .. Len(payload),
           Field(payload, i) # Malformed
    PROVE  /\ Field(payload, i) \in [tag : Byte, value : Bytes, next : Nat]
           /\ Field(payload, i).next \in i + 1 .. Len(payload) + 1
<1> DEFINE n    == Len(payload)
           q    == SubSeq(payload, i + 1, n)
           read == ReadVarLength(q)
<1>1. n \in Nat
      BY LenProperties DEF Bytes
<1>2. q \in Bytes /\ Len(q) = n - i
  <2>1. \A j \in i + 1 .. n : payload[j] \in Byte
        BY ElementOfSeq DEF Bytes
  <2>2. q \in Seq(Byte) /\ Len(q) = IF i + 1 <= n THEN n - (i + 1) + 1 ELSE 0
        BY <1>1, <2>1, SubSeqProperties
  <2>3. QED  BY <1>1, <2>2 DEF Bytes
<1> HIDE DEF q
<1>3. read # Malformed /\ ~(Len(read.rest) < read.length)
      BY Zenon DEF Field, q
<1>4. Field(payload, i) = [tag   |-> payload[i],
                           value |-> SubSeq(read.rest, 1, read.length),
                           next  |-> n + 1 - (Len(read.rest) - read.length)]
      BY <1>3, Zenon DEF Field, q
<1>5. read.length \in Nat /\ read.rest \in Bytes /\ Len(read.rest) < Len(q)
      BY <1>2, <1>3, ReadVarLengthShape
<1> HIDE DEF read
<1>6. Len(read.rest) \in Nat /\ read.length <= Len(read.rest)
      BY <1>3, <1>5, LenProperties DEF Bytes
<1>7. payload[i] \in Byte
      BY ElementOfSeq DEF Bytes
<1>8. SubSeq(read.rest, 1, read.length) \in Bytes
  <2>1. \A j \in 1 .. read.length : read.rest[j] \in Byte
        BY <1>5, <1>6, ElementOfSeq DEF Bytes
  <2>2. QED  BY <1>5, <2>1, SubSeqProperties DEF Bytes
<1>9. n + 1 - (Len(read.rest) - read.length) \in i + 1 .. n + 1
      BY <1>1, <1>2, <1>5, <1>6
<1>10. QED  BY <1>1, <1>4, <1>7, <1>8, <1>9

(* One turn of the loop of Fields, and a function that is that loop.       *)
Turn(payload, f, i) ==
    IF i = Len(payload) + 1 THEN <<>>
    ELSE LET field == Field(payload, i)
         IN  IF field = Malformed THEN Malformed
             ELSE IF f[field.next] = Malformed THEN Malformed
             ELSE <<[tag |-> field.tag, value |-> field.value]>> \o f[field.next]

Loop(payload, f) == f = [i \in 1 .. Len(payload) + 1 |-> Turn(payload, f, i)]

LEMMA FieldsChosen ==
    ASSUME NEW payload
    PROVE  Fields(payload) = (CHOOSE f : Loop(payload, f))[1]
BY Zenon DEF Fields, Loop, Turn

(* A turn looks at the function only further on.                           *)
LEMMA TurnAhead ==
    ASSUME NEW payload \in Bytes, NEW i \in 1 .. Len(payload) + 1, NEW f, NEW g,
           \A j \in i + 1 .. Len(payload) + 1 : f[j] = g[j]
    PROVE  Turn(payload, f, i) = Turn(payload, g, i)
<1>0. Len(payload) \in Nat
      BY LenProperties DEF Bytes
<1>1. CASE i = Len(payload) + 1
      BY <1>1, Zenon DEF Turn
<1>2. CASE i # Len(payload) + 1
  <2>1. i \in 1 .. Len(payload)
        BY <1>0, <1>2
  <2>2. CASE Field(payload, i) = Malformed
        BY <1>2, <2>2, Zenon DEF Turn
  <2>3. CASE Field(payload, i) # Malformed
    <3>1. f[Field(payload, i).next] = g[Field(payload, i).next]
          BY <2>1, <2>3, FieldShape, Zenon
    <3>2. QED  BY <1>2, <2>3, <3>1, Zenon DEF Turn
  <2>4. QED  BY <2>2, <2>3
<1>3. QED  BY <1>1, <1>2

(* The loop exists: were there a shortest tail of the payload that it does *)
(* not cover, one turn more would cover it.                                *)
LEMMA LoopExists ==
    ASSUME NEW payload \in Bytes
    PROVE  \E f : Loop(payload, f)
<1> DEFINE n      == Len(payload)
           Cov(k) == \E f : \A i \in n + 1 - k .. n + 1 : f[i] = Turn(payload, f, i)
           Bad    == {k \in 0 .. n : ~Cov(k)}
<1>0. n \in Nat
      BY LenProperties DEF Bytes
<1>1. Cov(0)
  <2> DEFINE f == [i \in {n + 1} |-> <<>>]
  <2>1. \A i \in n + 1 - 0 .. n + 1 : i = n + 1
        BY <1>0
  <2>2. f[n + 1] = <<>> /\ Turn(payload, f, n + 1) = <<>>
        BY DEF Turn
  <2>3. QED  BY <2>1, <2>2
<1>2. ASSUME NEW k \in 0 .. n, k # n, Cov(k)
      PROVE  Cov(k + 1)
  <2>1. PICK f : \A i \in n + 1 - k .. n + 1 : f[i] = Turn(payload, f, i)
        BY <1>2
  <2> DEFINE g == [i \in n - k .. n + 1 |->
                     IF i = n - k THEN Turn(payload, f, i) ELSE f[i]]
  <2>2. ASSUME NEW i \in n - k .. n + 1
        PROVE  g[i] = Turn(payload, g, i)
    <3>1. \A j \in i + 1 .. n + 1 : f[j] = g[j]
          BY <1>0
    <3>2. i \in 1 .. n + 1
          BY <1>0, <1>2
    <3>3. Turn(payload, f, i) = Turn(payload, g, i)
          BY <3>1, <3>2, TurnAhead
    <3>4. g[i] = Turn(payload, f, i)
      <4>1. CASE i = n - k
            BY <4>1
      <4>2. CASE i # n - k
        <5>1. i \in n + 1 - k .. n + 1
              BY <1>0, <4>2
        <5>2. QED  BY <2>1, <4>2, <5>1
      <4>3. QED  BY <4>1, <4>2
    <3>5. QED  BY <3>3, <3>4
  <2> HIDE DEF g
  <2>3. n + 1 - (k + 1) = n - k
        BY <1>0
  <2>4. QED  BY <2>2, <2>3
<1>3. Bad = {}
  <2> SUFFICES ASSUME Bad # {} PROVE FALSE
      OBVIOUS
  <2>1. Bad \subseteq Nat
        BY <1>0
  <2>2. PICK m \in Bad : \A k \in Bad : <<k, m>> \notin OpToRel(<, Nat)
        BY <2>1, NatLessThanWellFounded, WFMin, Zenon
  <2>3. m \in 0 .. n /\ ~Cov(m)
        OBVIOUS
  <2> HIDE DEF Cov
  <2>4. m # 0
        BY <1>1, <2>3
  <2>5. m - 1 \in 0 .. n /\ m - 1 # n /\ m - 1 \in Nat /\ m \in Nat /\ m - 1 < m
        /\ (m - 1) + 1 = m
        BY <1>0, <2>3, <2>4
  <2>6. m - 1 \notin Bad
        BY <2>2, <2>5, Zenon DEF OpToRel
  <2>7. Cov(m - 1)
        BY <2>5, <2>6
  <2>8. Cov((m - 1) + 1)
        BY <1>2, <2>5, <2>7
  <2>9. QED  BY <2>3, <2>5, <2>8
<1>4. Cov(n)
      BY <1>0, <1>3
<1>5. PICK f : \A i \in n + 1 - n .. n + 1 : f[i] = Turn(payload, f, i)
      BY <1>4
<1> DEFINE g == [i \in 1 .. n + 1 |-> f[i]]
<1>6. ASSUME NEW i \in 1 .. n + 1
      PROVE  g[i] = Turn(payload, g, i)
  <2>1. i \in n + 1 - n .. n + 1
        BY <1>0
  <2>2. \A j \in i + 1 .. n + 1 : f[j] = g[j]
        BY <1>0
  <2>3. Turn(payload, f, i) = Turn(payload, g, i)
        BY <2>2, TurnAhead
  <2>4. QED  BY <1>5, <2>1, <2>3
<1>7. g = [i \in 1 .. n + 1 |-> Turn(payload, g, i)]
      BY <1>6
<1>8. QED  BY <1>7 DEF Loop

(* The loop at each of its turns.                                          *)
TheLoop(payload) == CHOOSE f : Loop(payload, f)

LEMMA TurnsOfTheLoop ==
    ASSUME NEW payload \in Bytes
    PROVE  /\ Fields(payload) = TheLoop(payload)[1]
           /\ TheLoop(payload)[Len(payload) + 1] = <<>>
           /\ \A i \in 1 .. Len(payload) :
                 TheLoop(payload)[i] = Turn(payload, TheLoop(payload), i)
<1>0. Len(payload) \in Nat
      BY LenProperties DEF Bytes
<1>1. Loop(payload, TheLoop(payload))
      BY LoopExists, Zenon DEF TheLoop
<1>2. Fields(payload) = TheLoop(payload)[1]
      BY FieldsChosen, Zenon DEF TheLoop
<1> DEFINE f == TheLoop(payload)
<1> HIDE DEF f
<1>3. \A i \in 1 .. Len(payload) + 1 : f[i] = Turn(payload, f, i)
  <2>1. f = [i \in 1 .. Len(payload) + 1 |-> Turn(payload, f, i)]
        BY <1>1, Zenon DEF Loop, f
  <2>2. QED  BY <2>1, Zenon
<1>4. f[Len(payload) + 1] = <<>>
  <2>1. Len(payload) + 1 \in 1 .. Len(payload) + 1
        BY <1>0
  <2>2. QED  BY <1>3, <2>1, Zenon DEF Turn
<1>5. \A i \in 1 .. Len(payload) : i \in 1 .. Len(payload) + 1
      BY <1>0
<1>6. QED  BY <1>2, <1>3, <1>4, <1>5 DEF f

-----------------------------------------------------------------------------
(* Bytes put together.                                                     *)
LEMMA Concat ==
    ASSUME NEW s \in Bytes, NEW t \in Bytes
    PROVE  /\ s \o t \in Bytes /\ Len(s \o t) = Len(s) + Len(t)
           /\ Len(s) \in Nat /\ Len(t) \in Nat
BY DropPrefix, LenProperties DEF Bytes

LEMMA Associate ==
    ASSUME NEW s \in Bytes, NEW t \in Bytes, NEW u \in Bytes
    PROVE  (s \o t) \o u = s \o (t \o u)
BY ConcatAssociative DEF Bytes

LEMMA TakePrefix ==
    ASSUME NEW s \in Bytes, NEW t \in Bytes
    PROVE  SubSeq(s \o t, 1, Len(s)) = s
<1>1. Len(s) \in Nat
      BY LenProperties DEF Bytes
<1>2. CASE s = <<>>
  <2>1. Len(s) = 0
        BY <1>2, EmptySeq
  <2>2. QED  BY <1>2, <2>1, SubSeqEmpty
<1>3. CASE s # <<>>
  <2>1. Len(s) >= 1
        BY <1>1, <1>3, EmptySeq DEF Bytes
  <2>2. 1 \in 1 .. Len(s) /\ Len(s) \in 1 .. Len(s)
        BY <1>1, <2>1
  <2>3. SubSeq(s \o t, 1, Len(s)) = SubSeq(s, 1, Len(s))
        BY <2>2, SubSeqOfConcat1 DEF Bytes
  <2>4. QED  BY <2>3, SubSeqFull DEF Bytes
<1>4. QED  BY <1>2, <1>3

LEMMA VarLengthBytes ==
    ASSUME NEW n \in Nat, n < LengthLimit
    PROVE  VarLength(n) \in Bytes /\ Len(VarLength(n)) \in 1 .. 2
<1>1. CASE n <= 127
  <2>1. n \in Byte /\ VarLength(n) = <<n>>
        BY <1>1 DEF VarLength, Byte
  <2>2. QED  BY <2>1, Single
<1>2. CASE n > 127
  <2> DEFINE a == (n % 128) + 128
             b == (n \div 128) % 256
  <2>1. VarLength(n) = <<a, b>>
        BY <1>2 DEF VarLength
  <2>2. a \in Byte /\ b \in Byte
        BY DivMod128, DivMod256 DEF Byte
  <2> HIDE DEF a, b
  <2>3. QED  BY <2>1, <2>2, Pair
<1>3. QED  BY <1>1, <1>2

LEMMA TlvBytes ==
    ASSUME NEW tag \in Byte, NEW value \in Bytes, Len(value) < LengthLimit
    PROVE  /\ Tlv(tag, value) \in Bytes
           /\ Len(Tlv(tag, value)) \in Len(value) + 2 .. Len(value) + 3
<1> DEFINE n == Len(value)
           l == VarLength(n)
<1>1. n \in Nat /\ n < LengthLimit
      BY LenProperties DEF Bytes
<1>2. l \in Bytes /\ Len(l) \in 1 .. 2
      BY <1>1, VarLengthBytes
<1> HIDE DEF l
<1>3. <<tag>> \in Bytes /\ Len(<<tag>>) = 1
      BY Single
<1>4. <<tag>> \o l \in Bytes /\ Len(<<tag>> \o l) = 1 + Len(l)
      BY <1>2, <1>3, Concat
<1>5. /\ (<<tag>> \o l) \o value \in Bytes
      /\ Len((<<tag>> \o l) \o value) = Len(<<tag>> \o l) + n
      BY <1>4, Concat
<1>6. Tlv(tag, value) = (<<tag>> \o l) \o value
      BY DEF Tlv, l
<1>7. Tlv(tag, value) \in Bytes /\ Len(Tlv(tag, value)) = (1 + Len(l)) + n
      BY <1>4, <1>5, <1>6, Zenon
<1> HIDE DEF n
<1>8. ASSUME NEW a, NEW b \in 1 .. 2, NEW c \in Nat, a = (1 + b) + c
      PROVE  a \in c + 2 .. c + 3
      BY <1>8
<1>9. Len(Tlv(tag, value)) \in n + 2 .. n + 3
      BY <1>1, <1>2, <1>7, <1>8, Zenon
<1>10. QED  BY <1>7, <1>9 DEF n

(* Where a field begins, that field is read, and the next one after it.    *)
LEMMA FieldOfTlv ==
    ASSUME NEW pre \in Bytes, NEW tag \in Byte, NEW value \in Bytes,
           Len(value) < LengthLimit, NEW rest \in Bytes
    PROVE  Field(pre \o (Tlv(tag, value) \o rest), Len(pre) + 1)
             = [tag   |-> tag, value |-> value,
                next  |-> Len(pre) + Len(Tlv(tag, value)) + 1]
<1> DEFINE P == pre \o (Tlv(tag, value) \o rest)
           n == Len(value)
           l == VarLength(n)
           k == Len(pre) + 1
           q == l \o (value \o rest)
           s == pre \o <<tag>>
<1>1. n \in Nat /\ n < LengthLimit /\ k \in Nat
      BY LenProperties DEF Bytes
<1>2. l \in Bytes
      BY <1>1, VarLengthBytes
<1> HIDE DEF l
<1>3. <<tag>> \in Bytes /\ Len(<<tag>>) = 1 /\ <<tag>>[1] = tag
      BY Single
<1>4. /\ value \o rest \in Bytes /\ Len(value \o rest) = n + Len(rest)
      /\ q \in Bytes /\ s \in Bytes /\ Len(s) = k
      /\ Tlv(tag, value) \in Bytes
      /\ Len(P) = Len(pre) + (Len(Tlv(tag, value)) + Len(rest))
      /\ Len(pre) \in Nat /\ Len(Tlv(tag, value)) \in Nat /\ Len(rest) \in Nat
  <2>1. value \o rest \in Bytes /\ Len(value \o rest) = n + Len(rest)
        /\ Len(rest) \in Nat /\ Len(pre) \in Nat
        BY Concat
  <2>2. q \in Bytes
        BY <1>2, <2>1, Concat
  <2>3. s \in Bytes /\ Len(s) = k
        BY <1>3, Concat
  <2>4. Tlv(tag, value) \in Bytes
        BY TlvBytes
  <2>5. Tlv(tag, value) \o rest \in Bytes /\ Len(Tlv(tag, value)) \in Nat
        /\ Len(Tlv(tag, value) \o rest) = Len(Tlv(tag, value)) + Len(rest)
        BY <2>4, Concat
  <2>6. Len(P) = Len(pre) + (Len(Tlv(tag, value)) + Len(rest))
        BY <2>5, Concat
  <2>7. QED  BY <2>1, <2>2, <2>3, <2>4, <2>5, <2>6
<1>5. P = s \o q
  <2>1. Tlv(tag, value) = <<tag>> \o (l \o value)
        BY <1>2, <1>3, Associate DEF Tlv, l
  <2>2. l \o value \in Bytes
        BY <1>2, Concat
  <2>3. (<<tag>> \o (l \o value)) \o rest = <<tag>> \o ((l \o value) \o rest)
        BY <1>3, <2>2, Associate
  <2>4. (l \o value) \o rest = q
        BY <1>2, Associate
  <2>5. pre \in Bytes /\ <<tag>> \in Bytes /\ q \in Bytes
        BY <1>3, <1>4
  <2> HIDE DEF q
  <2>6. (pre \o <<tag>>) \o q = pre \o (<<tag>> \o q)
        BY <2>5, Associate
  <2>7. pre \o (<<tag>> \o q) = s \o q
        BY <2>6, Zenon
  <2> HIDE DEF s
  <2>8. QED  BY <2>1, <2>3, <2>4, <2>7
<1> HIDE DEF P, s
<1>6. SubSeq(P, k + 1, Len(P)) = q /\ P[k] = tag
  <2>1. /\ Len(s \o q) = Len(s) + Len(q)
        /\ SubSeq(s \o q, Len(s) + 1, Len(s) + Len(q)) = q
        /\ \A i \in 1 .. Len(s) : (s \o q)[i] = s[i]
        BY <1>4, DropPrefix
  <2>2. k \in 1 .. Len(s)
        BY <1>4
  <2>3. s[k] = tag
    <3>1. \A i \in 1 .. Len(pre) + Len(<<tag>>) :
             (pre \o <<tag>>)[i] = IF i <= Len(pre) THEN pre[i] ELSE <<tag>>[i - Len(pre)]
          BY <1>3, ConcatProperties DEF Bytes
    <3>2. k \in 1 .. Len(pre) + Len(<<tag>>) /\ ~(k <= Len(pre)) /\ k - Len(pre) = 1
          BY <1>3, <1>4
    <3>3. QED  BY <1>3, <3>1, <3>2 DEF s
  <2>4. QED  BY <1>4, <1>5, <2>1, <2>2, <2>3
<1>7. ReadVarLength(q) = [length |-> n, rest |-> value \o rest]
      BY <1>1, <1>4, VarLengthReadsBack DEF l
<1> HIDE DEF q
<1> DEFINE read == ReadVarLength(q)
<1>8. read.length = n /\ read.rest = value \o rest
      BY <1>7
<1>9. read # Malformed /\ ~(Len(read.rest) < read.length)
  <2>1. read \in [length : Nat, rest : Bytes]
        BY <1>1, <1>4, <1>7
  <2>2. QED  BY <1>1, <1>4, <1>8, <2>1, MalformedAssumption
<1>10. Field(P, k) = [tag   |-> P[k],
                      value |-> SubSeq(read.rest, 1, read.length),
                      next  |-> Len(P) + 1 - (Len(read.rest) - read.length)]
      BY <1>6, <1>9, Zenon DEF Field
<1> HIDE DEF read
<1>11. SubSeq(read.rest, 1, read.length) = value
      BY <1>8, TakePrefix
<1>12. Len(P) + 1 - (Len(read.rest) - read.length) = Len(pre) + Len(Tlv(tag, value)) + 1
      BY <1>1, <1>4, <1>8
<1>13. Field(P, k) = [tag |-> tag, value |-> value,
                      next |-> Len(pre) + Len(Tlv(tag, value)) + 1]
      BY <1>6, <1>10, <1>11, <1>12
<1>14. QED  BY <1>13 DEF P

(* A field as it is written, and what the loop reads from a place on.      *)
Coded(a, tag, value) ==
    a = Tlv(tag, value) /\ tag \in Byte /\ value \in Bytes /\ Len(value) < LengthLimit

Reads(payload, before, fields) == TheLoop(payload)[Len(before) + 1] = fields

FieldSeq == Seq([tag : Byte, value : Bytes])

LEMMA CodedBytes ==
    ASSUME NEW a, NEW tag, NEW value, Coded(a, tag, value)
    PROVE  a \in Bytes /\ Len(a) \in Len(value) + 2 .. Len(value) + 3
BY TlvBytes DEF Coded

(* The loop takes a field and goes on after it.                            *)
LEMMA LoopOverField ==
    ASSUME NEW pre \in Bytes, NEW a, NEW tag, NEW value, Coded(a, tag, value),
           NEW rest \in Bytes, NEW P, P = (pre \o a) \o rest,
           NEW more, Reads(P, pre \o a, more)
    PROVE  Reads(P, pre, IF more = Malformed THEN Malformed
                         ELSE <<[tag |-> tag, value |-> value]>> \o more)
<1> DEFINE k     == Len(pre) + 1
           f     == TheLoop(P)
           field == Field(P, k)
<1>1. a = Tlv(tag, value) /\ tag \in Byte /\ value \in Bytes /\ Len(value) < LengthLimit
      BY DEF Coded
<1>2. a \in Bytes /\ Len(a) >= 2 /\ Len(a) \in Nat /\ Len(pre) \in Nat /\ Len(rest) \in Nat
  <2>1. a \in Bytes /\ Len(a) \in Len(value) + 2 .. Len(value) + 3 /\ Len(value) \in Nat
        BY <1>1, CodedBytes, LenProperties DEF Bytes
  <2>2. QED  BY <2>1, LenProperties DEF Bytes
<1>3. /\ P = pre \o (a \o rest)
      /\ pre \o a \in Bytes /\ Len(pre \o a) = Len(pre) + Len(a)
      /\ P \in Bytes /\ Len(P) = (Len(pre) + Len(a)) + Len(rest)
  <2>1. P = pre \o (a \o rest)
        BY <1>2, Associate
  <2>2. pre \o a \in Bytes /\ Len(pre \o a) = Len(pre) + Len(a)
        BY <1>2, Concat
  <2>3. P \in Bytes /\ Len(P) = Len(pre \o a) + Len(rest)
        BY <2>2, Concat
  <2>4. QED  BY <2>1, <2>2, <2>3
<1>4. field = [tag |-> tag, value |-> value, next |-> Len(pre) + Len(a) + 1]
  <2>1. Field(pre \o (Tlv(tag, value) \o rest), Len(pre) + 1)
          = [tag |-> tag, value |-> value,
             next |-> Len(pre) + Len(Tlv(tag, value)) + 1]
        BY <1>1, FieldOfTlv
  <2>2. QED  BY <1>1, <1>3, <2>1, Zenon
<1>5. k \in 1 .. Len(P) /\ k # Len(P) + 1
      BY <1>2, <1>3
<1>6. f[k] = Turn(P, f, k)
      BY <1>3, <1>5, TurnsOfTheLoop, Zenon
<1>7. field # Malformed
  <2>1. field \in [tag : Byte, value : Bytes, next : Nat]
        BY <1>1, <1>2, <1>4
  <2>2. QED  BY <2>1, MalformedAssumption
<1>8. field.tag = tag /\ field.value = value /\ f[field.next] = more
  <2>1. field.tag = tag /\ field.value = value /\ field.next = Len(pre \o a) + 1
        BY <1>3, <1>4
  <2>2. QED  BY <2>1 DEF Reads
<1> HIDE DEF field, f
<1>9. CASE more = Malformed
  <2>1. Turn(P, f, k) = Malformed
        BY <1>5, <1>7, <1>8, <1>9, Zenon DEF Turn, field
  <2>2. QED  BY <1>6, <1>9, <2>1, Zenon DEF Reads, f
<1>10. CASE more # Malformed
  <2>1. Turn(P, f, k) = <<[tag |-> tag, value |-> value]>> \o more
        BY <1>5, <1>7, <1>8, <1>10, Zenon DEF Turn, field
  <2>2. QED  BY <1>6, <1>10, <2>1, Zenon DEF Reads, f
<1>11. QED  BY <1>9, <1>10

(* Tuples, one element longer.                                            *)
LEMMA Prepend ==
    ASSUME NEW S, NEW x \in S, NEW s \in Seq(S), NEW t \in Seq(S),
           Len(t) = Len(s) + 1, t[1] = x, \A i \in 1 .. Len(s) : t[i + 1] = s[i]
    PROVE  <<x>> \o s = t
<1>1. <<x>> \in Seq(S) /\ Len(<<x>>) = 1 /\ <<x>>[1] = x /\ Len(s) \in Nat
      BY LenProperties
<1>2. /\ <<x>> \o s \in Seq(S) /\ Len(<<x>> \o s) = Len(s) + 1
      /\ \A i \in 1 .. Len(s) + 1 :
           (<<x>> \o s)[i] = IF i <= 1 THEN <<x>>[i] ELSE s[i - 1]
      BY <1>1, ConcatProperties
<1>3. ASSUME NEW i \in 1 .. Len(s) + 1
      PROVE  (<<x>> \o s)[i] = t[i]
  <2>1. CASE i = 1
        BY <1>1, <1>2, <2>1
  <2>2. CASE i # 1
    <3>1. i - 1 \in 1 .. Len(s) /\ (i - 1) + 1 = i /\ ~(i <= 1)
          BY <1>1, <2>2
    <3>2. t[(i - 1) + 1] = s[i - 1]
          BY <3>1, Zenon
    <3>3. (<<x>> \o s)[i] = s[i - 1]
          BY <1>2, <3>1
    <3>4. QED  BY <3>1, <3>2, <3>3
  <2>3. QED  BY <2>1, <2>2
<1>4. QED  BY <1>2, <1>3, SeqEqual

LEMMA ListOfThree ==
    ASSUME NEW x, NEW y, NEW z
    PROVE  <<x>> \o (<<y>> \o (<<z>> \o <<>>)) = <<x, y, z>>
<1> DEFINE S == {x, y, z}
<1>1. <<z>> \o <<>> = <<z>>
      OBVIOUS
<1>2. <<z>> \in Seq(S) /\ <<y, z>> \in Seq(S) /\ <<x, y, z>> \in Seq(S)
      OBVIOUS
<1>3. <<y>> \o <<z>> = <<y, z>>
  <2> DEFINE s == <<z>>
             t == <<y, z>>
  <2>1. /\ Len(s) = 1 /\ Len(t) = Len(s) + 1 /\ t[1] = y
        /\ \A i \in 1 .. 1 : t[i + 1] = s[i]
        OBVIOUS
  <2>2. y \in S /\ s \in Seq(S) /\ t \in Seq(S)
        BY <1>2
  <2> HIDE DEF s, t, S
  <2>3. <<y>> \o s = t
        BY <2>1, <2>2, Prepend
  <2>4. QED  BY <2>3 DEF s, t
<1>4. <<x>> \o <<y, z>> = <<x, y, z>>
  <2> DEFINE s == <<y, z>>
             t == <<x, y, z>>
  <2>1. /\ Len(s) = 2 /\ Len(t) = Len(s) + 1 /\ t[1] = x
        /\ \A i \in 1 .. 2 : t[i + 1] = s[i]
        OBVIOUS
  <2>2. x \in S /\ s \in Seq(S) /\ t \in Seq(S)
        BY <1>2
  <2> HIDE DEF s, t, S
  <2>3. <<x>> \o s = t
        BY <2>1, <2>2, Prepend
  <2>4. QED  BY <2>3 DEF s, t
<1>5. QED  BY <1>1, <1>3, <1>4, Zenon

LEMMA ListOfFive ==
    ASSUME NEW v, NEW w, NEW x, NEW y, NEW z
    PROVE  <<v>> \o (<<w>> \o (<<x>> \o (<<y>> \o (<<z>> \o <<>>))))
             = <<v, w, x, y, z>>
<1> DEFINE S == {v, w, x, y, z}
<1>1. <<z>> \o <<>> = <<z>>
      OBVIOUS
<1>2. /\ <<z>> \in Seq(S) /\ <<y, z>> \in Seq(S) /\ <<x, y, z>> \in Seq(S)
      /\ <<w, x, y, z>> \in Seq(S) /\ <<v, w, x, y, z>> \in Seq(S)
      OBVIOUS
<1>3. <<y>> \o <<z>> = <<y, z>>
  <2> DEFINE s == <<z>>
             t == <<y, z>>
  <2>1. /\ Len(s) = 1 /\ Len(t) = Len(s) + 1 /\ t[1] = y
        /\ \A i \in 1 .. 1 : t[i + 1] = s[i]
        OBVIOUS
  <2>2. y \in S /\ s \in Seq(S) /\ t \in Seq(S)
        BY <1>2
  <2> HIDE DEF s, t, S
  <2>3. <<y>> \o s = t
        BY <2>1, <2>2, Prepend
  <2>4. QED  BY <2>3 DEF s, t
<1>4. <<x>> \o <<y, z>> = <<x, y, z>>
  <2> DEFINE s == <<y, z>>
             t == <<x, y, z>>
  <2>1. /\ Len(s) = 2 /\ Len(t) = Len(s) + 1 /\ t[1] = x
        /\ \A i \in 1 .. 2 : t[i + 1] = s[i]
        OBVIOUS
  <2>2. x \in S /\ s \in Seq(S) /\ t \in Seq(S)
        BY <1>2
  <2> HIDE DEF s, t, S
  <2>3. <<x>> \o s = t
        BY <2>1, <2>2, Prepend
  <2>4. QED  BY <2>3 DEF s, t
<1>5. <<w>> \o <<x, y, z>> = <<w, x, y, z>>
  <2> DEFINE s == <<x, y, z>>
             t == <<w, x, y, z>>
  <2>1. /\ Len(s) = 3 /\ Len(t) = Len(s) + 1 /\ t[1] = w
        /\ \A i \in 1 .. 3 : t[i + 1] = s[i]
        OBVIOUS
  <2>2. w \in S /\ s \in Seq(S) /\ t \in Seq(S)
        BY <1>2
  <2> HIDE DEF s, t, S
  <2>3. <<w>> \o s = t
        BY <2>1, <2>2, Prepend
  <2>4. QED  BY <2>3 DEF s, t
<1>6. <<v>> \o <<w, x, y, z>> = <<v, w, x, y, z>>
  <2> DEFINE s == <<w, x, y, z>>
             t == <<v, w, x, y, z>>
  <2>1. /\ Len(s) = 4 /\ Len(t) = Len(s) + 1 /\ t[1] = v
        /\ \A i \in 1 .. 4 : t[i + 1] = s[i]
        OBVIOUS
  <2>2. v \in S /\ s \in Seq(S) /\ t \in Seq(S)
        BY <1>2
  <2> HIDE DEF s, t, S
  <2>3. <<v>> \o s = t
        BY <2>1, <2>2, Prepend
  <2>4. QED  BY <2>3 DEF s, t
<1>7. QED  BY <1>1, <1>3, <1>4, <1>5, <1>6, Zenon

LEMMA TakesField ==
    ASSUME NEW pre \in Bytes, NEW a, NEW tag, NEW value, Coded(a, tag, value),
           NEW rest \in Bytes, NEW P, P = (pre \o a) \o rest,
           NEW more \in FieldSeq, Reads(P, pre \o a, more)
    PROVE  /\ Reads(P, pre, <<[tag |-> tag, value |-> value]>> \o more)
           /\ <<[tag |-> tag, value |-> value]>> \o more \in FieldSeq
<1>1. more # Malformed
      BY MalformedAssumption DEF FieldSeq
<1>2. Reads(P, pre, IF more = Malformed THEN Malformed
                    ELSE <<[tag |-> tag, value |-> value]>> \o more)
      BY LoopOverField
<1>3. <<[tag |-> tag, value |-> value]>> \in FieldSeq
      BY DEF FieldSeq, Coded
<1>4. <<[tag |-> tag, value |-> value]>> \o more \in FieldSeq
      BY <1>3, ConcatProperties DEF FieldSeq
<1>5. QED  BY <1>1, <1>2, <1>4, Zenon

(* The end of a payload, and its beginning.                                *)
LEMMA ReadsEnd ==
    ASSUME NEW P \in Bytes
    PROVE  Reads(P, P, <<>>) /\ <<>> \in FieldSeq
BY TurnsOfTheLoop, EmptySeq DEF Reads, FieldSeq

LEMMA ReadsAll ==
    ASSUME NEW P \in Bytes, NEW fields, Reads(P, <<>>, fields)
    PROVE  Fields(P) = fields
<1>1. Len(<<>>) + 1 = 1
      BY EmptySeq
<1>2. QED  BY <1>1, TurnsOfTheLoop DEF Reads

(* Nothing before or after a text.                                         *)
LEMMA Empty ==
    ASSUME NEW a \in Bytes
    PROVE  <<>> \in Bytes /\ <<>> \o a = a /\ a \o <<>> = a
BY EmptySeq, ConcatEmptySeq DEF Bytes

(* A payload of three fields, and one of five.                             *)
Decodes(payload, fields) == payload \in Bytes /\ Fields(payload) = fields

LEMMA ThreeFields ==
    ASSUME NEW a, NEW b, NEW c, NEW t1, NEW t2, NEW t3, NEW v1, NEW v2, NEW v3,
           Coded(a, t1, v1), Coded(b, t2, v2), Coded(c, t3, v3)
    PROVE  Decodes((a \o b) \o c,
                   << [tag |-> t1, value |-> v1], [tag |-> t2, value |-> v2],
                      [tag |-> t3, value |-> v3] >>)
<1> DEFINE P == (a \o b) \o c
           F(t, v) == [tag |-> t, value |-> v]
           more3 == <<F(t3, v3)>> \o <<>>
           more2 == <<F(t2, v2)>> \o more3
           more1 == <<F(t1, v1)>> \o more2
<1>1. a \in Bytes /\ b \in Bytes /\ c \in Bytes /\ <<>> \in Bytes
      BY CodedBytes, EmptySeq DEF Bytes
<1>2. a \o b \in Bytes /\ b \o c \in Bytes /\ P \in Bytes
      BY <1>1, Concat
<1>3. P = a \o (b \o c)
      BY <1>1, Associate
<1>4. P = (a \o b) \o c
      OBVIOUS
<1> HIDE DEF P
<1>5. P = P \o <<>> /\ a = <<>> \o a
      BY <1>1, <1>2, Empty
<1>6. Reads(P, P, <<>>) /\ <<>> \in FieldSeq
      BY <1>2, ReadsEnd
<1>7. Reads(P, a \o b, more3) /\ more3 \in FieldSeq
  <2>1. P = ((a \o b) \o c) \o <<>> /\ Reads(P, (a \o b) \o c, <<>>)
        BY <1>4, <1>5, <1>6
  <2>2. QED  BY <1>1, <1>2, <1>6, <2>1, TakesField
<1> HIDE DEF more3
<1>8. Reads(P, a, more2) /\ more2 \in FieldSeq
      BY <1>1, <1>4, <1>7, TakesField
<1> HIDE DEF more2
<1>9. Reads(P, <<>>, more1)
  <2>1. P = (<<>> \o a) \o (b \o c) /\ Reads(P, <<>> \o a, more2)
        BY <1>3, <1>5, <1>8
  <2>2. QED  BY <1>1, <1>2, <1>8, <2>1, TakesField
<1>10. Fields(P) = more1
      BY <1>2, <1>9, ReadsAll
<1> HIDE DEF F
<1>11. more1 = <<F(t1, v1), F(t2, v2), F(t3, v3)>>
      BY ListOfThree, Zenon DEF more2, more3
<1>12. QED  BY <1>2, <1>10, <1>11 DEF Decodes, P, F

LEMMA FiveFields ==
    ASSUME NEW a, NEW b, NEW c, NEW d, NEW e,
           NEW t1, NEW t2, NEW t3, NEW t4, NEW t5,
           NEW v1, NEW v2, NEW v3, NEW v4, NEW v5,
           Coded(a, t1, v1), Coded(b, t2, v2), Coded(c, t3, v3),
           Coded(d, t4, v4), Coded(e, t5, v5)
    PROVE  Decodes((((a \o b) \o c) \o d) \o e,
                   << [tag |-> t1, value |-> v1], [tag |-> t2, value |-> v2],
                      [tag |-> t3, value |-> v3], [tag |-> t4, value |-> v4],
                      [tag |-> t5, value |-> v5] >>)
<1> DEFINE p2 == a \o b
           p3 == p2 \o c
           p4 == p3 \o d
           P  == p4 \o e
           r3 == d \o e
           r2 == c \o r3
           r1 == b \o r2
           F(t, v) == [tag |-> t, value |-> v]
           more5 == <<F(t5, v5)>> \o <<>>
           more4 == <<F(t4, v4)>> \o more5
           more3 == <<F(t3, v3)>> \o more4
           more2 == <<F(t2, v2)>> \o more3
           more1 == <<F(t1, v1)>> \o more2
<1>1. /\ a \in Bytes /\ b \in Bytes /\ c \in Bytes /\ d \in Bytes /\ e \in Bytes
      /\ <<>> \in Bytes
      BY CodedBytes, EmptySeq DEF Bytes
<1>2. P = p4 \o e /\ p4 = p3 \o d /\ p3 = p2 \o c /\ p2 = a \o b
      OBVIOUS
<1> HIDE DEF P, p4, p3, p2
<1>3. p2 \in Bytes /\ p3 \in Bytes /\ p4 \in Bytes /\ P \in Bytes
  <2>1. p2 \in Bytes
        BY <1>1, <1>2, Concat
  <2>2. p3 \in Bytes
        BY <1>1, <1>2, <2>1, Concat
  <2>3. p4 \in Bytes
        BY <1>1, <1>2, <2>2, Concat
  <2>4. QED  BY <1>1, <1>2, <2>1, <2>2, <2>3, Concat
<1>4. P = P \o <<>> /\ a = <<>> \o a
      BY <1>1, <1>3, Empty
<1>5. P = p3 \o r3 /\ r3 \in Bytes
  <2>1. P = (p3 \o d) \o e
        BY <1>2
  <2>2. p3 \in Bytes /\ d \in Bytes /\ e \in Bytes
        BY <1>1, <1>3
  <2>3. (p3 \o d) \o e = p3 \o (d \o e)
        BY <2>2, Associate
  <2>4. d \o e \in Bytes
        BY <2>2, Concat
  <2>5. QED  BY <2>1, <2>3, <2>4, Zenon
<1> HIDE DEF r3
<1>6. P = p2 \o r2 /\ r2 \in Bytes
  <2>1. P = (p2 \o c) \o r3
        BY <1>2, <1>5
  <2>2. p2 \in Bytes /\ c \in Bytes /\ r3 \in Bytes
        BY <1>1, <1>3, <1>5
  <2>3. (p2 \o c) \o r3 = p2 \o (c \o r3)
        BY <2>2, Associate
  <2>4. c \o r3 \in Bytes
        BY <2>2, Concat
  <2>5. QED  BY <2>1, <2>3, <2>4, Zenon
<1> HIDE DEF r2
<1>7. P = a \o r1 /\ r1 \in Bytes
  <2>1. P = (a \o b) \o r2
        BY <1>2, <1>6
  <2>2. a \in Bytes /\ b \in Bytes /\ r2 \in Bytes
        BY <1>1, <1>3, <1>6
  <2>3. (a \o b) \o r2 = a \o (b \o r2)
        BY <2>2, Associate
  <2>4. b \o r2 \in Bytes
        BY <2>2, Concat
  <2>5. QED  BY <2>1, <2>3, <2>4, Zenon
<1> HIDE DEF r1
<1>8. Reads(P, P, <<>>) /\ <<>> \in FieldSeq
      BY <1>3, ReadsEnd
<1>9. Reads(P, p4, more5) /\ more5 \in FieldSeq
  <2>1. P = (p4 \o e) \o <<>> /\ Reads(P, p4 \o e, <<>>)
        BY <1>2, <1>4, <1>8
  <2>2. QED  BY <1>1, <1>3, <1>8, <2>1, TakesField
<1> HIDE DEF more5
<1>10. Reads(P, p3, more4) /\ more4 \in FieldSeq
  <2>1. P = (p3 \o d) \o e /\ Reads(P, p3 \o d, more5)
        BY <1>2, <1>9
  <2>2. QED  BY <1>1, <1>3, <1>9, <2>1, TakesField
<1> HIDE DEF more4
<1>11. Reads(P, p2, more3) /\ more3 \in FieldSeq
  <2>1. P = (p2 \o c) \o r3 /\ Reads(P, p2 \o c, more4)
        BY <1>2, <1>5, <1>10
  <2>2. QED  BY <1>3, <1>5, <1>10, <2>1, TakesField
<1> HIDE DEF more3
<1>12. Reads(P, a, more2) /\ more2 \in FieldSeq
  <2>1. P = (a \o b) \o r2 /\ Reads(P, a \o b, more3)
        BY <1>2, <1>6, <1>11
  <2>2. QED  BY <1>1, <1>6, <1>11, <2>1, TakesField
<1> HIDE DEF more2
<1>13. Reads(P, <<>>, more1)
  <2>1. P = (<<>> \o a) \o r1 /\ Reads(P, <<>> \o a, more2)
        BY <1>4, <1>7, <1>12
  <2>2. QED  BY <1>1, <1>7, <1>12, <2>1, TakesField
<1>14. Fields(P) = more1
      BY <1>3, <1>13, ReadsAll
<1> HIDE DEF F
<1>15. more1 = <<F(t1, v1), F(t2, v2), F(t3, v3), F(t4, v4), F(t5, v5)>>
      BY ListOfFive, Zenon DEF more2, more3, more4, more5
<1>16. QED  BY <1>3, <1>14, <1>15 DEF Decodes, P, p4, p3, p2, F

(* The bytes of a text but the last.                                       *)
Cut(s) == SubSeq(s, 1, Len(s) - 1)

LEMMA CutConcat ==
    ASSUME NEW s \in Bytes, NEW t \in Bytes, t # <<>>
    PROVE  /\ Cut(s \o t) = s \o Cut(t)
           /\ Cut(t) \in Bytes /\ Len(Cut(t)) = Len(t) - 1
<1> DEFINE m == Len(t) - 1
           u == Cut(t)
           v == Cut(s \o t)
<1>1. Len(t) \in Nat /\ Len(t) # 0 /\ Len(s) \in Nat /\ m \in Nat
      BY EmptySeq, LenProperties DEF Bytes
<1>2. /\ s \o t \in Bytes /\ Len(s \o t) = Len(s) + Len(t)
      /\ \A i \in 1 .. Len(s) + Len(t) :
           (s \o t)[i] = IF i <= Len(s) THEN s[i] ELSE t[i - Len(s)]
      BY ConcatProperties DEF Bytes
<1>3. u \in Bytes /\ Len(u) = m /\ \A i \in 1 .. m : u[i] = t[i]
  <2>1. \A i \in 1 .. m : t[i] \in Byte
        BY <1>1, ElementOfSeq DEF Bytes
  <2>2. u = SubSeq(t, 1, m) /\ m \in Nat
        BY <1>1 DEF Cut
  <2> HIDE DEF u, m
  <2>3. /\ u \in Seq(Byte) /\ Len(u) = IF 1 <= m THEN m - 1 + 1 ELSE 0
        /\ \A i \in 1 .. m - 1 + 1 : u[i] = t[1 + i - 1]
        BY <2>1, <2>2, SubSeqProperties
  <2>4. QED  BY <2>2, <2>3 DEF Bytes
<1>4. /\ v \in Bytes /\ Len(v) = Len(s) + m
      /\ \A i \in 1 .. Len(s) + m : v[i] = (s \o t)[i]
  <2>1. Len(s \o t) - 1 = Len(s) + m /\ Len(s) + m \in Nat
        BY <1>1, <1>2
  <2>2. \A i \in 1 .. Len(s) + m : (s \o t)[i] \in Byte
        BY <1>1, <1>2, ElementOfSeq DEF Bytes
  <2> DEFINE k == Len(s) + m
             w == s \o t
  <2>3. v = SubSeq(w, 1, k) /\ k \in Nat /\ \A i \in 1 .. k : w[i] \in Byte
        BY <2>1, <2>2 DEF Cut
  <2> HIDE DEF k, w
  <2>4. /\ SubSeq(w, 1, k) \in Seq(Byte)
        /\ Len(SubSeq(w, 1, k)) = IF 1 <= k THEN k - 1 + 1 ELSE 0
        /\ \A i \in 1 .. k - 1 + 1 : SubSeq(w, 1, k)[i] = w[1 + i - 1]
        BY <2>3, SubSeqProperties
  <2>5. /\ SubSeq(w, 1, k) \in Bytes /\ Len(SubSeq(w, 1, k)) = k
        /\ \A i \in 1 .. k : SubSeq(w, 1, k)[i] = w[i]
        BY <2>3, <2>4 DEF Bytes
  <2>6. QED  BY <2>3, <2>5 DEF k, w
<1> HIDE DEF u, v, m
<1>5. /\ s \o u \in Bytes /\ Len(s \o u) = Len(s) + m
      /\ \A i \in 1 .. Len(s) + m :
           (s \o u)[i] = IF i <= Len(s) THEN s[i] ELSE u[i - Len(s)]
      BY <1>3, ConcatProperties DEF Bytes
<1>6. ASSUME NEW i \in 1 .. Len(s) + m
      PROVE  v[i] = (s \o u)[i]
  <2>1. i \in 1 .. Len(s) + Len(t)
        BY <1>1 DEF m
  <2>2. CASE i <= Len(s)
        BY <1>2, <1>4, <1>5, <2>1, <2>2
  <2>3. CASE ~(i <= Len(s))
    <3>1. i - Len(s) \in 1 .. m
          BY <1>1, <2>3
    <3>2. u[i - Len(s)] = t[i - Len(s)]
          BY <1>3, <3>1
    <3>3. QED  BY <1>2, <1>4, <1>5, <2>1, <2>3, <3>2
  <2>4. QED  BY <2>2, <2>3
<1>7. v = s \o u
      BY <1>4, <1>5, <1>6, SeqEqual DEF Bytes
<1>8. QED  BY <1>3, <1>7 DEF u, v, m

(* A field whose value is cut short is no field.                           *)
LEMMA ShortField ==
    ASSUME NEW pre \in Bytes, NEW tag \in Byte, NEW n \in Nat, n < LengthLimit,
           NEW short \in Bytes, Len(short) < n,
           NEW P, P = pre \o (<<tag>> \o (VarLength(n) \o short))
    PROVE  P \in Bytes /\ Reads(P, pre, Malformed)
<1> DEFINE l == VarLength(n)
           q == l \o short
           s == pre \o <<tag>>
           k == Len(pre) + 1
<1>1. l \in Bytes /\ <<tag>> \in Bytes /\ Len(<<tag>>) = 1
      BY VarLengthBytes, Single
<1>2. ReadVarLength(q) = [length |-> n, rest |-> short]
      BY VarLengthReadsBack
<1> HIDE DEF l
<1>3. q \in Bytes /\ s \in Bytes /\ Len(s) = k /\ Len(pre) \in Nat /\ Len(q) \in Nat
      BY <1>1, Concat
<1>4. P = s \o q
      BY <1>1, <1>3, Associate DEF l
<1> HIDE DEF q, s
<1>5. /\ P \in Bytes /\ Len(P) = k + Len(q) /\ SubSeq(P, k + 1, Len(P)) = q
  <2>1. /\ s \o q \in Bytes /\ Len(s \o q) = Len(s) + Len(q)
        /\ SubSeq(s \o q, Len(s) + 1, Len(s) + Len(q)) = q
        BY <1>3, DropPrefix
  <2>2. QED  BY <1>3, <1>4, <2>1
<1> DEFINE read == ReadVarLength(q)
<1>6. read.length = n /\ read.rest = short
      BY <1>2
<1>7. read # Malformed /\ Len(read.rest) < read.length
  <2>1. read \in [length : Nat, rest : Bytes]
        BY <1>2
  <2>2. QED  BY <1>6, <2>1, MalformedAssumption
<1>8. Field(P, k) = Malformed
      BY <1>5, <1>7, Zenon DEF Field
<1>9. k \in 1 .. Len(P) /\ k # Len(P) + 1
  <2>1. q # <<>>
        BY <1>7, Zenon DEF ReadVarLength
  <2>2. Len(q) # 0
        BY <1>3, <2>1, EmptySeq DEF Bytes
  <2>3. QED  BY <1>3, <1>5, <2>2
<1>10. TheLoop(P)[k] = Malformed
  <2>1. TheLoop(P)[k] = Turn(P, TheLoop(P), k)
        BY <1>5, <1>9, TurnsOfTheLoop, Zenon
  <2>2. Turn(P, TheLoop(P), k) = Malformed
        BY <1>8, <1>9, Zenon DEF Turn
  <2>3. QED  BY <2>1, <2>2
<1>11. QED  BY <1>5, <1>10 DEF Reads

(* Two fields and a third that is cut short.                               *)
LEMMA CutFields ==
    ASSUME NEW a, NEW b, NEW t1, NEW t2, NEW v1, NEW v2,
           Coded(a, t1, v1), Coded(b, t2, v2),
           NEW tag \in Byte, NEW value \in Bytes, value # <<>>,
           Len(value) < LengthLimit,
           NEW P, P = (a \o b) \o Tlv(tag, value)
    PROVE  Decodes(Cut(P), Malformed)
<1> DEFINE n     == Len(value)
           l     == VarLength(n)
           short == Cut(value)
           c     == Tlv(tag, value)
           cut   == Cut(P)
           tail  == <<tag>> \o (l \o short)
<1>1. /\ a \in Bytes /\ b \in Bytes /\ c \in Bytes /\ a \o b \in Bytes
      /\ n \in Nat /\ n < LengthLimit /\ l \in Bytes /\ <<tag>> \in Bytes
  <2>1. a \in Bytes /\ b \in Bytes /\ c \in Bytes
        BY CodedBytes, TlvBytes
  <2>2. n \in Nat
        BY LenProperties DEF Bytes
  <2>3. l \in Bytes
        BY <2>2, VarLengthBytes
  <2>4. QED  BY <2>1, <2>2, <2>3, Concat, Single
<1> HIDE DEF l
<1>2. c = <<tag>> \o (l \o value)
      BY <1>1, Associate DEF Tlv, l
<1>3. short \in Bytes /\ Len(short) < n /\ Cut(l \o value) = l \o short
  <2>1. Cut(l \o value) = l \o Cut(value) /\ Cut(value) \in Bytes
        /\ Len(Cut(value)) = n - 1
        BY <1>1, CutConcat
  <2>2. QED  BY <1>1, <2>1
<1>4. l \o value \in Bytes /\ l \o value # <<>>
  <2>1. l \o value \in Bytes
        BY <1>1, Concat
  <2>2. l \o value # <<>>
        BY <1>1, ConcatEqualIffEmpty DEF Bytes
  <2>3. QED  BY <2>1, <2>2
<1>5. Cut(c) = tail
  <2>1. Cut(<<tag>> \o (l \o value)) = <<tag>> \o Cut(l \o value)
        BY <1>1, <1>4, CutConcat, Zenon
  <2>2. QED  BY <1>2, <1>3, <2>1
<1>6. c # <<>>
  <2>1. <<tag>> # <<>>
        OBVIOUS
  <2>2. QED  BY <1>1, <1>2, <1>4, <2>1, ConcatEqualIffEmpty DEF Bytes
<1>7. cut = (a \o b) \o tail
  <2>1. Cut((a \o b) \o c) = (a \o b) \o Cut(c)
        BY <1>1, <1>6, CutConcat, Zenon
  <2>2. QED  BY <1>5, <2>1
<1>8. cut \in Bytes /\ Reads(cut, a \o b, Malformed)
      BY <1>1, <1>3, <1>7, ShortField DEF l
<1>9. tail \in Bytes
      BY <1>1, <1>3, Concat
<1> HIDE DEF cut, tail
<1>10. Reads(cut, a, Malformed)
      BY <1>1, <1>7, <1>8, <1>9, LoopOverField
<1>11. Reads(cut, <<>>, Malformed)
  <2>1. b \o tail \in Bytes /\ cut = a \o (b \o tail) /\ a = <<>> \o a /\ <<>> \in Bytes
    <3>1. (a \o b) \o tail = a \o (b \o tail)
      <4>1. a \in Bytes /\ b \in Bytes /\ tail \in Bytes
            BY <1>1, <1>9
      <4>2. QED  BY <4>1, Associate
    <3>2. b \o tail \in Bytes
          BY <1>1, <1>9, Concat, Zenon
    <3>3. a = <<>> \o a /\ <<>> \in Bytes
          BY <1>1, Empty
    <3>4. QED  BY <1>7, <3>1, <3>2, <3>3
  <2>2. cut = (<<>> \o a) \o (b \o tail) /\ Reads(cut, <<>> \o a, Malformed)
        BY <1>10, <2>1
  <2>3. QED  BY <2>1, <2>2, LoopOverField
<1>12. QED  BY <1>8, <1>11, ReadsAll DEF Decodes, cut

-----------------------------------------------------------------------------
(* The values a datagram is made of.                                       *)
LEMMA U32Bytes ==
    ASSUME NEW x \in U32
    PROVE  x \in Bytes /\ Len(x) = 4 /\ Len(x) < LengthLimit /\ x # <<>>
<1>1. x \in [1 .. 4 -> Byte]
      BY DEF U32
<1>2. x \in Seq(Byte)
  <2> DEFINE y == <<x[1], x[2], x[3], x[4]>>
  <2>1. y \in Seq(Byte) /\ Len(y) = 4 /\ \A i \in 1 .. 4 : y[i] = x[i]
        BY <1>1
  <2> HIDE DEF y
  <2>2. y \in [1 .. 4 -> Byte]
        BY <2>1, LenProperties
  <2>3. x = y
        BY <1>1, <2>1, <2>2
  <2>4. QED  BY <2>1, <2>3
<1>3. Len(x) = 4
      BY <1>1, <1>2, LenProperties
<1>4. QED  BY <1>2, <1>3, EmptySeq DEF Bytes, LengthLimit

(* A set of indices that is not empty has a greatest element.              *)
LEMMA LastExists ==
    ASSUME NEW n \in Nat, NEW K \in SUBSET (1 .. n), K # {}
    PROVE  \E i \in K : \A j \in K : j <= i
<1> DEFINE T == {n - i : i \in K}
<1>0. \A i \in K : i \in Int /\ n - i \in Nat /\ n - i \in T
      OBVIOUS
<1>1. T \subseteq Nat /\ T # {}
      BY <1>0
<1>2. PICK m \in T : \A k \in T : <<k, m>> \notin OpToRel(<, Nat)
      BY <1>1, NatLessThanWellFounded, WFMin, Zenon
<1>3. \A k \in T : m <= k
  <2> SUFFICES ASSUME NEW k \in T PROVE m <= k
      OBVIOUS
  <2>1. ~(k < m)
        BY <1>1, <1>2, Zenon DEF OpToRel
  <2>2. QED  BY <1>1, <2>1
<1>4. PICK i \in K : m = n - i
      OBVIOUS
<1>5. ASSUME NEW j \in K PROVE j <= i
  <2>1. m <= n - j
        BY <1>0, <1>3
  <2>2. QED  BY <1>0, <1>4, <2>1
<1>6. QED  BY <1>5

(* A text without its trailing slashes is no longer than it was.           *)
LEMMA TrimRightBytes ==
    ASSUME NEW url \in Bytes
    PROVE  TrimRight(url) \in Bytes /\ Len(TrimRight(url)) <= Len(url)
<1> DEFINE kept == {i \in DOMAIN url : url[i] # Slash}
           last == CHOOSE i \in kept : \A j \in kept : j <= i
<1>1. Len(url) \in Nat /\ DOMAIN url = 1 .. Len(url)
      BY LenProperties DEF Bytes
<1>2. CASE kept = {}
  <2>1. TrimRight(url) = <<>>
        BY <1>2 DEF TrimRight
  <2>2. QED  BY <1>1, <2>1, EmptySeq DEF Bytes
<1>3. CASE kept # {}
  <2>1. kept \in SUBSET (1 .. Len(url))
        BY <1>1
  <2> HIDE DEF kept
  <2>2. last \in kept
        BY <1>1, <1>3, <2>1, LastExists
  <2> HIDE DEF last
  <2>3. last \in 1 .. Len(url)
        BY <2>1, <2>2
  <2>4. TrimRight(url) = SubSeq(url, 1, last)
        BY <1>3 DEF TrimRight, kept, last
  <2>5. \A i \in 1 .. last : url[i] \in Byte
        BY <1>1, <2>3, ElementOfSeq DEF Bytes
  <2>6. /\ SubSeq(url, 1, last) \in Seq(Byte)
        /\ Len(SubSeq(url, 1, last)) = IF 1 <= last THEN last - 1 + 1 ELSE 0
        BY <2>3, <2>5, SubSeqProperties
  <2>7. QED  BY <1>1, <2>3, <2>4, <2>6 DEF Bytes
<1>4. QED  BY <1>2, <1>3

(* An identifier of up to eight digits is a 32-bit number.                 *)
LEMMA ParseDeviceIDIsU32 ==
    ASSUME NEW text \in Seq(0 .. 16), Len(text) <= 8
    PROVE  ParseDeviceID(text) \in U32
<1>1. CASE text = <<>> \/ \E i \in DOMAIN text : text[i] = 16
  <2>1. ParseDeviceID(text) = defaultDeviceID
        BY <1>1, Zenon DEF ParseDeviceID
  <2>2. QED  BY <2>1 DEF defaultDeviceID, U32, Byte
<1>2. CASE ~(text = <<>> \/ \E i \in DOMAIN text : text[i] = 16)
  <2> DEFINE digit(i) == IF i <= 8 - Len(text) THEN 0 ELSE text[i - (8 - Len(text))]
  <2>1. ParseDeviceID(text) = [i \in 1 .. 4 |-> digit(2 * i - 1) * 16 + digit(2 * i)]
        BY <1>2, Zenon DEF ParseDeviceID
  <2>2. Len(text) \in Nat /\ DOMAIN text = 1 .. Len(text)
        BY LenProperties
  <2>3. ASSUME NEW i \in 1 .. 8
        PROVE  digit(i) \in 0 .. 15
    <3>1. CASE i <= 8 - Len(text)
          BY <3>1
    <3>2. CASE ~(i <= 8 - Len(text))
      <4>1. i - (8 - Len(text)) \in 1 .. Len(text)
            BY <2>2, <3>2
      <4>2. text[i - (8 - Len(text))] \in 0 .. 16 /\ text[i - (8 - Len(text))] # 16
            BY <1>2, <2>2, <4>1, ElementOfSeq
      <4>3. digit(i) = text[i - (8 - Len(text))]
            BY <3>2, Zenon
      <4>4. QED  BY <4>2, <4>3
    <3>3. QED  BY <3>1, <3>2
  <2> HIDE DEF digit
  <2>4. ASSUME NEW i \in 1 .. 4
        PROVE  digit(2 * i - 1) * 16 + digit(2 * i) \in Byte
    <3>1. 2 * i - 1 \in 1 .. 8 /\ 2 * i \in 1 .. 8
          OBVIOUS
    <3>2. digit(2 * i - 1) \in 0 .. 15 /\ digit(2 * i) \in 0 .. 15
          BY <2>3, <3>1
    <3>3. ASSUME NEW a \in 0 .. 15, NEW b \in 0 .. 15
          PROVE  a * 16 + b \in Byte
          BY DEF Byte
    <3>4. QED  BY <3>2, <3>3, Zenon
  <2>5. QED  BY <2>1, <2>4 DEF U32
<1>3. QED  BY <1>1, <1>2

(* What a request asks for, when its two fields stand behind a third one.  *)
LEMMA AskedOfThree ==
    ASSUME NEW tag, NEW v, NEW t \in U32, NEW i \in U32,
           tag # tagDeviceType, tag # tagDeviceID,
           NEW fields, fields = << [tag |-> tag, value |-> v],
                                   [tag |-> tagDeviceType, value |-> t],
                                   [tag |-> tagDeviceID, value |-> i] >>
    PROVE  Asked(fields, tagDeviceType) = t /\ Asked(fields, tagDeviceID) = i
<1>1. /\ DOMAIN fields = 1 .. 3
      /\ fields[1].tag = tag
      /\ fields[2].tag = tagDeviceType /\ fields[2].value = t
      /\ fields[3].tag = tagDeviceID /\ fields[3].value = i
      OBVIOUS
<1>2. Len(t) = 4 /\ Len(i) = 4 /\ tagDeviceType # tagDeviceID
      BY U32Bytes DEF tagDeviceType, tagDeviceID
<1>3. {k \in DOMAIN fields : fields[k].tag = tagDeviceType /\ Len(fields[k].value) = 4} = {2}
      BY <1>1, <1>2
<1>4. {k \in DOMAIN fields : fields[k].tag = tagDeviceID /\ Len(fields[k].value) = 4} = {3}
      BY <1>1, <1>2
<1>5. (CHOOSE k \in {2} : \A j \in {2} : j <= k) = 2
      OBVIOUS
<1>6. (CHOOSE k \in {3} : \A j \in {3} : j <= k) = 3
      OBVIOUS
<1> HIDE DEF tagDeviceType, tagDeviceID
<1>7. Asked(fields, tagDeviceType) = fields[2].value
      BY <1>3, <1>5 DEF Asked
<1>8. Asked(fields, tagDeviceID) = fields[3].value
      BY <1>4, <1>6 DEF Asked
<1>9. QED  BY <1>1, <1>7, <1>8

(* A frame and its first four bytes.                                       *)
LEMMA SealedBytes ==
    ASSUME NEW t \in Nat, NEW payload \in Bytes
    PROVE  /\ SealFrame(t, payload).head \in Bytes
           /\ SealFrame(t, payload).crc = SealFrame(t, payload).head
           /\ Len(SealFrame(t, payload).head) = 4 + Len(payload)
           /\ \A i \in 1 .. Len(payload) :
                 SealFrame(t, payload).head[4 + i] = payload[i]
<1> DEFINE pre == BigEndian(t) \o BigEndian(Len(payload))
           h   == pre \o payload
<1>1. ASSUME NEW k \in Nat
      PROVE  BigEndian(k) \in Bytes /\ Len(BigEndian(k)) = 2
  <2>1. k \div 256 \in Nat /\ (k \div 256) % 256 \in Byte /\ k % 256 \in Byte
        BY DivMod256 DEF Byte
  <2>2. BigEndian(k) = <<(k \div 256) % 256, k % 256>>
        BY DEF BigEndian
  <2> DEFINE a == (k \div 256) % 256
             b == k % 256
  <2> HIDE DEF a, b
  <2>3. a \in Byte /\ b \in Byte /\ BigEndian(k) = <<a, b>>
        BY <2>1, <2>2 DEF a, b
  <2>4. QED  BY <2>3, Pair
<1>2. Len(payload) \in Nat
      BY LenProperties DEF Bytes
<1>3. pre \in Bytes /\ Len(pre) = 4
  <2>1. /\ BigEndian(t) \in Bytes /\ Len(BigEndian(t)) = 2
        /\ BigEndian(Len(payload)) \in Bytes /\ Len(BigEndian(Len(payload))) = 2
        BY <1>1, <1>2
  <2> DEFINE s == BigEndian(t)
             u == BigEndian(Len(payload))
  <2> HIDE DEF s, u
  <2>2. s \in Bytes /\ Len(s) = 2 /\ u \in Bytes /\ Len(u) = 2
        BY <2>1 DEF s, u
  <2>3. s \o u \in Bytes /\ Len(s \o u) = Len(s) + Len(u)
        BY <2>2, Concat, Zenon
  <2>4. Len(s \o u) = 4
        BY <2>2, <2>3
  <2>5. QED  BY <2>3, <2>4 DEF s, u
<1>4. SealFrame(t, payload) = [head |-> h, crc |-> h]
      BY Zenon DEF SealFrame
<1> HIDE DEF pre
<1>5. /\ h \in Bytes /\ Len(h) = 4 + Len(payload)
      /\ \A i \in 1 .. 4 + Len(payload) :
           h[i] = IF i <= 4 THEN pre[i] ELSE payload[i - 4]
  <2>1. /\ h \in Bytes /\ Len(h) = Len(pre) + Len(payload)
        /\ \A i \in 1 .. Len(pre) + Len(payload) :
             h[i] = IF i <= Len(pre) THEN pre[i] ELSE payload[i - Len(pre)]
        BY <1>3, ConcatProperties DEF Bytes
  <2> HIDE DEF h
  <2>2. QED  BY <1>3, <2>1
<1> HIDE DEF h
<1>6. \A i \in 1 .. Len(payload) : h[4 + i] = payload[i]
  <2> SUFFICES ASSUME NEW i \in 1 .. Len(payload) PROVE h[4 + i] = payload[i]
      OBVIOUS
  <2>1. 4 + i \in 1 .. 4 + Len(payload) /\ ~(4 + i <= 4) /\ (4 + i) - 4 = i
        BY <1>2
  <2>2. QED  BY <1>5, <2>1
<1>7. SealFrame(t, payload).head = h /\ SealFrame(t, payload).crc = h
      BY <1>4
<1>8. QED  BY <1>5, <1>6, <1>7
=============================================================================
