--------------------------- MODULE PacketCodecProofs ---------------------------
(***************************************************************************)
(* The codec is lossless for every header, every payload and every cut:    *)
(* the runs try a few hundred headers, the theorems cover all 2^64.        *)
(*                                                                         *)
(* HeaderLayout says which byte of a written header stands where, for each *)
(* of the 32 shapes a header can have; ReadExact that read() finds the     *)
(* header again in any data that agrees with it, and refuses any data that *)
(* ends before it does.                                                    *)
(***************************************************************************)
EXTENDS PacketCodec, SequenceTheorems, TLAPS

\* The range of an integer type.
LEMMA UnsignedRange ==
    ASSUME NEW n \in Int, NEW x
    PROVE  x \in Unsigned(n) <=> x \in Int /\ 0 <= x /\ x < n
  BY DEF Unsigned

\* The ranges of the two integer types on the wire.
LEMMA Ranges ==
    ASSUME NEW x
    PROVE  /\ x \in U8 <=> x \in Int /\ 0 <= x /\ x < 256
           /\ x \in U16 <=> x \in Int /\ 0 <= x /\ x < 65536
  BY UnsignedRange DEF U8, U16

\* What read() finds in the prefix byte is what write() put there.
LEMMA PrefixBits ==
    ASSUME NEW h \in PacketHeader
    PROVE  /\ Prefix(h) \in U8
           /\ ~Bit(Prefix(h), 1)
           /\ Bit(Prefix(h), 2) <=> h.ack_bits[1] # 255
           /\ Bit(Prefix(h), 4) <=> h.ack_bits[2] # 255
           /\ Bit(Prefix(h), 8) <=> h.ack_bits[3] # 255
           /\ Bit(Prefix(h), 16) <=> h.ack_bits[4] # 255
           /\ Bit(Prefix(h), 32) <=> ShortAck(h)
<1> DEFINE a == Flag(h.ack_bits[1] # 255, 2)
           b == Flag(h.ack_bits[2] # 255, 4)
           c == Flag(h.ack_bits[3] # 255, 8)
           d == Flag(h.ack_bits[4] # 255, 16)
           e == Flag(ShortAck(h), 32)
<1>1. /\ a \in {0, 2} /\ b \in {0, 4} /\ c \in {0, 8} /\ d \in {0, 16} /\ e \in {0, 32}
      /\ a = 2 <=> h.ack_bits[1] # 255
      /\ b = 4 <=> h.ack_bits[2] # 255
      /\ c = 8 <=> h.ack_bits[3] # 255
      /\ d = 16 <=> h.ack_bits[4] # 255
      /\ e = 32 <=> ShortAck(h)
  BY DEF Flag
<1>2. Prefix(h) = a + b + c + d + e
  BY DEF Prefix
<1> HIDE DEF a, b, c, d, e
<1>3. a + b + c + d + e \in U8
  BY <1>1, Ranges
<1>4. /\ ~Bit(a + b + c + d + e, 1)
      /\ Bit(a + b + c + d + e, 2) <=> a = 2
      /\ Bit(a + b + c + d + e, 4) <=> b = 4
      /\ Bit(a + b + c + d + e, 8) <=> c = 8
      /\ Bit(a + b + c + d + e, 16) <=> d = 16
      /\ Bit(a + b + c + d + e, 32) <=> e = 32
  BY <1>1 DEF Bit
<1> QED BY <1>1, <1>2, <1>3, <1>4

\* The bytes of a u16 are bytes, and give it back.
LEMMA LeBytes ==
    ASSUME NEW n \in U16
    PROVE  /\ n % 256 \in U8 /\ n \div 256 \in U8
           /\ FromLeBytes(n % 256, n \div 256) = n
           /\ ToLeBytes(n) \in Seq(U8) /\ Len(ToLeBytes(n)) = 2
           /\ ToLeBytes(n)[1] = n % 256 /\ ToLeBytes(n)[2] = n \div 256
<1> DEFINE q == n \div 256
           r == n % 256
<1>0. n \in Int /\ 0 <= n /\ n < 65536 /\ 256 \in Nat \ {0}
  BY Ranges
<1>1. r \in U8 /\ q \in U8 /\ n = 256 * q + r
  <2>1. q \in Int /\ r \in 0 .. (256 - 1) /\ n = 256 * q + r
    BY <1>0
  <2> HIDE DEF q, r
  <2>2. 0 <= r /\ r < 256 /\ q \in Int /\ 0 <= q /\ q < 256
    BY <1>0, <2>1
  <2> QED BY <2>1, <2>2, Ranges
<1>2. FromLeBytes(r, q) = n
  <2> HIDE DEF q, r
  <2> QED BY <1>1, Ranges DEF FromLeBytes
<1> QED BY <1>1, <1>2 DEF ToLeBytes

\* A one-byte ack gives the ack back, on either side of the wrap.
LEMMA ShortAckExact ==
    ASSUME NEW h \in PacketHeader
    PROVE  /\ SequenceDiff(h) \in U16
           /\ ShortAck(h) => SequenceDiff(h) \in U8 /\ SequenceDiff(h) % 256 = SequenceDiff(h)
           /\ (h.sequence - SequenceDiff(h)) % 65536 = h.ack
<1> DEFINE x == h.sequence
           y == h.ack
           D == SequenceDiff(h)
<1>1. /\ x \in Int /\ 0 <= x /\ x < 65536 /\ y \in Int /\ 0 <= y /\ y < 65536
      /\ D = (x - y) % 65536
  <2>1. x \in U16 /\ y \in U16
    BY DEF PacketHeader
  <2>2. D = (x - y) % 65536
    BY DEF SequenceDiff
  <2> HIDE DEF x, y, D
  <2>3. /\ x \in Int /\ 0 <= x /\ x < 65536 /\ y \in Int /\ 0 <= y /\ y < 65536
    BY <2>1, Ranges
  <2> QED BY <2>2, <2>3
<1> HIDE DEF x, y, D
<1>2. D = IF x >= y THEN x - y ELSE x - y + 65536
  BY <1>1
<1>3. D \in Int /\ 0 <= D /\ D < 65536
  BY <1>1, <1>2
<1>5. D \in U16 /\ (D <= 255 => D \in U8 /\ D % 256 = D)
  <2>1. D \in U16 /\ (D <= 255 => D \in U8)
    BY <1>3, Ranges
  <2>2. ASSUME D <= 255
        PROVE  D % 256 = D
    BY <1>3, <2>2
  <2> QED BY <2>1, <2>2
<1>4. (x - D) % 65536 = y
  BY <1>1, <1>2
<1> QED BY <1>4, <1>5 DEF x, y, D, ShortAck

--------------------------------------------------------------------------------
(* A header's bytes *)

\* The ends of the parts of a written header: the ack and the bytes of ack_bits.
End0(h) == IF ShortAck(h) THEN 4 ELSE 5
End1(h) == End0(h) + (IF h.ack_bits[1] # 255 THEN 1 ELSE 0)
End2(h) == End1(h) + (IF h.ack_bits[2] # 255 THEN 1 ELSE 0)
End3(h) == End2(h) + (IF h.ack_bits[3] # 255 THEN 1 ELSE 0)
End4(h) == End3(h) + (IF h.ack_bits[4] # 255 THEN 1 ELSE 0)

\* The bytes at those places.
Layout(h, w) ==
    /\ w[1] = Prefix(h)
    /\ w[2] = h.sequence % 256 /\ w[3] = h.sequence \div 256
    /\ ShortAck(h) => w[4] = SequenceDiff(h)
    /\ ~ShortAck(h) => w[4] = h.ack % 256 /\ w[5] = h.ack \div 256
    /\ h.ack_bits[1] # 255 => w[End1(h)] = h.ack_bits[1]
    /\ h.ack_bits[2] # 255 => w[End2(h)] = h.ack_bits[2]
    /\ h.ack_bits[3] # 255 => w[End3(h)] = h.ack_bits[3]
    /\ h.ack_bits[4] # 255 => w[End4(h)] = h.ack_bits[4]

\* The places are in order, between 4 and 9.
LEMMA Ends ==
    ASSUME NEW h
    PROVE  /\ End0(h) \in 4 .. 5 /\ End1(h) \in 4 .. 6 /\ End2(h) \in 4 .. 7
           /\ End3(h) \in 4 .. 8 /\ End4(h) \in 4 .. 9
           /\ End1(h) = IF h.ack_bits[1] # 255 THEN End0(h) + 1 ELSE End0(h)
           /\ End2(h) = IF h.ack_bits[2] # 255 THEN End1(h) + 1 ELSE End1(h)
           /\ End3(h) = IF h.ack_bits[3] # 255 THEN End2(h) + 1 ELSE End2(h)
           /\ End4(h) = IF h.ack_bits[4] # 255 THEN End3(h) + 1 ELSE End3(h)
<1>1. End0(h) \in {4, 5}
  BY DEF End0
<1>3. End1(h) = IF h.ack_bits[1] # 255 THEN End0(h) + 1 ELSE End0(h)
  BY <1>1 DEF End1
<1>4. End2(h) = IF h.ack_bits[2] # 255 THEN End1(h) + 1 ELSE End1(h)
  BY <1>1, <1>3 DEF End2
<1>5. End3(h) = IF h.ack_bits[3] # 255 THEN End2(h) + 1 ELSE End2(h)
  BY <1>1, <1>3, <1>4 DEF End3
<1>6. End4(h) = IF h.ack_bits[4] # 255 THEN End3(h) + 1 ELSE End3(h)
  BY <1>1, <1>3, <1>4, <1>5 DEF End4
<1> QED BY <1>1, <1>3, <1>4, <1>5, <1>6

\* Concatenation, the second part counted from where it starts.
LEMMA Concat ==
    ASSUME NEW s \in Seq(U8), NEW t \in Seq(U8)
    PROVE  /\ s \o t \in Seq(U8)
           /\ Len(s) \in Nat /\ Len(t) \in Nat /\ Len(s \o t) = Len(s) + Len(t)
           /\ \A i \in 1 .. Len(s) : (s \o t)[i] = s[i]
           /\ \A j \in 1 .. Len(t) : (s \o t)[Len(s) + j] = t[j]
<1>1. Len(s) \in Nat /\ Len(t) \in Nat
  BY LenProperties
<1>2. /\ s \o t \in Seq(U8) /\ Len(s \o t) = Len(s) + Len(t)
      /\ \A i \in 1 .. Len(s) + Len(t) :
             (s \o t)[i] = IF i <= Len(s) THEN s[i] ELSE t[i - Len(s)]
  BY ConcatProperties
<1>3. ASSUME NEW i \in 1 .. Len(s)
      PROVE  (s \o t)[i] = s[i]
  <2>1. i \in 1 .. Len(s) + Len(t) /\ i <= Len(s)
    BY <1>1
  <2> QED BY <1>2, <2>1
<1>4. ASSUME NEW j \in 1 .. Len(t)
      PROVE  (s \o t)[Len(s) + j] = t[j]
  <2>1. /\ Len(s) + j \in 1 .. Len(s) + Len(t) /\ ~(Len(s) + j <= Len(s))
        /\ (Len(s) + j) - Len(s) = j
    BY <1>1
  <2> QED BY <1>2, <2>1
<1> QED BY <1>1, <1>2, <1>3, <1>4

\* r is s with a byte of ack_bits added at its end, unless the byte is 0xFF.
Added(s, b, r) ==
    /\ r \in Seq(U8)
    /\ Len(s) \in Nat /\ Len(r) = IF b # 255 THEN Len(s) + 1 ELSE Len(s)
    /\ \A i \in 1 .. Len(s) : r[i] = s[i]
    /\ b # 255 => r[Len(s) + 1] = b

\* A byte of ack_bits adds itself at the end, or nothing.
LEMMA AddAckBits ==
    ASSUME NEW s \in Seq(U8), NEW b \in U8
    PROVE  Added(s, b, s \o AckBitsByte(b))
<1>1. CASE b # 255
  <2>1. AckBitsByte(b) = <<b>>
    BY <1>1 DEF AckBitsByte
  <2>2. <<b>> \in Seq(U8) /\ Len(<<b>>) = 1 /\ <<b>>[1] = b /\ 1 \in 1 .. 1
    OBVIOUS
  <2>3. /\ s \o <<b>> \in Seq(U8) /\ Len(s) \in Nat /\ Len(s \o <<b>>) = Len(s) + 1
        /\ \A i \in 1 .. Len(s) : (s \o <<b>>)[i] = s[i]
        /\ \A j \in 1 .. Len(<<b>>) : (s \o <<b>>)[Len(s) + j] = <<b>>[j]
    BY <2>2, Concat
  <2>4. (s \o <<b>>)[Len(s) + 1] = b
    BY <2>2, <2>3
  <2> QED BY <1>1, <2>1, <2>3, <2>4 DEF Added
<1>2. CASE b = 255
  <2>1. AckBitsByte(b) = << >>
    BY <1>2 DEF AckBitsByte
  <2>2. s \o << >> = s /\ Len(s) \in Nat
    BY ConcatEmptySeq, LenProperties
  <2> QED BY <1>2, <2>1, <2>2 DEF Added
<1> QED BY <1>1, <1>2

\* The ack takes one byte or two.
LEMMA AckLayout ==
    ASSUME NEW h \in PacketHeader
    PROVE  /\ AckBytes(h) \in Seq(U8)
           /\ Len(AckBytes(h)) = End0(h) - 3
           /\ ShortAck(h) => AckBytes(h)[1] = SequenceDiff(h)
           /\ ~ShortAck(h) => /\ AckBytes(h)[1] = h.ack % 256
                              /\ AckBytes(h)[2] = h.ack \div 256
<1>1. CASE ShortAck(h)
  <2>1. AckBytes(h) = <<SequenceDiff(h)>> /\ SequenceDiff(h) \in U8
    BY <1>1, ShortAckExact DEF AckBytes
  <2>2. End0(h) - 3 = 1
    BY <1>1 DEF End0
  <2> QED BY <1>1, <2>1, <2>2
<1>2. CASE ~ShortAck(h)
  <2>1. h.ack \in U16
    BY DEF PacketHeader
  <2>2. AckBytes(h) = ToLeBytes(h.ack)
    BY <1>2 DEF AckBytes
  <2>3. End0(h) - 3 = 2
    BY <1>2 DEF End0
  <2> QED BY <1>2, <2>1, <2>2, <2>3, LeBytes
<1> QED BY <1>1, <1>2

\* write_to_slice() puts every part in its place.
LEMMA HeaderLayout ==
    ASSUME NEW h \in PacketHeader
    PROVE  /\ WriteHeader(h) \in Seq(U8)
           /\ Len(WriteHeader(h)) = End4(h)
           /\ Layout(h, WriteHeader(h))
<1> DEFINE s1 == <<Prefix(h)>>
           s2 == ToLeBytes(h.sequence)
           s3 == AckBytes(h)
           A == s1 \o s2
           W0 == A \o s3
           W1 == W0 \o AckBitsByte(h.ack_bits[1])
           W2 == W1 \o AckBitsByte(h.ack_bits[2])
           W3 == W2 \o AckBitsByte(h.ack_bits[3])
           W4 == W3 \o AckBitsByte(h.ack_bits[4])
           Front(w) == /\ w[1] = Prefix(h)
                       /\ w[2] = h.sequence % 256 /\ w[3] = h.sequence \div 256
                       /\ ShortAck(h) => w[4] = SequenceDiff(h)
                       /\ ~ShortAck(h) => w[4] = h.ack % 256 /\ w[5] = h.ack \div 256
           Byte(w, i, end) == h.ack_bits[i] # 255 => w[end] = h.ack_bits[i]
<1>0. /\ \A i \in 1 .. 4 : h.ack_bits[i] \in U8
      /\ h.sequence \in U16
  BY DEF PacketHeader
<1>1. WriteHeader(h) = W4
  BY DEF WriteHeader
<1>2. s1 \in Seq(U8) /\ Len(s1) = 1 /\ s1[1] = Prefix(h)
  BY PrefixBits
<1>3. /\ s2 \in Seq(U8) /\ Len(s2) = 2
      /\ s2[1] = h.sequence % 256 /\ s2[2] = h.sequence \div 256
  BY <1>0, LeBytes
<1>4. /\ s3 \in Seq(U8) /\ Len(s3) = End0(h) - 3
      /\ ShortAck(h) => s3[1] = SequenceDiff(h)
      /\ ~ShortAck(h) => s3[1] = h.ack % 256 /\ s3[2] = h.ack \div 256
  BY AckLayout
<1> HIDE DEF s1, s2, s3
<1>5. /\ A \in Seq(U8) /\ Len(A) = 3
      /\ A[1] = Prefix(h) /\ A[2] = h.sequence % 256 /\ A[3] = h.sequence \div 256
  <2>1. /\ A \in Seq(U8) /\ Len(A) = Len(s1) + Len(s2)
        /\ \A i \in 1 .. Len(s1) : A[i] = s1[i]
        /\ \A j \in 1 .. Len(s2) : A[Len(s1) + j] = s2[j]
    BY ONLY <1>2, <1>3, Concat, ZenonT(40) DEF A
  <2>2. 1 \in 1 .. 1 /\ 1 \in 1 .. 2 /\ 2 \in 1 .. 2 /\ 1 + 1 = 2 /\ 1 + 2 = 3
    BY ONLY SMT
  <2> HIDE DEF A
  <2> QED BY ONLY <1>2, <1>3, <2>1, <2>2, SMTT(30)
<1> HIDE DEF A
<1>6. W0 \in Seq(U8) /\ Len(W0) = End0(h) /\ Front(W0)
  <2>1. /\ W0 \in Seq(U8) /\ Len(W0) = Len(A) + Len(s3)
        /\ \A i \in 1 .. Len(A) : W0[i] = A[i]
        /\ \A j \in 1 .. Len(s3) : W0[Len(A) + j] = s3[j]
    BY ONLY <1>4, <1>5, Concat, ZenonT(40) DEF W0
  <2> HIDE DEF W0
  <2>2. W0[1] = A[1] /\ W0[2] = A[2] /\ W0[3] = A[3]
    BY <1>5, <2>1
  <2>3. CASE ShortAck(h)
    <3>1. End0(h) = 4 /\ Len(s3) = 1
      BY <1>4, <2>3 DEF End0
    <3>2. W0[3 + 1] = s3[1]
      BY <1>5, <2>1, <3>1
    <3> QED BY <1>4, <1>5, <2>1, <2>2, <2>3, <3>1, <3>2
  <2>4. CASE ~ShortAck(h)
    <3>1. End0(h) = 5 /\ Len(s3) = 2
      BY <1>4, <2>4 DEF End0
    <3>2. W0[3 + 1] = s3[1] /\ W0[3 + 2] = s3[2]
      BY <1>5, <2>1, <3>1
    <3> QED BY <1>4, <1>5, <2>1, <2>2, <2>4, <3>1, <3>2
  <2> QED BY <2>3, <2>4
<1> HIDE DEF W0
<1>7. End0(h) \in 4 .. 5 /\ (End0(h) = 5 <=> ~ShortAck(h))
  BY DEF End0
<1>8. ASSUME NEW v \in Seq(U8), NEW w, Len(v) >= End0(h), \A i \in 1 .. Len(v) : w[i] = v[i],
             Front(v)
      PROVE  Front(w)
  <2>1. Len(v) \in Nat
    BY LenProperties
  <2>2. w[1] = v[1] /\ w[2] = v[2] /\ w[3] = v[3] /\ w[4] = v[4]
        /\ (~ShortAck(h) => w[5] = v[5])
    BY <1>7, <1>8, <2>1
  <2> QED BY <1>8, <2>2
<1> HIDE DEF Front
<1>9. /\ W1 \in Seq(U8) /\ Len(W1) = End1(h) /\ Front(W1)
      /\ Byte(W1, 1, End1(h))
  <2>1. Added(W0, h.ack_bits[1], W1)
    BY <1>0, <1>6, AddAckBits
  <2> HIDE DEF W1
  <2>2. Front(W1)
    BY <1>6, <1>7, <1>8, <2>1 DEF Added
  <2> QED BY <1>6, <2>1, <2>2, Ends DEF Added
<1> HIDE DEF W1
<1>10. /\ W2 \in Seq(U8) /\ Len(W2) = End2(h) /\ Front(W2)
       /\ Byte(W2, 1, End1(h)) /\ Byte(W2, 2, End2(h))
  <2>1. Added(W1, h.ack_bits[2], W2)
    BY <1>0, <1>9, AddAckBits
  <2> HIDE DEF W2
  <2>2. Front(W2)
    BY <1>7, <1>8, <1>9, <2>1, Ends DEF Added
  <2>3. W2[End1(h)] = W1[End1(h)]
    BY <1>9, <2>1, Ends DEF Added
  <2> QED BY <1>9, <2>1, <2>2, <2>3, Ends DEF Added
<1> HIDE DEF W2
<1>11. /\ W3 \in Seq(U8) /\ Len(W3) = End3(h) /\ Front(W3)
       /\ Byte(W3, 1, End1(h)) /\ Byte(W3, 2, End2(h)) /\ Byte(W3, 3, End3(h))
  <2>1. Added(W2, h.ack_bits[3], W3)
    BY <1>0, <1>10, AddAckBits
  <2> HIDE DEF W3
  <2>2. Front(W3)
    BY <1>7, <1>8, <1>10, <2>1, Ends DEF Added
  <2>3. W3[End1(h)] = W2[End1(h)] /\ W3[End2(h)] = W2[End2(h)]
    BY <1>10, <2>1, Ends DEF Added
  <2> QED BY <1>10, <2>1, <2>2, <2>3, Ends DEF Added
<1> HIDE DEF W3
<1>12. /\ W4 \in Seq(U8) /\ Len(W4) = End4(h) /\ Front(W4)
       /\ Byte(W4, 1, End1(h)) /\ Byte(W4, 2, End2(h))
       /\ Byte(W4, 3, End3(h)) /\ Byte(W4, 4, End4(h))
  <2>1. Added(W3, h.ack_bits[4], W4)
    BY <1>0, <1>11, AddAckBits
  <2> HIDE DEF W4
  <2>2. Front(W4)
    BY <1>7, <1>8, <1>11, <2>1, Ends DEF Added
  <2>3. W4[End1(h)] = W3[End1(h)] /\ W4[End2(h)] = W3[End2(h)] /\ W4[End3(h)] = W3[End3(h)]
    BY <1>11, <2>1, Ends DEF Added
  <2> QED BY <1>11, <2>1, <2>2, <2>3, Ends DEF Added
<1> HIDE DEF W4
<1> QED BY <1>1, <1>12 DEF Layout, Front

--------------------------------------------------------------------------------
(* Reading a header back *)

\* data and w are the same as far as both go.
Agrees(data, w) == \A i \in 1 .. Len(data) : i <= Len(w) => data[i] = w[i]

\* None is no header.
LEMMA NoneIsNoHeader ==
    ASSUME NEW x, NEW n
    PROVE  [header |-> x, size |-> n] # None
<1>1. "header" \in DOMAIN [header |-> x, size |-> n]
  OBVIOUS
<1>2. "header" \notin DOMAIN None
  BY DEF None
<1> QED BY <1>1, <1>2

\* read() of data that starts like a written header, or ends within it.
LEMMA ReadExact ==
    ASSUME NEW h \in PacketHeader, NEW data \in Seq(U8), Agrees(data, WriteHeader(h))
    PROVE  ReadHeader(data) =
               IF Len(data) < Len(WriteHeader(h)) THEN None
               ELSE [header |-> h, size |-> Len(WriteHeader(h))]
<1> DEFINE w == WriteHeader(h)
           n == Len(data)
           p == data[1]
           sequence == FromLeBytes(data[2], data[3])
           byte(mask, pos) == IF Bit(p, mask) THEN data[pos] ELSE 255
           pos0 == IF Bit(p, 32) THEN 4 ELSE 5
           pos1 == pos0 + Flag(Bit(p, 2), 1)
           pos2 == pos1 + Flag(Bit(p, 4), 1)
           pos3 == pos2 + Flag(Bit(p, 8), 1)
           pos4 == pos3 + Flag(Bit(p, 16), 1)
           ack == IF Bit(p, 32) THEN (sequence - data[4]) % 65536
                  ELSE FromLeBytes(data[4], data[5])
           bits == <<byte(2, pos1), byte(4, pos2), byte(8, pos3), byte(16, pos4)>>
<1>1. ReadHeader(data) =
          IF n < 3 \/ Bit(p, 1) THEN None ELSE
          IF n < pos4 THEN None ELSE
          [header |-> [sequence |-> sequence, ack |-> ack, ack_bits |-> bits],
           size |-> pos4]
  BY DEF ReadHeader
<1>2. /\ n \in Nat /\ Len(w) = End4(h) /\ Layout(h, w)
      /\ \A i \in 1 .. n : i <= End4(h) => data[i] = w[i]
  BY HeaderLayout, LenProperties DEF Agrees
<1> HIDE DEF w, n
<1>3. CASE n < 3
  <2>1. n < Len(w)
    BY <1>2, <1>3, Ends
  <2> HIDE DEF sequence, ack, bits, pos4, p
  <2> QED BY <1>1, <1>3, <2>1 DEF w, n
<1>4. CASE ~(n < 3)
  <2>1. data[1] = w[1] /\ data[2] = w[2] /\ data[3] = w[3]
    BY <1>2, <1>4, Ends
  <2>2. p = Prefix(h)
    BY <1>2, <2>1 DEF Layout
  <2>3. /\ ~Bit(p, 1)
        /\ Bit(p, 2) <=> h.ack_bits[1] # 255
        /\ Bit(p, 4) <=> h.ack_bits[2] # 255
        /\ Bit(p, 8) <=> h.ack_bits[3] # 255
        /\ Bit(p, 16) <=> h.ack_bits[4] # 255
        /\ Bit(p, 32) <=> ShortAck(h)
    BY <2>2, PrefixBits
  <2>4. sequence = h.sequence
    <3>1. h.sequence \in U16
      BY DEF PacketHeader
    <3> QED BY <1>2, <2>1, <3>1, LeBytes DEF Layout
  <2> HIDE DEF p, sequence
  <2>5. pos0 = End0(h)
    BY <2>3 DEF End0
  <2> HIDE DEF pos0
  <2>6. pos1 = End1(h)
    BY <2>3, <2>5, Ends DEF Flag
  <2> HIDE DEF pos1
  <2>7. pos2 = End2(h)
    BY <2>3, <2>6, Ends DEF Flag
  <2> HIDE DEF pos2
  <2>8. pos3 = End3(h)
    BY <2>3, <2>7, Ends DEF Flag
  <2> HIDE DEF pos3
  <2>9. pos4 = End4(h)
    BY <2>3, <2>8, Ends DEF Flag
  <2> HIDE DEF pos4
  <2>10. CASE n < End4(h)
    <3> HIDE DEF ack, bits
    <3> QED BY <1>1, <1>2, <2>9, <2>10 DEF w, n
  <2>11. CASE ~(n < End4(h))
    <3>1. ack = h.ack
      <4>1. CASE ShortAck(h)
        <5>1. data[4] = w[4]
          BY <1>2, <2>11, Ends
        <5>2. data[4] = SequenceDiff(h)
          BY <1>2, <4>1, <5>1 DEF Layout
        <5> QED BY <2>3, <2>4, <4>1, <5>2, ShortAckExact
      <4>2. CASE ~ShortAck(h)
        <5>0. End0(h) = 5 /\ End4(h) \in Int /\ 5 <= End4(h)
          <6>1. End0(h) = 5
            BY <4>2 DEF End0
          <6> QED BY <6>1, Ends
        <5>1. data[4] = w[4] /\ data[5] = w[5]
          BY <1>2, <2>11, <5>0
        <5>2. h.ack \in U16
          BY DEF PacketHeader
        <5>3. data[4] = h.ack % 256 /\ data[5] = h.ack \div 256
          BY <1>2, <4>2, <5>1 DEF Layout
        <5>4. ack = FromLeBytes(h.ack % 256, h.ack \div 256)
          BY <2>3, <4>2, <5>3
        <5>5. FromLeBytes(h.ack % 256, h.ack \div 256) = h.ack
          BY <5>2, LeBytes
        <5> QED BY ONLY <5>4, <5>5
      <4> QED BY <4>1, <4>2
    <3>2. /\ data[End1(h)] = w[End1(h)] /\ data[End2(h)] = w[End2(h)]
          /\ data[End3(h)] = w[End3(h)] /\ data[End4(h)] = w[End4(h)]
      <4>1. ASSUME NEW i \in 4 .. End4(h) PROVE data[i] = w[i]
        BY <1>2, <2>11, Ends
      <4>2. /\ End1(h) \in 4 .. End4(h) /\ End2(h) \in 4 .. End4(h)
            /\ End3(h) \in 4 .. End4(h) /\ End4(h) \in 4 .. End4(h)
        BY Ends
      <4> QED BY ONLY <4>1, <4>2, Zenon
    <3>3. /\ byte(2, pos1) = h.ack_bits[1] /\ byte(4, pos2) = h.ack_bits[2]
          /\ byte(8, pos3) = h.ack_bits[3] /\ byte(16, pos4) = h.ack_bits[4]
      BY <1>2, <2>3, <2>6, <2>7, <2>8, <2>9, <3>2 DEF Layout
    <3>4. bits = h.ack_bits
      <4>1. h.ack_bits \in [1 .. 4 -> U8]
        BY DEF PacketHeader
      <4>2. bits = <<h.ack_bits[1], h.ack_bits[2], h.ack_bits[3], h.ack_bits[4]>>
        BY <3>3
      <4> HIDE DEF bits
      <4> QED BY <4>1, <4>2
    <3>5. h = [sequence |-> h.sequence, ack |-> h.ack, ack_bits |-> h.ack_bits]
      BY DEF PacketHeader
    <3> HIDE DEF ack, bits
    <3>6. ~(n < pos4)
      BY <2>9, <2>11
    <3> QED BY <1>1, <1>2, <1>4, <2>3, <2>4, <2>9, <2>11, <3>1, <3>4, <3>5, <3>6 DEF w, n
  <2> QED BY <2>10, <2>11
<1> QED BY <1>3, <1>4

--------------------------------------------------------------------------------
(* Parsing a datagram *)

\* What the sender can have encoded.
IsDatagram(d) ==
    /\ d.header \in PacketHeader /\ d.fragment \in FragmentHeader /\ d.payload \in Seq(U8)
    /\ \/ d.kind = "packet" /\ d.fragment = NoFragment
       \/ d.kind = "fragment" /\ (d.fragment.fragment_id # 0 => d.header = NoHeader)

\* The rest of data behind its first k bytes.
LEMMA FromRest ==
    ASSUME NEW data \in Seq(U8), NEW k \in 0 .. Len(data)
    PROVE  /\ From(data, k) \in Seq(U8)
           /\ Len(From(data, k)) = Len(data) - k
           /\ \A i \in 1 .. (Len(data) - k) : From(data, k)[i] = data[k + i]
<1>1. Len(data) \in Nat /\ k \in Int /\ 0 <= k /\ k <= Len(data) /\ k + 1 \in Int
  BY LenProperties
<1>2. \A i \in (k + 1) .. Len(data) : data[i] \in U8
  BY <1>1, ElementOfSeq
<1>3. /\ SubSeq(data, k + 1, Len(data)) \in Seq(U8)
      /\ Len(SubSeq(data, k + 1, Len(data))) =
             IF k + 1 <= Len(data) THEN Len(data) - (k + 1) + 1 ELSE 0
      /\ \A i \in 1 .. Len(data) - (k + 1) + 1 :
             SubSeq(data, k + 1, Len(data))[i] = data[(k + 1) + i - 1]
  BY <1>1, <1>2, SubSeqProperties
<1>4. ASSUME NEW i \in 1 .. (Len(data) - k)
      PROVE  i \in 1 .. Len(data) - (k + 1) + 1 /\ (k + 1) + i - 1 = k + i
  BY <1>1
<1> QED BY <1>1, <1>3, <1>4 DEF From

\* Taking off k bytes and then l is taking off k + l.
LEMMA FromFrom ==
    ASSUME NEW data \in Seq(U8), NEW k \in Nat, NEW l \in Nat, k + l <= Len(data)
    PROVE  From(From(data, k), l) = From(data, k + l)
<1>1. Len(data) \in Nat /\ k \in 0 .. Len(data) /\ k + l \in 0 .. Len(data)
      /\ l \in 0 .. (Len(data) - k)
  BY LenProperties
<1>2. /\ From(data, k) \in Seq(U8) /\ Len(From(data, k)) = Len(data) - k
      /\ \A i \in 1 .. (Len(data) - k) : From(data, k)[i] = data[k + i]
  BY <1>1, FromRest
<1>3. /\ From(data, k + l) \in Seq(U8) /\ Len(From(data, k + l)) = Len(data) - (k + l)
      /\ \A i \in 1 .. (Len(data) - (k + l)) : From(data, k + l)[i] = data[(k + l) + i]
  BY <1>1, FromRest
<1>4. /\ From(From(data, k), l) \in Seq(U8)
      /\ Len(From(From(data, k), l)) = (Len(data) - k) - l
      /\ \A i \in 1 .. ((Len(data) - k) - l) : From(From(data, k), l)[i] = From(data, k)[l + i]
  <2> DEFINE e == From(data, k)
  <2>1. e \in Seq(U8) /\ l \in 0 .. Len(e) /\ Len(e) = Len(data) - k
    BY <1>1, <1>2
  <2> HIDE DEF e
  <2>2. /\ From(e, l) \in Seq(U8) /\ Len(From(e, l)) = Len(e) - l
        /\ \A i \in 1 .. (Len(e) - l) : From(e, l)[i] = e[l + i]
    BY <2>1, FromRest
  <2> QED BY <2>1, <2>2 DEF e
<1>5. ASSUME NEW i \in 1 .. ((Len(data) - k) - l)
      PROVE  From(From(data, k), l)[i] = From(data, k + l)[i]
  <2>1. /\ l + i \in 1 .. (Len(data) - k) /\ i \in 1 .. (Len(data) - (k + l))
        /\ k + (l + i) = (k + l) + i
    BY <1>1
  <2> QED BY <1>2, <1>3, <1>4, <2>1
<1>6. (Len(data) - k) - l = Len(data) - (k + l)
  BY <1>1
<1> QED BY <1>3, <1>4, <1>5, <1>6, SeqEqual

\* The written fragment header.
LEMMA FragmentLayout ==
    ASSUME NEW f \in FragmentHeader
    PROVE  LET w == WriteFragmentHeader(f)
           IN  /\ w \in Seq(U8) /\ Len(w) = 5 /\ w[1] = 1
               /\ w[2] = f.sequence % 256 /\ w[3] = f.sequence \div 256
               /\ w[4] = f.fragment_id /\ w[5] = f.num_fragments
<1> DEFINE s1 == <<1>>
           s2 == ToLeBytes(f.sequence)
           s3 == <<f.fragment_id, f.num_fragments>>
           A == s1 \o s2
           w == A \o s3
<1>1. f.sequence \in U16 /\ f.fragment_id \in U8 /\ f.num_fragments \in U8 /\ 1 \in U8
  BY Ranges DEF FragmentHeader
<1>2. s1 \in Seq(U8) /\ Len(s1) = 1 /\ s1[1] = 1
  BY <1>1
<1>3. /\ s2 \in Seq(U8) /\ Len(s2) = 2
      /\ s2[1] = f.sequence % 256 /\ s2[2] = f.sequence \div 256
  BY <1>1, LeBytes
<1>4. /\ s3 \in Seq(U8) /\ Len(s3) = 2
      /\ s3[1] = f.fragment_id /\ s3[2] = f.num_fragments
  BY <1>1
<1>5. WriteFragmentHeader(f) = w
  BY DEF WriteFragmentHeader
<1> HIDE DEF s1, s2, s3
<1>6. /\ A \in Seq(U8) /\ Len(A) = 3
      /\ A[1] = 1 /\ A[2] = f.sequence % 256 /\ A[3] = f.sequence \div 256
  <2>1. /\ A \in Seq(U8) /\ Len(A) = Len(s1) + Len(s2)
        /\ \A i \in 1 .. Len(s1) : A[i] = s1[i]
        /\ \A j \in 1 .. Len(s2) : A[Len(s1) + j] = s2[j]
    BY ONLY <1>2, <1>3, Concat, ZenonT(40) DEF A
  <2>2. 1 \in 1 .. 1 /\ 1 \in 1 .. 2 /\ 2 \in 1 .. 2 /\ 1 + 1 = 2 /\ 1 + 2 = 3
    BY ONLY SMT
  <2> HIDE DEF A
  <2> QED BY ONLY <1>2, <1>3, <2>1, <2>2, SMTT(30)
<1> HIDE DEF A
<1>7. /\ w \in Seq(U8) /\ Len(w) = 5 /\ w[1] = A[1] /\ w[2] = A[2] /\ w[3] = A[3]
      /\ w[4] = s3[1] /\ w[5] = s3[2]
  <2>1. /\ w \in Seq(U8) /\ Len(w) = Len(A) + Len(s3)
        /\ \A i \in 1 .. Len(A) : w[i] = A[i]
        /\ \A j \in 1 .. Len(s3) : w[Len(A) + j] = s3[j]
    BY ONLY <1>4, <1>6, Concat, ZenonT(40) DEF w
  <2>2. /\ 1 \in 1 .. 3 /\ 2 \in 1 .. 3 /\ 3 \in 1 .. 3 /\ 3 + 2 = 5 /\ 3 + 1 = 4
        /\ 1 \in 1 .. 2 /\ 2 \in 1 .. 2
    BY ONLY SMT
  <2> HIDE DEF w
  <2> QED BY <1>4, <1>6, <2>1, <2>2
<1> HIDE DEF w
<1> QED BY <1>4, <1>5, <1>6, <1>7

\* The bytes in front of the payload.
LEMMA HeaderBytesFacts ==
    ASSUME NEW d, IsDatagram(d)
    PROVE  /\ HeaderBytes(d) \in Seq(U8) /\ Len(HeaderBytes(d)) \in Nat
           /\ d.kind = "packet" => HeaderBytes(d) = WriteHeader(d.header)
           /\ d.kind = "fragment" /\ d.fragment.fragment_id # 0 =>
                  HeaderBytes(d) = WriteFragmentHeader(d.fragment)
           /\ d.kind = "fragment" /\ d.fragment.fragment_id = 0 =>
                  HeaderBytes(d) = WriteFragmentHeader(d.fragment) \o WriteHeader(d.header)
<1>1. d.header \in PacketHeader /\ d.fragment \in FragmentHeader
  BY DEF IsDatagram
<1>2. WriteHeader(d.header) \in Seq(U8) /\ WriteFragmentHeader(d.fragment) \in Seq(U8)
  BY <1>1, HeaderLayout, FragmentLayout
<1>3. /\ << >> \o WriteHeader(d.header) = WriteHeader(d.header)
      /\ WriteFragmentHeader(d.fragment) \o << >> = WriteFragmentHeader(d.fragment)
  BY <1>2, ConcatEmptySeq
<1>4. /\ d.kind = "packet" => HeaderBytes(d) = WriteHeader(d.header)
      /\ d.kind = "fragment" /\ d.fragment.fragment_id # 0 =>
             HeaderBytes(d) = WriteFragmentHeader(d.fragment)
      /\ d.kind = "fragment" /\ d.fragment.fragment_id = 0 =>
             HeaderBytes(d) = WriteFragmentHeader(d.fragment) \o WriteHeader(d.header)
  BY <1>3 DEF HeaderBytes
<1>5. HeaderBytes(d) \in Seq(U8)
  BY <1>2, <1>4, Concat DEF IsDatagram
<1> QED BY <1>4, <1>5, LenProperties

\* Data that agrees with a concatenation agrees with its first part, and behind it
\* with its second.
LEMMA AgreesParts ==
    ASSUME NEW data \in Seq(U8), NEW s \in Seq(U8), NEW t \in Seq(U8), Agrees(data, s \o t)
    PROVE  /\ Agrees(data, s)
           /\ Len(s) <= Len(data) => Agrees(From(data, Len(s)), t)
<1>1. /\ Len(data) \in Nat /\ Len(s) \in Nat /\ Len(t) \in Nat
      /\ Len(s \o t) = Len(s) + Len(t)
      /\ \A i \in 1 .. Len(s) : (s \o t)[i] = s[i]
      /\ \A j \in 1 .. Len(t) : (s \o t)[Len(s) + j] = t[j]
  BY Concat, LenProperties
<1>2. Agrees(data, s)
  BY <1>1 DEF Agrees
<1>3. ASSUME Len(s) <= Len(data)
      PROVE  Agrees(From(data, Len(s)), t)
  <2>1. /\ Len(From(data, Len(s))) = Len(data) - Len(s)
        /\ \A i \in 1 .. (Len(data) - Len(s)) : From(data, Len(s))[i] = data[Len(s) + i]
    BY <1>1, <1>3, FromRest
  <2>2. ASSUME NEW i \in 1 .. (Len(data) - Len(s)), i <= Len(t)
        PROVE  From(data, Len(s))[i] = t[i]
    <3>1. /\ Len(s) + i \in 1 .. Len(data) /\ Len(s) + i <= Len(s \o t)
          /\ i \in 1 .. Len(t)
      BY <1>1, <1>3, <2>2
    <3>2. data[Len(s) + i] = (s \o t)[Len(s) + i]
      BY <3>1 DEF Agrees
    <3> QED BY <1>1, <2>1, <3>1, <3>2
  <2> QED BY <2>1, <2>2 DEF Agrees
<1> QED BY <1>2, <1>3

\* receive_packet() on a datagram of which some bytes may be missing at the end: it
\* is refused exactly if its headers are not whole, and read as what was sent else.
LEMMA ParseExact ==
    ASSUME NEW d, IsDatagram(d), NEW data \in Seq(U8), data # << >>,
           Agrees(data, HeaderBytes(d))
    PROVE  Parse(data) = IF Len(data) < Len(HeaderBytes(d)) THEN Refused
                         ELSE Accept(d.kind, d.fragment, d.header,
                                     From(data, Len(HeaderBytes(d))))
<1> DEFINE n == Len(data)
           f == d.fragment
           h == d.header
           b == HeaderBytes(d)
<1>1. /\ n \in Nat /\ n >= 1 /\ f \in FragmentHeader /\ h \in PacketHeader
      /\ b \in Seq(U8) /\ Len(b) \in Nat
  BY EmptySeq, LenProperties, HeaderBytesFacts DEF IsDatagram
<1>2. CASE d.kind = "packet"
  <2>1. f = NoFragment /\ b = WriteHeader(h) /\ Len(b) = End4(h) /\ b[1] = Prefix(h)
    BY <1>1, <1>2, HeaderBytesFacts, HeaderLayout DEF IsDatagram, Layout
  <2>2. data[1] = b[1]
    BY <1>1, <2>1, Ends DEF Agrees
  <2>3. ~IsFragmentPacket(data)
    BY <1>1, <2>1, <2>2, PrefixBits DEF IsFragmentPacket
  <2>4. ReadHeader(data) = IF n < Len(b) THEN None ELSE [header |-> h, size |-> Len(b)]
    BY <1>1, <2>1, ReadExact
  <2>5. Parse(data) = ParseRegular(data)
    BY <2>3 DEF Parse
  <2> HIDE DEF n, f, h, b
  <2>6. CASE n < Len(b)
    BY <2>4, <2>5, <2>6 DEF ParseRegular, n, b
  <2>7. CASE ~(n < Len(b))
    <3>1. ReadHeader(data) = [header |-> h, size |-> Len(b)] /\ ReadHeader(data) # None
      BY <2>4, <2>7, NoneIsNoHeader
    <3> QED BY <1>2, <2>1, <2>5, <2>7, <3>1 DEF ParseRegular, n, b, h, f
  <2> QED BY <2>6, <2>7
<1>3. CASE d.kind = "fragment"
  <2> DEFINE g == WriteFragmentHeader(f)
             rest == From(data, 5)
  <2>1. /\ g \in Seq(U8) /\ Len(g) = 5 /\ g[1] = 1
        /\ g[2] = f.sequence % 256 /\ g[3] = f.sequence \div 256
        /\ g[4] = f.fragment_id /\ g[5] = f.num_fragments
    BY <1>1, FragmentLayout
  <2>2. WriteHeader(h) \in Seq(U8) /\ Len(WriteHeader(h)) \in Nat
    BY <1>1, HeaderLayout, LenProperties
  <2>3. /\ f.fragment_id # 0 => b = g
        /\ f.fragment_id = 0 => b = g \o WriteHeader(h)
    BY <1>3, HeaderBytesFacts
  <2> HIDE DEF g
  <2>4. /\ Agrees(data, g)
        /\ f.fragment_id = 0 => Len(b) = 5 + Len(WriteHeader(h))
        /\ f.fragment_id = 0 /\ 5 <= n => Agrees(rest, WriteHeader(h))
    <3>1. CASE f.fragment_id # 0
      BY <2>3, <3>1
    <3>2. CASE f.fragment_id = 0
      <4> DEFINE t == WriteHeader(h)
      <4>1. t \in Seq(U8) /\ Agrees(data, g \o t) /\ b = g \o t
        BY <2>2, <2>3, <3>2
      <4> HIDE DEF t, b
      <4>2. Len(b) = Len(g) + Len(t)
        <5>1. Len(g \o t) = Len(g) + Len(t)
          BY ONLY <2>1, <4>1, Concat, ZenonT(40)
        <5> QED BY ONLY <4>1, <5>1, Zenon
      <4>3. Agrees(data, g) /\ (Len(g) <= Len(data) => Agrees(From(data, Len(g)), t))
        BY <2>1, <4>1, AgreesParts
      <4> QED BY <2>1, <3>2, <4>2, <4>3 DEF t
    <3> QED BY <3>1, <3>2
  <2>5. data[1] = 1
    BY <1>1, <2>1, <2>4 DEF Agrees
  <2>6. IsFragmentPacket(data) /\ Parse(data) = ParseFragment(data)
    <3>1. Bit(1, 1)
      BY DEF Bit
    <3> QED BY <2>5, <3>1 DEF IsFragmentPacket, Parse
  <2>7. 5 <= Len(b)
    <3>1. CASE f.fragment_id # 0
      <4>1. b = g /\ Len(g) = 5
        BY <2>1, <2>3, <3>1
      <4>2. Len(b) = 5
        BY ONLY <4>1
      <4> QED BY ONLY <4>2
    <3>2. CASE f.fragment_id = 0
      <4> DEFINE k == Len(WriteHeader(h))
      <4>1. Len(b) = 5 + k /\ k \in Nat
        BY <2>2, <2>4, <3>2
      <4> HIDE DEF b, k
      <4> QED BY <4>1
    <3> QED BY <3>1, <3>2
  <2>8. ReadFragmentHeader(data) = IF n < 5 THEN None ELSE f
    <3>1. Bit(data[1], 1)
      BY <2>5 DEF Bit
    <3>2. CASE n < 5
      BY <3>2 DEF ReadFragmentHeader, FRAGMENT_HEADER_BYTES
    <3>3. CASE ~(n < 5)
      <4>1. /\ data[2] = g[2] /\ data[3] = g[3] /\ data[4] = g[4] /\ data[5] = g[5]
        BY <1>1, <2>1, <2>4, <3>3 DEF Agrees
      <4>2. f.sequence \in U16
        BY <1>1 DEF FragmentHeader
      <4>3. FromLeBytes(data[2], data[3]) = f.sequence
        BY <2>1, <4>1, <4>2, LeBytes
      <4>4. f = [sequence |-> f.sequence, fragment_id |-> f.fragment_id,
                 num_fragments |-> f.num_fragments]
        BY <1>1 DEF FragmentHeader
      <4>5. ReadFragmentHeader(data) =
                [sequence |-> FromLeBytes(data[2], data[3]),
                 fragment_id |-> data[4], num_fragments |-> data[5]]
        BY <3>1, <3>3 DEF ReadFragmentHeader, FRAGMENT_HEADER_BYTES
      <4> HIDE DEF f
      <4> QED BY <2>1, <3>3, <4>1, <4>3, <4>4, <4>5
    <3> QED BY <3>2, <3>3
  <2>9. f # None
    <3>1. "sequence" \in DOMAIN f /\ "sequence" \notin DOMAIN None
      BY <1>1 DEF FragmentHeader, None
    <3> QED BY <3>1
  <2>10. ParseFragment(data) =
            IF ReadFragmentHeader(data) = None THEN Refused
            ELSE IF ReadFragmentHeader(data).fragment_id # 0
                 THEN Accept("fragment", ReadFragmentHeader(data), NoHeader, rest)
            ELSE IF ReadHeader(rest) = None THEN Refused
            ELSE Accept("fragment", ReadFragmentHeader(data), ReadHeader(rest).header,
                        From(rest, ReadHeader(rest).size))
    BY DEF ParseFragment, FRAGMENT_HEADER_BYTES
  <2> HIDE DEF n, f, h, b, rest
  <2>11. CASE n < 5
    <3>1. n < Len(b)
      BY <1>1, <2>7, <2>11
    <3> QED BY <2>6, <2>8, <2>10, <2>11, <3>1 DEF n, b
  <2>12. CASE ~(n < 5) /\ f.fragment_id # 0
    <3>1. Len(b) = 5 /\ h = NoHeader /\ ~(n < Len(b))
      BY <1>3, <2>1, <2>3, <2>12 DEF IsDatagram, f, h
    <3> QED BY <1>3, <2>6, <2>8, <2>9, <2>10, <2>12, <3>1 DEF n, b, f, h, rest
  <2>13. CASE ~(n < 5) /\ f.fragment_id = 0
    <3> DEFINE k == Len(WriteHeader(h))
    <3>1. rest \in Seq(U8) /\ Len(rest) = n - 5
      BY <1>1, <2>13, FromRest DEF n, rest
    <3>2. ReadHeader(rest) = IF n - 5 < k THEN None ELSE [header |-> h, size |-> k]
      BY <1>1, <2>4, <2>13, <3>1, ReadExact
    <3>3. k \in Nat /\ Len(b) = 5 + k
      BY <2>2, <2>4, <2>13
    <3> HIDE DEF k
    <3>4. n - 5 < k <=> n < Len(b)
      BY <1>1, <3>3
    <3>5. CASE n < Len(b)
      BY <2>6, <2>8, <2>9, <2>10, <2>13, <3>2, <3>4, <3>5 DEF n, b
    <3>6. CASE ~(n < Len(b))
      <4>1. ReadHeader(rest) = [header |-> h, size |-> k] /\ ReadHeader(rest) # None
        BY <3>2, <3>4, <3>6, NoneIsNoHeader
      <4>2. From(rest, k) = From(data, Len(b))
        <5>1. 5 \in Nat /\ 5 + k <= Len(data)
          BY <1>1, <3>3, <3>6 DEF n
        <5>2. From(From(data, 5), k) = From(data, 5 + k)
          BY <3>3, <5>1, FromFrom
        <5> QED BY <3>3, <5>2 DEF rest
      <4>3. Parse(data) = Accept("fragment", f, h, From(data, Len(b)))
        BY <2>6, <2>8, <2>9, <2>10, <2>13, <4>1, <4>2
      <4> QED BY <1>3, <3>6, <4>3 DEF n, b, f, h
    <3> QED BY <3>5, <3>6
  <2> QED BY <2>11, <2>12, <2>13
<1> QED BY <1>2, <1>3 DEF IsDatagram

--------------------------------------------------------------------------------
(* The theorems *)

\* All the bytes of a datagram.
FullBytes(d) == HeaderBytes(d) \o d.payload

\* The inductive invariant: what is on the wire is a beginning of what was sent, and
\* a result is what receive_packet() makes of it.
Inv ==
    /\ IsDatagram(datagram)
    /\ wire \in Seq(U8) /\ Len(wire) <= Len(FullBytes(datagram))
    /\ Agrees(wire, FullBytes(datagram))
    /\ \/ result = Waiting
       \/ result = Parse(wire) /\ wire # << >>

\* Nothing is a header of zeroes.
LEMMA NothingTyped == NoHeader \in PacketHeader /\ NoFragment \in FragmentHeader
<1>1. 0 \in U8 /\ 0 \in U16
  BY Ranges
<1>2. <<0, 0, 0, 0>> \in [1 .. 4 -> U8]
  BY <1>1
<1> QED BY <1>1, <1>2 DEF NoHeader, NoFragment, PacketHeader, FragmentHeader

\* The bytes of a datagram are bytes.
LEMMA FullBytesFacts ==
    ASSUME NEW d, IsDatagram(d)
    PROVE  /\ FullBytes(d) \in Seq(U8)
           /\ Len(HeaderBytes(d)) \in Nat /\ Len(d.payload) \in Nat
           /\ Len(FullBytes(d)) = Len(HeaderBytes(d)) + Len(d.payload)
           /\ \A j \in 1 .. Len(d.payload) :
                  FullBytes(d)[Len(HeaderBytes(d)) + j] = d.payload[j]
  BY HeaderBytesFacts, Concat DEF IsDatagram, FullBytes

\* Inv holds at the start.
LEMMA InitInv ==
    ASSUME Init
    PROVE  Inv
<1>1. datagram = Regular(NoHeader, << >>) /\ wire = << >> /\ result = Waiting
  BY DEF Init
<1>2. << >> \in Seq(U8) /\ Len(<< >>) = 0
  BY EmptySeq
<1>3. IsDatagram(datagram)
  BY <1>1, <1>2, NothingTyped DEF IsDatagram, Regular
<1>4. Len(FullBytes(datagram)) \in Nat
  BY <1>3, FullBytesFacts, LenProperties
<1> QED BY <1>1, <1>2, <1>3, <1>4 DEF Inv, Agrees

\* Every step keeps Inv.
LEMMA StepInv ==
    ASSUME Inv, [Next]_vars
    PROVE  Inv'
<1>1. ASSUME NEW d, IsDatagram(d), Send(d)
      PROVE  Inv'
  <2>1. datagram' = d /\ wire' = FullBytes(d) /\ result' = Waiting
    BY <1>1 DEF Send, FullBytes
  <2>2. FullBytes(d) \in Seq(U8) /\ Len(FullBytes(d)) \in Nat
    BY <1>1, FullBytesFacts
  <2> QED BY <1>1, <2>1, <2>2 DEF Inv, Agrees
<1>2. ASSUME NEW h \in PacketHeaders, NEW p \in Payloads, SendRegular(h, p)
      PROVE  Inv'
  <2>1. IsDatagram(Regular(h, p))
    BY CodecAssumption, NothingTyped DEF IsDatagram, Regular
  <2> QED BY <1>1, <1>2, <2>1 DEF SendRegular
<1>3. ASSUME NEW f \in FragmentHeaders, NEW h \in PacketHeaders, NEW p \in Payloads,
             SendFragment(f, h, p)
      PROVE  Inv'
  <2>1. IsDatagram(Fragment(f, h, p))
    BY CodecAssumption, NothingTyped DEF IsDatagram, Fragment
  <2> QED BY <1>1, <1>3, <2>1 DEF SendFragment
<1>4. ASSUME NEW n \in 1 .. Len(wire), Cut(n)
      PROVE  Inv'
  <2>1. /\ wire' = SubSeq(wire, 1, n) /\ datagram' = datagram /\ result' = Waiting
        /\ wire \in Seq(U8) /\ Len(wire) \in Nat /\ IsDatagram(datagram)
        /\ Len(FullBytes(datagram)) \in Nat
    BY <1>4, LenProperties, FullBytesFacts DEF Cut, Inv
  <2>2. n \in Int /\ 1 \in Int /\ 1 <= n /\ n <= Len(wire)
    BY <2>1
  <2>3. \A i \in 1 .. n : wire[i] \in U8
    BY <2>1, <2>2, ElementOfSeq
  <2>4. /\ wire' \in Seq(U8) /\ Len(wire') = IF 1 <= n THEN n - 1 + 1 ELSE 0
        /\ \A i \in 1 .. n - 1 + 1 : wire'[i] = wire[1 + i - 1]
    BY <2>1, <2>2, <2>3, SubSeqProperties
  <2>5. Len(wire') = n /\ \A i \in 1 .. n : wire'[i] = wire[i]
    BY <2>2, <2>4
  <2> QED BY <2>1, <2>2, <2>4, <2>5 DEF Inv, Agrees
<1>5. CASE Receive
  BY <1>5 DEF Receive, Inv
<1>6. CASE UNCHANGED vars
  BY <1>6 DEF vars, Inv
<1> QED BY <1>2, <1>3, <1>4, <1>5, <1>6 DEF Next

\* Inv holds in every state.
LEMMA Inductive == Spec => []Inv
  BY InitInv, StepInv, PTL DEF Spec

\* What receive_packet() made of the wire.
LEMMA ResultExact ==
    ASSUME Inv
    PROVE  LET b == HeaderBytes(datagram)
           IN  \/ result = Waiting
               \/ Len(wire) < Len(b) /\ result = Refused
               \/ /\ ~(Len(wire) < Len(b))
                  /\ result = Accept(datagram.kind, datagram.fragment, datagram.header,
                                     From(wire, Len(b)))
<1>1. IsDatagram(datagram) /\ wire \in Seq(U8) /\ Agrees(wire, FullBytes(datagram))
  BY DEF Inv
<1>2. HeaderBytes(datagram) \in Seq(U8) /\ datagram.payload \in Seq(U8)
  BY <1>1, HeaderBytesFacts DEF IsDatagram
<1>3. Agrees(wire, HeaderBytes(datagram))
  BY <1>1, <1>2, AgreesParts DEF FullBytes
<1>4. CASE result = Waiting
  BY <1>4
<1>5. CASE result = Parse(wire) /\ wire # << >>
  BY <1>1, <1>3, <1>5, ParseExact
<1> QED BY <1>4, <1>5 DEF Inv

\* The first byte of a datagram, cut or not, has the fragment flag in bit 0.
LEMMA FlagExact ==
    ASSUME Inv, wire # << >>
    PROVE  IsFragmentPacket(wire) <=> datagram.kind = "fragment"
<1> DEFINE b == HeaderBytes(datagram)
           h == datagram.header
           f == datagram.fragment
<1>1. /\ IsDatagram(datagram) /\ wire \in Seq(U8) /\ Agrees(wire, FullBytes(datagram))
      /\ h \in PacketHeader /\ f \in FragmentHeader /\ datagram.payload \in Seq(U8)
      /\ datagram.kind \in {"packet", "fragment"}
  BY DEF Inv, IsDatagram
<1>2. b \in Seq(U8) /\ Len(b) \in Nat /\ Agrees(wire, b)
  BY <1>1, HeaderBytesFacts, AgreesParts DEF FullBytes
<1>3. /\ WriteHeader(h) \in Seq(U8) /\ Len(WriteHeader(h)) \in 4 .. 9
      /\ WriteHeader(h)[1] = Prefix(h)
  <2>1. h \in PacketHeader
    BY <1>1
  <2> HIDE DEF h
  <2>2. /\ WriteHeader(h) \in Seq(U8) /\ Len(WriteHeader(h)) = End4(h)
        /\ Layout(h, WriteHeader(h)) /\ End4(h) \in 4 .. 9
    BY <2>1, HeaderLayout, Ends
  <2> QED BY <2>2 DEF Layout
<1>4. /\ WriteFragmentHeader(f) \in Seq(U8) /\ Len(WriteFragmentHeader(f)) = 5
      /\ WriteFragmentHeader(f)[1] = 1
  BY <1>1, FragmentLayout
<1> HIDE DEF b, h, f
<1>7. Len(b) >= 1 => wire[1] = b[1]
  <2>1. 1 \in 1 .. Len(wire)
    BY <1>1, EmptySeq
  <2> QED BY <1>2, <2>1 DEF Agrees
<1> USE DEF b, h, f
<1>5. CASE datagram.kind = "packet"
  <2>1. Len(b) \in Nat /\ Len(b) >= 1 /\ b[1] = Prefix(h)
    BY <1>1, <1>3, <1>5, HeaderBytesFacts
  <2>2. ~Bit(b[1], 1)
    BY <1>1, <2>1, PrefixBits
  <2> HIDE DEF b
  <2> QED BY <1>5, <1>7, <2>1, <2>2 DEF IsFragmentPacket
<1>6. CASE datagram.kind = "fragment"
  <2>1. Len(b) >= 1 /\ b[1] = 1
    <3>1. CASE f.fragment_id # 0
      BY <1>1, <1>4, <1>6, <3>1, HeaderBytesFacts
    <3>2. CASE f.fragment_id = 0
      BY <1>1, <1>3, <1>4, <1>6, <3>2, HeaderBytesFacts, Concat
    <3> QED BY <3>1, <3>2
  <2>2. Bit(1, 1)
    BY DEF Bit
  <2> HIDE DEF b
  <2> QED BY <1>6, <1>7, <2>1, <2>2 DEF IsFragmentPacket
<1> QED BY <1>1, <1>5, <1>6

\* What is on the wire are bytes, of which the first tells a fragment from any other
\* packet, and what is behind them are headers.
THEOREM CodecTypes == Spec => []TypeOK
<1>1. ASSUME Inv
      PROVE  TypeOK
  <2>1. wire # << >> => (IsFragmentPacket(wire) <=> datagram.kind = "fragment")
    BY <1>1, FlagExact
  <2> QED BY <1>1, <2>1, ResultExact DEF Inv, IsDatagram, TypeOK, Waiting, Refused, Accept
<1> QED BY <1>1, Inductive, PTL

\* Every header fits the 9 bytes that write_to_slice() asks for once, in front, and
\* takes at least 4: its unchecked writes stay within the buffer.
THEOREM HeadersFit == Spec => []HeaderFits
<1>1. ASSUME Inv
      PROVE  HeaderFits
  <2>1. datagram.header \in PacketHeader
    BY <1>1 DEF Inv, IsDatagram
  <2>2. Len(WriteHeader(datagram.header)) = End4(datagram.header)
    BY <2>1, HeaderLayout
  <2>3. End4(datagram.header) \in 4 .. 9
    BY Ends
  <2> QED BY <2>2, <2>3 DEF HeaderFits, MAX_PACKET_HEADER_BYTES
<1> QED BY <1>1, Inductive, PTL

\* read() inverts write(): whatever receive_packet() accepts, of a whole datagram or
\* of a cut one, are the headers and the payload that were sent, for every sequence,
\* every ack on either side of the wrap and every ack_bits.
THEOREM CodecLossless == Spec => []NothingMisread
<1>1. ASSUME Inv, result.status = "accepted"
      PROVE  /\ result.kind = datagram.kind
             /\ result.fragment = datagram.fragment
             /\ result.header = datagram.header
             /\ Len(result.payload) <= Len(datagram.payload)
             /\ result.payload = SubSeq(datagram.payload, 1, Len(result.payload))
             /\ Len(wire) = Len(HeaderBytes(datagram)) + Len(result.payload)
  <2> DEFINE l == Len(HeaderBytes(datagram))
             p == datagram.payload
             n == Len(wire)
             q == From(wire, l)
  <2>0. /\ IsDatagram(datagram) /\ wire \in Seq(U8) /\ p \in Seq(U8)
        /\ Agrees(wire, FullBytes(datagram)) /\ n <= Len(FullBytes(datagram))
    BY <1>1 DEF Inv, IsDatagram
  <2>1. Waiting.status # "accepted" /\ Refused.status # "accepted"
    BY DEF Waiting, Refused
  <2>2. /\ ~(n < l)
        /\ result = Accept(datagram.kind, datagram.fragment, datagram.header, q)
    BY <1>1, <2>1, ResultExact
  <2>3. /\ result.kind = datagram.kind /\ result.fragment = datagram.fragment
        /\ result.header = datagram.header /\ result.payload = q
    <3> HIDE DEF q
    <3> QED BY <2>2 DEF Accept
  <2>4. /\ l \in Nat /\ Len(p) \in Nat /\ n \in Nat /\ n <= l + Len(p)
        /\ Len(FullBytes(datagram)) = l + Len(p)
        /\ \A j \in 1 .. Len(p) : FullBytes(datagram)[l + j] = p[j]
    BY <2>0, FullBytesFacts, LenProperties
  <2>5. /\ q \in Seq(U8) /\ Len(q) = n - l
        /\ \A i \in 1 .. (n - l) : q[i] = wire[l + i]
    <3>1. l \in 0 .. Len(wire)
      BY <2>2, <2>4
    <3> HIDE DEF l
    <3> QED BY <2>0, <3>1, FromRest
  <2> HIDE DEF l, p, n, q
  <2>6. n - l \in Nat /\ n - l <= Len(p) /\ n = l + (n - l)
    BY <2>2, <2>4
  <2>7. \A i \in 1 .. (n - l) : p[i] \in U8
    BY <2>0, <2>4, <2>6, ElementOfSeq
  <2>8. /\ SubSeq(p, 1, n - l) \in Seq(U8)
        /\ Len(SubSeq(p, 1, n - l)) = IF 1 <= n - l THEN (n - l) - 1 + 1 ELSE 0
        /\ \A i \in 1 .. (n - l) - 1 + 1 : SubSeq(p, 1, n - l)[i] = p[1 + i - 1]
    BY <2>6, <2>7, 1 \in Int, n - l \in Int, SubSeqProperties
  <2>9. Len(SubSeq(p, 1, n - l)) = n - l
    BY <2>6, <2>8
  <2>10. ASSUME NEW i \in 1 .. (n - l)
         PROVE  q[i] = SubSeq(p, 1, n - l)[i]
    <3>1. /\ i \in 1 .. Len(p) /\ l + i \in 1 .. n /\ l + i <= l + Len(p)
          /\ i \in 1 .. (n - l) - 1 + 1 /\ 1 + i - 1 = i
      BY <2>4, <2>6
    <3>2. wire[l + i] = FullBytes(datagram)[l + i]
      BY <2>0, <2>4, <3>1 DEF Agrees, n
    <3> QED BY <2>4, <2>5, <2>8, <3>1, <3>2
  <2>11. q = SubSeq(p, 1, n - l)
    BY <2>5, <2>8, <2>9, <2>10, SeqEqual
  <2> QED BY <2>3, <2>5, <2>6, <2>11 DEF l, p, n
<1>2. Inv => NothingMisread
  BY <1>1 DEF NothingMisread
<1> QED BY <1>2, Inductive, PTL

\* A datagram whose headers arrived whole is never refused.
THEOREM OnlyCutHeadersRefused == Spec => []OnlyCutHeaderRefused
<1>1. ASSUME Inv
      PROVE  OnlyCutHeaderRefused
  <2>1. /\ Waiting.status # "refused"
        /\ \A k, f, h, p : Accept(k, f, h, p).status # "refused"
    BY DEF Waiting, Accept
  <2> QED BY <1>1, <2>1, ResultExact DEF OnlyCutHeaderRefused
<1> QED BY <1>1, Inductive, PTL

================================================================================
