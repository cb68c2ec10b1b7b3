------------------------------ MODULE PartsProofs -------------------------------
(***************************************************************************)
(* Proofs about the small parts.  Codecs: what the header and the trailer  *)
(* keep, for every number and length; that a text comes through the cipher *)
(* as it was typed, for every size of the buffer and all characters; and   *)
(* that the copy of a file of any size is the file.  KeyExchange, for      *)
(* every number of talkers, private keys, texts, messages and runs of the  *)
(* listener, and every pair of functions by which both ends compute the    *)
(* same key.  Echo,                                                        *)
(* for every number of clients, lines and starts of the server: a client   *)
(* that waits has at most one datagram on the way, its own line.           *)
(***************************************************************************)
EXTENDS Codecs, CodecProofs, KeyExchange, Echo, SequenceTheorems, WellFoundedInduction

(* Codecs. *)

LEMMA NumberType == CodecSpec => [](number \in Nat)
<1>1. CodecInit => number \in Nat
  BY DEF CodecInit
<1>2. number \in Nat /\ [NextNumber]_number => (number \in Nat)'
  BY DEF NextNumber
<1>. QED
  BY <1>1, <1>2, PTL DEF CodecSpec

\* The header of every packet of put is read back as it was written (buildPacket,
\* deconstructPacket), whatever its number is and for every length in Lengths.
THEOREM HeaderSurvivesCorrect == CodecSpec => []HeaderSurvives
<1>1. number \in Nat => HeaderSurvives
  BY HeaderRoundTrip, LengthsAssumption DEF HeaderSurvives
<1>. QED
  BY <1>1, NumberType, PTL

\* Numbers that are the same modulo the base are at least the base apart.
LEMMA SameNumber ==
    ASSUME NEW k \in Nat, NEW back \in 0..OperationBase-1, k >= back,
           (k - back) % OperationBase = k % OperationBase
    PROVE  back = 0
<1>1. PICK m \in Nat : m = k - back
  OBVIOUS
<1>2. PICK q \in Int, r \in Int : q = k \div OperationBase /\ r = m \div OperationBase
  BY <1>1, ModFacts
<1>3. PICK z \in Int : z = k % OperationBase /\ z = m % OperationBase
  BY <1>1, ModFacts
<1>4. k = (OperationBase * q) + z /\ m = (OperationBase * r) + z
  BY <1>1, <1>2, <1>3, ModFacts
<1>5. back = (OperationBase * q) - (OperationBase * r)
  BY <1>1, <1>2, <1>3, <1>4, BaseAssumption
<1>6. q >= r + 1 => OperationBase * q >= (OperationBase * r) + OperationBase
  BY <1>2, BaseAssumption
<1>7. q <= r - 1 => OperationBase * q <= (OperationBase * r) - OperationBase
  BY <1>2, BaseAssumption
<1>8. PICK x \in Int, y \in Int : x = OperationBase * q /\ y = OperationBase * r
  BY <1>2, BaseAssumption
<1>9. q = r \/ q >= r + 1 \/ q <= r - 1
  BY <1>2
<1>. QED
  BY <1>2, <1>5, <1>6, <1>7, <1>8, <1>9, BaseAssumption

\* Of the acknowledgements for the last OperationBase packets the client accepts the
\* one that answers the packet it sent last, and no other.
THEOREM OnlyThisAckCorrect == CodecSpec => []OnlyThisAckAccepted
<1> DEFINE numberRead(m) == DeconstructHeader(BuildHeader(m, 1020)).num
<1>1. ASSUME number \in Nat PROVE OnlyThisAckAccepted
  <2>1. 1020 \in 0..(OperationBase * OperationBase) - 1
    BY LengthsAssumption, BaseAssumption
  <2>2. \A m \in Nat : numberRead(m) = m % OperationBase
    BY <2>1, HeaderRoundTrip
  <2>3. \A m \in Nat : (m % OperationBase) % OperationBase = m % OperationBase
    <3>1. \A d \in 0..OperationBase-1 : d % OperationBase = d
      BY BaseAssumption
    <3>. QED
      BY <3>1, ModFacts
  <2>4. \A m \in Nat : m % OperationBase \in Nat /\ m % OperationBase \in 0..OperationBase-1
    BY ModFacts, BaseAssumption
  <2>5. \A m \in Nat : numberRead(numberRead(m)) = m % OperationBase
    BY <2>2, <2>3, <2>4
  <2>6. ASSUME NEW back \in 0..OperationBase-1, number >= back
        PROVE  MatchesAck(numberRead(numberRead(number - back)), number + 1) <=> back = 0
    <3>1. PICK m \in Nat : m = number - back
      BY <1>1, <2>6
    <3>2. numberRead(numberRead(m)) = m % OperationBase
      BY <2>5
    <3>3. MatchesAck(m % OperationBase, number + 1)
            <=> m % OperationBase = number % OperationBase
      BY <1>1, <2>4, AckMatchesSentPacket
    <3>4. m % OperationBase = number % OperationBase <=> back = 0
      BY <1>1, <2>6, <3>1, SameNumber
    <3> HIDE DEF numberRead
    <3>. QED
      BY <3>1, <3>2, <3>3, <3>4
  <2>. QED
    BY <2>6 DEF OnlyThisAckAccepted
<1>. QED
  BY <1>1, NumberType, PTL

\* A length of two digits or more is read back from the trailer as it was written
\* (sendFile, indexOfEOFInFile).
THEOREM LongSizeCorrect == CodecSpec => []LongSizeIsRead
<1>1. LongSizeIsRead
  BY LengthRoundTrip DEF LongSizeIsRead, SizeRead
<1>. QED
  BY <1>1, PTL

\* The trailer tells the last packet of a file from the others, also when the byte
\* that sendFile never wrote is read.
THEOREM LastIsRecognisedCorrect == CodecSpec => []LastIsRecognised
<1>1. LastIsRecognised
  BY LastIsTold DEF LastIsRecognised, SizeRead
<1>. QED
  BY <1>1, PTL

-----------------------------------------------------------------------------

(* The cipher of talk and listen. *)

\* A byte is what its bits are worth, and has no others.
LEMMA Halves ==
    ASSUME NEW n \in Nat, NEW b \in 0..1, NEW m \in Nat, n = b + 2 * m
    PROVE  n \div 2 = m /\ n % 2 = b
OBVIOUS

Bits == [1..8 -> 0..1]
Value(b) == b[1] + 2*b[2] + 4*b[3] + 8*b[4] + 16*b[5] + 32*b[6] + 64*b[7] + 128*b[8]

LEMMA WorthOfBits ==
    ASSUME NEW b \in Bits
    PROVE  /\ Value(b) \in 0..255
           /\ (Value(b) \div 1) % 2 = b[1] /\ (Value(b) \div 2) % 2 = b[2]
           /\ (Value(b) \div 4) % 2 = b[3] /\ (Value(b) \div 8) % 2 = b[4]
           /\ (Value(b) \div 16) % 2 = b[5] /\ (Value(b) \div 32) % 2 = b[6]
           /\ (Value(b) \div 64) % 2 = b[7] /\ (Value(b) \div 128) % 2 = b[8]
<1>1. PICK n \in Nat : n = Value(b)
  BY DEF Bits, Value
<1>2. PICK b1 \in 0..1, b2 \in 0..1, b3 \in 0..1, b4 \in 0..1 :
          b1 = b[1] /\ b2 = b[2] /\ b3 = b[3] /\ b4 = b[4]
  BY DEF Bits
<1>3. PICK b5 \in 0..1, b6 \in 0..1, b7 \in 0..1, b8 \in 0..1 :
          b5 = b[5] /\ b6 = b[6] /\ b7 = b[7] /\ b8 = b[8]
  BY DEF Bits
<1>4. n = b1 + 2*b2 + 4*b3 + 8*b4 + 16*b5 + 32*b6 + 64*b7 + 128*b8
  BY <1>1, <1>2, <1>3 DEF Value
<1>5. /\ n \div 1 = n
      /\ n \div 2 = b2 + 2*b3 + 4*b4 + 8*b5 + 16*b6 + 32*b7 + 64*b8
      /\ n \div 4 = b3 + 2*b4 + 4*b5 + 8*b6 + 16*b7 + 32*b8
      /\ n \div 8 = b4 + 2*b5 + 4*b6 + 8*b7 + 16*b8
      /\ n \div 16 = b5 + 2*b6 + 4*b7 + 8*b8
      /\ n \div 32 = b6 + 2*b7 + 4*b8
      /\ n \div 64 = b7 + 2*b8
      /\ n \div 128 = b8
  BY <1>4
<1>6. /\ (n \div 1) % 2 = b1 /\ (n \div 2) % 2 = b2 /\ (n \div 4) % 2 = b3
      /\ (n \div 8) % 2 = b4 /\ (n \div 16) % 2 = b5 /\ (n \div 32) % 2 = b6
      /\ (n \div 64) % 2 = b7 /\ (n \div 128) % 2 = b8
  BY <1>4, <1>5, Halves
<1>7. n \in 0..255
  BY <1>4
<1>. QED
  BY <1>1, <1>2, <1>3, <1>6, <1>7

LEMMA BitsOf ==
    ASSUME NEW n \in 0..255
    PROVE  \E b \in Bits : n = Value(b)
<1>1. \A k \in Nat : k % 2 \in 0..1 /\ k \div 2 \in Nat /\ k = (k % 2) + 2 * (k \div 2)
  OBVIOUS
<1>2. PICK b1 \in 0..1, n1 \in Nat : n = b1 + 2 * n1
  <2>1. n \in Nat
    OBVIOUS
  <2>. QED
    BY <1>1, <2>1, Zenon
<1>3. PICK b2 \in 0..1, n2 \in Nat : n1 = b2 + 2 * n2
  BY <1>1
<1>4. PICK b3 \in 0..1, n3 \in Nat : n2 = b3 + 2 * n3
  BY <1>1
<1>5. PICK b4 \in 0..1, n4 \in Nat : n3 = b4 + 2 * n4
  BY <1>1
<1>6. PICK b5 \in 0..1, n5 \in Nat : n4 = b5 + 2 * n5
  BY <1>1
<1>7. PICK b6 \in 0..1, n6 \in Nat : n5 = b6 + 2 * n6
  BY <1>1
<1>8. PICK b7 \in 0..1, n7 \in Nat : n6 = b7 + 2 * n7
  BY <1>1
<1>9. n7 \in 0..1
  BY <1>2, <1>3, <1>4, <1>5, <1>6, <1>7, <1>8
<1>. DEFINE b == <<b1, b2, b3, b4, b5, b6, b7, n7>>
<1>10. b \in Bits
  BY <1>9 DEF Bits
<1>11. n = Value(b)
  BY <1>2, <1>3, <1>4, <1>5, <1>6, <1>7, <1>8 DEF Value
<1>. QED
  BY <1>10, <1>11

LEMMA XorOfBits ==
    ASSUME NEW a \in Bits, NEW b \in Bits, NEW d \in Bits,
           \A i \in 1..8 : d[i] = IF a[i] # b[i] THEN 1 ELSE 0
    PROVE  Xor(Value(a), Value(b)) = Value(d)
<1>. DEFINE differ(w) ==
         IF (Value(a) \div w) % 2 # (Value(b) \div w) % 2 THEN w ELSE 0
<1>1. /\ differ(1) = d[1] /\ differ(2) = 2*d[2] /\ differ(4) = 4*d[3] /\ differ(8) = 8*d[4]
      /\ differ(16) = 16*d[5] /\ differ(32) = 32*d[6]
      /\ differ(64) = 64*d[7] /\ differ(128) = 128*d[8]
  BY WorthOfBits
<1>2. Xor(Value(a), Value(b)) =
          differ(1) + differ(2) + differ(4) + differ(8)
            + differ(16) + differ(32) + differ(64) + differ(128)
  BY DEF Xor
<1>. QED
  BY <1>1, <1>2 DEF Value

\* Encrypting twice with one key gives the character back, and a zero comes only of
\* the key itself.
LEMMA XorFacts ==
    ASSUME NEW c \in 0..255, NEW k \in 0..255
    PROVE  /\ Xor(c, k) \in 0..255
           /\ Xor(Xor(c, k), k) = c
           /\ Xor(c, k) = 0 <=> c = k
<1>1. PICK a \in Bits : c = Value(a)
  BY BitsOf
<1>2. PICK b \in Bits : k = Value(b)
  BY BitsOf
<1>. DEFINE d == [i \in 1..8 |-> IF a[i] # b[i] THEN 1 ELSE 0]
<1>3. /\ d \in Bits
      /\ \A i \in 1..8 : d[i] = IF a[i] # b[i] THEN 1 ELSE 0
      /\ \A i \in 1..8 : a[i] = IF d[i] # b[i] THEN 1 ELSE 0
  BY DEF Bits
<1>. HIDE DEF d
<1>4. Xor(Value(a), Value(b)) = Value(d)
  BY <1>3, XorOfBits
<1>5. Xor(Value(d), Value(b)) = Value(a)
  BY <1>3, XorOfBits
<1>6. Value(d) = 0 <=> Value(a) = Value(b)
  <2>1. Value(a) = Value(b) => \A i \in 1..8 : a[i] = b[i]
    BY WorthOfBits
  <2>2. (\A i \in 1..8 : a[i] = b[i]) => Value(d) = 0
    BY <1>3 DEF Value
  <2>3. Value(d) = 0 => \A i \in 1..8 : d[i] = 0
    BY <1>3 DEF Bits, Value
  <2>4. (\A i \in 1..8 : d[i] = 0) => Value(a) = Value(b)
    BY <1>3 DEF Bits, Value
  <2>. QED
    BY <2>1, <2>2, <2>3, <2>4
<1>. QED
  BY <1>1, <1>2, <1>3, <1>4, <1>5, <1>6, WorthOfBits

LEMMA StrLenIs ==
    ASSUME NEW b, NEW l \in 0..BufSize-1, b[l+1] = 0, \A i \in 1..l : b[i] # 0
    PROVE  StrLen(b) = l
<1>1. \A m \in 0..BufSize-1 :
          b[m+1] = 0 /\ (\A i \in 1..m : b[i] # 0) => m = l
  <2>1. SUFFICES ASSUME NEW m \in 0..BufSize-1, b[m+1] = 0, \A i \in 1..m : b[i] # 0
                 PROVE  m = l
    OBVIOUS
  <2>2. ~(m < l)
    BY <2>1, BufSizeAssumption
  <2>3. ~(l < m)
    BY <2>1, BufSizeAssumption
  <2>. QED
    BY <2>2, <2>3, BufSizeAssumption
<1>. QED
  BY <1>1, BufSizeAssumption DEF StrLen

\* A message that does not hold the key as a character is printed as it was typed.
LEMMA TextSurvives ==
    ASSUME NEW pad \in 1..255, NEW n \in 0..BufSize-1, NEW text \in [1..n -> 1..255],
           \A i \in 1..n : text[i] # pad
    PROVE  PrintedText(SentBytes(text, pad), pad) = text
<1>. DEFINE typed == Buffer(text)
            enciphered == BitWiseXOR(typed, pad)
            bytes == SubSeq(enciphered, 1, BufSize - 1)
            received == Buffer(bytes)
            deciphered == BitWiseXOR(received, pad)
<1>0. pad \in 0..255 /\ \A v \in 1..255 : v # 0
  OBVIOUS
<1>1. BufSize \in Nat \ {0} /\ n \in Nat /\ Len(text) = n
  BY BufSizeAssumption
<1>2. \A i \in 1..BufSize : typed[i] = IF i <= n THEN text[i] ELSE 0
  BY <1>1 DEF Buffer
<1>3. ASSUME NEW i \in 1..BufSize PROVE typed[i] \in 0..255 /\ typed[i] # pad
  <2>1. CASE i <= n
    <3>1. typed[i] = text[i] /\ i \in 1..n /\ text[i] \in 1..255
      BY <1>1, <1>2, <2>1
    <3>. QED
      BY <3>1
  <2>2. CASE ~(i <= n)
    <3>1. typed[i] = 0
      BY <1>2, <2>2
    <3>. QED
      BY <3>1
  <2>. QED
    BY <2>1, <2>2
<1>. HIDE DEF typed
<1>4. \A i \in 1..BufSize : enciphered[i] = IF i < BufSize THEN Xor(typed[i], pad) ELSE typed[i]
  BY DEF BitWiseXOR
<1>5. DOMAIN enciphered = 1..BufSize
  BY DEF BitWiseXOR
<1>. HIDE DEF enciphered
<1>6. /\ enciphered[BufSize] = 0
      /\ \A i \in 1..BufSize-1 : enciphered[i] \in 1..255 /\ Xor(enciphered[i], pad) = typed[i]
  <2>1. enciphered[BufSize] = 0
    BY <1>1, <1>2, <1>4
  <2>2. ASSUME NEW i \in 1..BufSize-1
        PROVE  enciphered[i] \in 1..255 /\ Xor(enciphered[i], pad) = typed[i]
    <3>1. i \in 1..BufSize /\ i < BufSize /\ enciphered[i] = Xor(typed[i], pad)
      BY <1>1, <1>4
    <3>2. PICK c \in 0..255 : c = typed[i] /\ c # pad
      BY <1>3, <3>1
    <3>3. Xor(c, pad) \in 0..255 /\ Xor(Xor(c, pad), pad) = c /\ Xor(c, pad) # 0
      BY <3>2, <1>0, XorFacts
    <3>. QED
      BY <3>1, <3>2, <3>3
  <2>. QED
    BY <2>1, <2>2
<1>7. StrLen(enciphered) = BufSize - 1
  <2>1. BufSize - 1 \in 0..BufSize-1 /\ (BufSize - 1) + 1 = BufSize
    BY <1>1
  <2>2. enciphered[(BufSize - 1) + 1] = 0
    BY <1>6, <2>1
  <2>3. \A i \in 1..BufSize-1 : enciphered[i] # 0
    BY <1>0, <1>6, Zenon
  <2>. QED
    BY <2>1, <2>2, <2>3, StrLenIs
<1>8. SentBytes(text, pad) = bytes
  BY <1>7 DEF SentBytes, enciphered, typed
<1>9. Len(bytes) = BufSize - 1 /\ \A i \in 1..BufSize-1 : bytes[i] = enciphered[i]
  BY <1>1
<1>. HIDE DEF bytes
<1>10. \A i \in 1..BufSize : received[i] = IF i < BufSize THEN enciphered[i] ELSE 0
  BY <1>1, <1>9 DEF Buffer
<1>. HIDE DEF received
<1>11. \A i \in 1..BufSize : deciphered[i] = typed[i]
  <2>1. \A i \in 1..BufSize : deciphered[i] = IF i < BufSize THEN Xor(received[i], pad)
                                                          ELSE received[i]
    BY DEF BitWiseXOR
  <2>. QED
    BY <1>1, <1>2, <1>6, <1>10, <2>1
<1>12. DOMAIN deciphered = 1..BufSize
  BY DEF BitWiseXOR
<1>. HIDE DEF deciphered
<1>13. StrLen(deciphered) = n
  <2>1. n + 1 \in 1..BufSize /\ deciphered[n+1] = 0
    BY <1>1, <1>2, <1>11
  <2>2. ASSUME NEW i \in 1..n PROVE deciphered[i] # 0
    <3>1. i \in 1..BufSize /\ deciphered[i] = text[i] /\ text[i] \in 1..255
      BY <1>1, <1>2, <1>11
    <3>. QED
      BY <1>0, <3>1, Zenon
  <2>. QED
    BY <2>1, <2>2, StrLenIs
<1>14. PrintedText(bytes, pad) = SubSeq(deciphered, 1, n)
  BY <1>13 DEF PrintedText, deciphered, received
<1>15. SubSeq(deciphered, 1, n) = text
  <2>1. SubSeq(deciphered, 1, n) = [i \in 1..n |-> deciphered[i]]
    BY <1>1
  <2>. QED
    BY <1>1, <1>2, <1>11, <2>1
<1>. QED
  BY <1>8, <1>14, <1>15

\* Every text of the characters that fits the buffer, and does not hold the key, is
\* printed by listen as it was typed into talk, for every size of the buffer and
\* every set of characters (talk.c, listen.c: bitWiseXOR, strlen, bzero).
THEOREM TextArrivesCorrect == CodecSpec => []TextArrives
<1>1. TextArrives
  <2>1. SUFFICES ASSUME number \in 1..PrimeModulus-1,
                        NEW text \in BoundedSeq(Characters \ {number}, BufSize - 1)
                 PROVE  PrintedText(SentBytes(text, number), number) = text
    BY DEF TextArrives
  <2>2. PICK m \in 0..BufSize-1 : text \in [1..m -> Characters \ {number}]
    BY BufSizeAssumption DEF BoundedSeq, SeqOf
  <2>3. text \in [1..m -> 1..255] /\ \A i \in 1..m : text[i] # number
    BY <2>2, CharactersAssumption
  <2>4. number \in 1..255
    BY <2>1 DEF PrimeModulus
  <2>. QED
    BY <2>2, <2>3, <2>4, TextSurvives
<1>. QED
  BY <1>1, PTL

-----------------------------------------------------------------------------

(* The copy of a file. *)

\* The digits of a number, from the last one.
Digits(n) == <<DigitAt(n, 1), DigitAt(n, 10), DigitAt(n, 100), DigitAt(n, 1000)>>

LEMMA FourDigits ==
    ASSUME NEW n \in 0..BlockCapacity
    PROVE  /\ \A j \in 1..4 : Digits(n)[j] \in 0..9
           /\ n = 1000 * Digits(n)[4] + 100 * Digits(n)[3] + 10 * Digits(n)[2] + Digits(n)[1]
<1>1. PICK q \in Int, r \in Int, s \in Int :
          q = n \div 10 /\ r = n \div 100 /\ s = n \div 1000
  OBVIOUS
<1>2. /\ n \in Int /\ 0 <= n /\ n < 10000
      /\ 10 * q <= n /\ n < 10 * q + 10 /\ n % 10 = n - 10 * q
      /\ 100 * r <= n /\ n < 100 * r + 100
      /\ 1000 * s <= n /\ n < 1000 * s + 1000
      /\ n \div 1 = n
  BY <1>1 DEF BlockCapacity, CopyBufSize
<1>3. /\ 10 * r <= q /\ q < 10 * r + 10 /\ 10 * s <= r /\ r < 10 * s + 10
      /\ 0 <= s /\ s < 10
  BY <1>2
<1>4. q % 10 = q - 10 * r /\ r % 10 = r - 10 * s /\ s % 10 = s
  BY <1>3
<1>5. PICK d \in 0..9 : d = s
  BY <1>3
<1>6. PICK c \in 0..9 : c = r - 10 * s
  BY <1>3
<1>7. PICK b \in 0..9 : b = q - 10 * r
  BY <1>3
<1>8. PICK a \in 0..9 : a = n - 10 * q
  BY <1>2
<1>9. n = 1000 * d + 100 * c + 10 * b + a
  BY <1>2, <1>5, <1>6, <1>7, <1>8
<1>10. Digits(n) = <<a, b, c, d>>
  BY <1>1, <1>2, <1>4, <1>5, <1>6, <1>7, <1>8 DEF Digits, DigitAt
<1>. QED
  BY <1>9, <1>10

LEMMA LengthDigits ==
    ASSUME NEW n \in 0..BlockCapacity
    PROVE  \E d \in 1..4 :
              /\ \A i \in 1..5 : LengthString(n)[i] =
                    IF i <= d THEN Character(Digits(n)[d - i + 1]) ELSE EndOfString
              /\ \A i \in 1..4 : i > d => Digits(n)[i] = 0
<1>. DEFINE P(d) == n < 10 * Worth[d] /\ (d > 1 => n >= Worth[d])
<1>1. n \in Int /\ 0 <= n /\ n < 1020 /\ n \in 0..9999
  BY DEF BlockCapacity, CopyBufSize
<1>3. /\ Worth[1] = 1 /\ Worth[2] = 10 /\ Worth[3] = 100 /\ Worth[4] = 1000
      /\ Worth[5] = 10000
  BY DEF Worth
<1>4. ASSUME NEW d \in 1..4, P(d)
      PROVE  (CHOOSE k \in 1..5 : P(k)) = d
  <2>1. \A k \in 1..5 : P(k) => k = d
    BY <1>1, <1>3, <1>4
  <2>. QED
    BY <1>4, <2>1
<1>5. PICK d \in 1..4 : P(d)
  BY <1>1, <1>3
<1>6. LengthString(n) = [i \in 1..5 |-> IF i <= d
                             THEN Character((n \div Worth[d - i + 1]) % 10)
                             ELSE EndOfString]
  <2>. DEFINE digits == CHOOSE k \in 1..5 : P(k)
  <2>1. LengthString(n) = [i \in 1..5 |-> IF i <= digits
                               THEN Character((n \div Worth[digits - i + 1]) % 10)
                               ELSE EndOfString]
    BY Zenon DEF LengthString
  <2>2. digits = d
    BY <1>4, <1>5, Zenon
  <2>. QED
    BY <2>1, <2>2, Zenon
<1>7. \A j \in 1..4 : (n \div Worth[j]) % 10 = Digits(n)[j]
  BY <1>3 DEF Digits, DigitAt
<1>8. \A i \in 1..5 : i <= d => d - i + 1 \in 1..4
  OBVIOUS
<1>9. \A i \in 1..5 : LengthString(n)[i] =
          IF i <= d THEN Character(Digits(n)[d - i + 1]) ELSE EndOfString
  BY <1>6, <1>7, <1>8
<1>10. \A i \in 1..4 : i > d => Digits(n)[i] = 0
  <2>1. (d < 2 => n < 10) /\ (d < 3 => n < 100) /\ (d < 4 => n < 1000)
    BY <1>1, <1>3, <1>5
  <2>2. /\ \A j \in 1..4 : Digits(n)[j] \in 0..9
        /\ n = 1000 * Digits(n)[4] + 100 * Digits(n)[3] + 10 * Digits(n)[2] + Digits(n)[1]
    BY FourDigits
  <2>3. PICK a \in 0..9 : a = Digits(n)[1]
    BY <2>2
  <2>4. PICK b \in 0..9 : b = Digits(n)[2]
    BY <2>2
  <2>5. PICK c \in 0..9 : c = Digits(n)[3]
    BY <2>2
  <2>6. PICK e \in 0..9 : e = Digits(n)[4]
    BY <2>2
  <2>7. n = 1000 * e + 100 * c + 10 * b + a
    BY <2>2, <2>3, <2>4, <2>5, <2>6
  <2>8. (d < 2 => b = 0) /\ (d < 3 => c = 0) /\ (d < 4 => e = 0)
    BY <1>1, <2>1, <2>7
  <2>. QED
    BY <2>4, <2>5, <2>6, <2>8
<1>. QED
  BY <1>5, <1>9, <1>10, Zenon

\* atoi reads back what sprintf wrote.
LEMMA LengthIsRead ==
    ASSUME NEW n \in 0..BlockCapacity, NEW block,
           \A i \in 1..5 : block[CopyBufSize - 5 + i] = LengthString(n)[i]
    PROVE  NumBytesToRead(block) = n
<1>. DEFINE char(i) == block[CopyBufSize - 5 + i]
            Q(k) == (\A i \in 1..k : char(i) < 0) /\ (k = 5 \/ char(k + 1) >= 0)
<1>1. PICK d \in 1..4 :
          /\ \A i \in 1..5 : LengthString(n)[i] =
                IF i <= d THEN Character(Digits(n)[d - i + 1]) ELSE EndOfString
          /\ \A i \in 1..4 : i > d => Digits(n)[i] = 0
  BY LengthDigits
<1>2. \A i \in 1..5 : char(i) =
          IF i <= d THEN -(Digits(n)[d - i + 1] + 1) ELSE 0
  BY <1>1 DEF Character, EndOfString
<1>. HIDE DEF char
<1>3. /\ \A j \in 1..4 : Digits(n)[j] \in 0..9
      /\ n = 1000 * Digits(n)[4] + 100 * Digits(n)[3] + 10 * Digits(n)[2] + Digits(n)[1]
  BY FourDigits
<1>4. \A i \in 1..5 : i <= d => d - i + 1 \in 1..4
  OBVIOUS
<1>5. \A i \in 1..5 : (i <= d => char(i) < 0) /\ (i > d => char(i) = 0)
  BY <1>2, <1>3, <1>4
<1>6. \A i \in 1..5 : i <= d => DigitOf(char(i)) = Digits(n)[d - i + 1]
  BY <1>2, <1>3, <1>4 DEF DigitOf
<1>7. Q(d)
  BY <1>5
<1>8. ASSUME NEW k \in 0..5, Q(k) PROVE k = d
  <2>1. ~(k < d)
    <3>1. k < d => k + 1 \in 1..5 /\ k + 1 <= d /\ k # 5
      OBVIOUS
    <3>2. \A i \in 1..5 : char(i) \in Int
      BY <1>2, <1>3, <1>4
    <3>. QED
      BY <1>5, <1>8, <3>1, <3>2
  <2>2. ~(d < k)
    BY <1>5, <1>8
  <2>. QED
    BY <2>1, <2>2
<1>9. (CHOOSE k \in 0..5 : Q(k)) = d
  <2>1. d \in 0..5
    OBVIOUS
  <2>. HIDE DEF Q
  <2>. QED
    BY <1>7, <1>8, <2>1
<1>. DEFINE value(i) == IF i <= d THEN DigitOf(char(i)) * Worth[d - i + 1] ELSE 0
<1>10. NumBytesToRead(block) = value(1) + value(2) + value(3) + value(4) + value(5)
  <2>. DEFINE digits == CHOOSE k \in 0..5 : Q(k)
              valueOf(i) == IF i <= digits THEN DigitOf(char(i)) * Worth[digits - i + 1]
                            ELSE 0
  <2>1. NumBytesToRead(block) =
            valueOf(1) + valueOf(2) + valueOf(3) + valueOf(4) + valueOf(5)
    BY Zenon DEF NumBytesToRead, char
  <2>2. digits = d
    BY <1>9
  <2>. HIDE DEF digits
  <2>. QED
    BY <2>1, <2>2, Zenon
<1>11. value(1) + value(2) + value(3) + value(4) + value(5) = n
  <2>1. CASE d = 1
    BY <1>1, <1>3, <1>6, <2>1 DEF Worth
  <2>2. CASE d = 2
    BY <1>1, <1>3, <1>6, <2>2 DEF Worth
  <2>3. CASE d = 3
    BY <1>1, <1>3, <1>6, <2>3 DEF Worth
  <2>4. CASE d = 4
    BY <1>1, <1>3, <1>6, <2>4 DEF Worth
  <2>. QED
    BY <2>1, <2>2, <2>3, <2>4
<1>. QED
  BY <1>10, <1>11

\* A set of numbers that holds 0, and with every number below a bound the next one,
\* holds every number up to the bound.
LEMMA UpTo ==
    ASSUME NEW n \in Nat, NEW S, 0 \in S, \A k \in 1..n : k - 1 \in S => k \in S
    PROVE  \A k \in 0..n : k \in S
<1>1. SUFFICES ASSUME (0..n) \ S # {} PROVE FALSE
  OBVIOUS
<1>2. \A i, m \in Nat : i < m => <<i, m>> \in OpToRel(<, Nat)
  BY SMT DEF OpToRel
<1>3. (0..n) \ S \subseteq Nat
  OBVIOUS
<1>4. \E m \in (0..n) \ S : \A i \in (0..n) \ S : ~(<<i, m>> \in OpToRel(<, Nat))
  BY <1>1, <1>3, NatLessThanWellFounded, WFMin, Zenon
<1>5. PICK m \in (0..n) \ S : \A i \in (0..n) \ S : ~(i < m)
  BY <1>2, <1>3, <1>4, Zenon
<1>6. m \in 1..n /\ m - 1 \in 0..n /\ m - 1 < m
  BY <1>5
<1>. QED
  BY <1>5, <1>6

\* A block holds its bytes, and its length is read back.
LEMMA BlockFacts ==
    ASSUME NEW size \in Nat, NEW k \in Nat \ {0}, (k - 1) * BlockCapacity < size
    PROVE  \E from \in Nat, n \in 0..BlockCapacity :
              /\ from = (k - 1) * BlockCapacity
              /\ n = IF size - from < BlockCapacity THEN size - from ELSE BlockCapacity
              /\ SubSeq(BlockBuffer(size, k), 1, NumBytesToRead(BlockBuffer(size, k))) =
                     [i \in 1..n |-> from + i]
<1>. DEFINE block == BlockBuffer(size, k)
<1>1. BlockCapacity = 1019 /\ CopyBufSize = 1024
  BY DEF BlockCapacity, CopyBufSize
<1>7. PICK from \in Nat : from = (k - 1) * BlockCapacity
  BY <1>1
<1>8. PICK n \in 0..BlockCapacity :
          n = IF size - from < BlockCapacity THEN size - from ELSE BlockCapacity
  BY <1>1, <1>7
<1>2. block = [i \in 1..CopyBufSize |->
                IF i > CopyBufSize - 5 THEN LengthString(n)[i - (CopyBufSize - 5)]
                ELSE IF i <= n THEN from + i ELSE EndOfString]
  BY <1>7, <1>8, Zenon DEF BlockBuffer
<1>. HIDE DEF block
<1>3. \A i \in 1..5 : block[CopyBufSize - 5 + i] = LengthString(n)[i]
  <2>1. SUFFICES ASSUME NEW i \in 1..5 PROVE block[CopyBufSize - 5 + i] = LengthString(n)[i]
    OBVIOUS
  <2>2. PICK j \in 1..CopyBufSize : j = CopyBufSize - 5 + i
    BY <1>1
  <2>3. j > CopyBufSize - 5 /\ j - (CopyBufSize - 5) = i
    BY <1>1, <2>2
  <2>. QED
    BY <1>2, <2>2, <2>3
<1>4. NumBytesToRead(block) = n
  BY <1>3, LengthIsRead
<1>5. n \in Nat /\ \A i \in 1..n : block[i] = from + i
  <2>1. \A i \in 1..n : i \in 1..CopyBufSize /\ ~(i > CopyBufSize - 5)
    BY <1>1
  <2>2. \A i \in 1..CopyBufSize : ~(i > CopyBufSize - 5) /\ i <= n => block[i] = from + i
    BY <1>2
  <2>3. n \in Nat
    BY <1>1
  <2>. QED
    BY <2>1, <2>2, <2>3
<1>6. SubSeq(block, 1, n) = [i \in 1..n |-> block[i]]
  BY <1>5
<1>9. SubSeq(block, 1, NumBytesToRead(block)) = [i \in 1..n |-> from + i]
  BY <1>4, <1>5, <1>6
<1>. QED
  BY <1>7, <1>8, <1>9, Zenon DEF block

\* The copy of a file of any size is the file.
LEMMA CopyOfIsAll ==
    ASSUME NEW size \in Nat
    PROVE  CopyOf(size) = [i \in 1..size |-> i]
<1>. DEFINE blocks == (size + BlockCapacity - 1) \div BlockCapacity
            written(k) == SubSeq(BlockBuffer(size, k), 1,
                                 NumBytesToRead(BlockBuffer(size, k)))
            after(k) == IF size < k * BlockCapacity THEN size ELSE k * BlockCapacity
            G == [k \in 0..blocks |-> [i \in 1..after(k) |-> i]]
            Is(f) == f = [k \in 0..blocks |->
                             IF k = 0 THEN <<>> ELSE f[k - 1] \o written(k)]
<1>1. BlockCapacity = 1019
  BY DEF BlockCapacity, CopyBufSize
<1>2. /\ blocks \in Nat
      /\ size <= blocks * BlockCapacity
      /\ \A k \in 1..blocks : (k - 1) * BlockCapacity < size
  BY <1>1
<1>. HIDE DEF blocks
<1>3. \A k \in 0..blocks : after(k) \in Nat
  BY <1>1, <1>2
<1>4. after(0) = 0 /\ after(blocks) = size
  BY <1>1, <1>2
<1>5. ASSUME NEW k \in 1..blocks
      PROVE  [i \in 1..after(k - 1) |-> i] \o written(k) = [i \in 1..after(k) |-> i]
  <2>1. k \in Nat \ {0} /\ (k - 1) * BlockCapacity < size
    BY <1>2
  <2>2. PICK from \in Nat, n \in 0..BlockCapacity :
            /\ from = (k - 1) * BlockCapacity
            /\ n = IF size - from < BlockCapacity THEN size - from ELSE BlockCapacity
            /\ written(k) = [i \in 1..n |-> from + i]
    BY <2>1, BlockFacts, Zenon
  <2>. HIDE DEF written
  <2>3. after(k - 1) = from /\ after(k) = from + n
    BY <1>1, <1>2, <2>1, <2>2
  <2>. HIDE DEF after
  <2>5. n \in Nat
    BY <1>1
  <2>6. [i \in 1..from |-> i] \o [i \in 1..n |-> from + i] = [i \in 1..from + n |-> i]
    BY <2>5
  <2>. QED
    BY <2>2, <2>3, <2>6
<1>6. Is(G)
  <2>1. \A k \in 0..blocks :
            [i \in 1..after(k) |-> i] =
                IF k = 0 THEN <<>> ELSE [i \in 1..after(k - 1) |-> i] \o written(k)
    <3>. HIDE DEF written, after
    <3>1. \A k \in 0..blocks : k = 0 \/ k \in 1..blocks
      BY <1>2
    <3>2. [i \in 1..after(0) |-> i] = <<>>
      BY <1>4
    <3>. QED
      BY <1>5, <3>1, <3>2
  <2>. HIDE DEF written, after
  <2>. QED
    BY <1>2, <2>1
<1>7. PICK f : f = (CHOOSE g : Is(g)) /\ Is(f)
  BY <1>6
<1>8. CopyOf(size) = f[blocks]
  BY <1>7 DEF CopyOf, blocks
<1>9. \A k \in 0..blocks : f[k] = G[k]
  <2>. HIDE DEF G, written
  <2>1. DEFINE S == {k \in 0..blocks : f[k] = G[k]}
  <2>2. /\ \A k \in 0..blocks : f[k] = IF k = 0 THEN <<>> ELSE f[k - 1] \o written(k)
        /\ \A k \in 0..blocks : G[k] = IF k = 0 THEN <<>> ELSE G[k - 1] \o written(k)
    BY <1>6, <1>7
  <2>5. 0 \in S
    BY <1>2, <2>2
  <2>3. ASSUME NEW k \in 1..blocks, k - 1 \in S PROVE k \in S
    <3>1. k \in 0..blocks /\ k # 0 /\ f[k - 1] = G[k - 1]
      BY <1>2, <2>3
    <3>2. f[k] = f[k - 1] \o written(k) /\ G[k] = G[k - 1] \o written(k)
      BY <2>2, <3>1
    <3>. QED
      BY <3>1, <3>2
  <2>4. \A k \in 0..blocks : k \in S
    <3>. HIDE DEF S
    <3>. QED
      BY <1>2, <2>5, <2>3, UpTo
  <2>. QED
    BY <2>4
<1>10. blocks \in 0..blocks
  BY <1>2
<1>. QED
  BY <1>4, <1>8, <1>9, <1>10

\* The copy of a file of any size is the file: atoi reads back the length that
\* sprintf wrote at the end of every block, so each block adds just its bytes, and
\* the last one, which may be short, no more (File IO/main.c).
THEOREM CopyIsTheFileCorrect == CodecSpec => []CopyIsTheFile
<1>1. number \in Nat => CopyIsTheFile
  BY CopyOfIsAll DEF CopyIsTheFile
<1>. QED
  BY <1>1, NumberType, PTL

-----------------------------------------------------------------------------

(* The key exchange of talk and listen. *)

\* Who has been answered, and by what, is certain only together with what is on the
\* way: what each talker has sent, and what each answer says.
StartOK(t) ==
    talker[t] = "start" =>
        toListener[t] = <<>> /\ toTalker[t] = <<>> /\ client # t /\ answeredIn[t] = 0

AwaitOK(t) ==
    talker[t] = "await" =>
        /\ answeredIn[t] = 0
        /\ \A i \in 1..Len(toListener[t]) : toListener[t][i] = PublicKeyFrom(private[t])
        /\ client = t => key = Shared(Public(private[t]), own)

TalkOK(t) ==
    talker[t] = "talk" =>
        /\ \A i \in 1..Len(toListener[t]) :
            toListener[t][i].kind = "message" => toListener[t][i].key = sharedKey[t]
        /\ answeredIn[t] = run => client = t /\ listener = "print" /\ key = sharedKey[t]

AnswersOK(t) ==
    \A i \in 1..Len(toTalker[t]) :
        /\ toTalker[t][i].run <= run
        /\ toTalker[t][i].run = run =>
            client = t /\ listener = "print" /\ toTalker[t][i].value = Public(own)

TalkerOK(t) ==
    StartOK(t) /\ AwaitOK(t) /\ TalkOK(t) /\ AnswersOK(t) /\ answeredIn[t] <= run

ExchangeInvariant == (\A t \in Talkers : TalkerOK(t)) /\ MessagesReadable

-----------------------------------------------------------------------------

\* What is left of a sequence has nothing new.
LEMMA TailFacts ==
    ASSUME NEW S, NEW s \in Seq(S), s # <<>>
    PROVE  /\ Head(s) \in S /\ Head(s) = s[1] /\ 1 \in 1..Len(s)
           /\ Tail(s) \in Seq(S)
           /\ \A i \in 1..Len(Tail(s)) : i + 1 \in 1..Len(s) /\ Tail(s)[i] = s[i+1]
BY HeadTailProperties

LEMMA SuffixFacts ==
    ASSUME NEW S, NEW s \in Seq(S), NEW n \in Nat
    PROVE  /\ SubSeq(s, n + 1, Len(s)) \in Seq(S)
           /\ \A i \in 1..Len(SubSeq(s, n + 1, Len(s))) :
                i + n \in 1..Len(s) /\ SubSeq(s, n + 1, Len(s))[i] = s[i + n]
<1>1. CASE n + 1 > Len(s)
  BY <1>1, SubSeqEmpty
<1>2. CASE n + 1 <= Len(s)
  <2>1. /\ SubSeq(s, n + 1, Len(s)) \in Seq(S)
        /\ Len(SubSeq(s, n + 1, Len(s))) = Len(s) - n
        /\ \A i \in 1..Len(s) - n : SubSeq(s, n + 1, Len(s))[i] = s[n + i]
    BY <1>2, SubSeqProperties
  <2>. QED
    BY <2>1
<1>. QED
  BY <1>1, <1>2

LEMMA AppendFacts ==
    ASSUME NEW S, NEW s \in Seq(S), NEW e \in S
    PROVE  /\ Append(s, e) \in Seq(S) /\ Len(Append(s, e)) = Len(s) + 1
           /\ \A i \in 1..Len(s) : Append(s, e)[i] = s[i]
           /\ Append(s, e)[Len(s) + 1] = e
OBVIOUS

LEMMA KeyFacts ==
    /\ \A a \in Private : PublicKeyFrom(a) \in Datagrams
    /\ \A a, b \in Private : Shared(Public(a), b) \in Keys
    /\ \A text \in Texts, k \in Keys : MessageOf(text, k) \in Datagrams
    /\ \A d \in Datagrams : d.kind = "key" => \E a \in Private : d.value = Public(a)
    /\ \A d \in Datagrams : d.kind = "message" => d.text \in Texts /\ d.key \in Keys
    /\ \A d \in Datagrams : d.kind \in {"key", "message"}
BY SharedAssumption DEF PublicKeyFrom, MessageOf, Datagrams

-----------------------------------------------------------------------------

\* The type invariant of the key exchange (the states of talk and listen), for all
\* constants.
THEOREM ExchangeTypeCorrect == ExchangeSpec => []ExchangeTypeOK
<1>1. ExchangeInit => ExchangeTypeOK
  BY ExchangeAssumption DEF ExchangeInit, ExchangeTypeOK
<1>2. ExchangeTypeOK /\ [ExchangeNext]_exchangeVars => ExchangeTypeOK'
  <2> SUFFICES ASSUME ExchangeTypeOK, [ExchangeNext]_exchangeVars
               PROVE  ExchangeTypeOK'
    OBVIOUS
  <2>1. ASSUME NEW t \in Talkers, SendKey(t)
        PROVE  ExchangeTypeOK'
    <3>1. Append(toListener[t], PublicKeyFrom(private[t])) \in Seq(Datagrams)
      BY KeyFacts, AppendFacts DEF ExchangeTypeOK
    <3>. QED
      BY <2>1, <3>1 DEF ExchangeTypeOK, SendKey, listenerVars
  <2>2. ASSUME NEW t \in Talkers, ReceiveAnswer(t)
        PROVE  ExchangeTypeOK'
    <3>1. Head(toTalker[t]) \in Answers /\ Tail(toTalker[t]) \in Seq(Answers)
      BY <2>2, TailFacts DEF ExchangeTypeOK, ReceiveAnswer
    <3>2. PICK a \in Private : Head(toTalker[t]).value = Public(a)
      BY <3>1 DEF Answers
    <3>3. Shared(Head(toTalker[t]).value, private[t]) \in Keys
      BY <3>2, KeyFacts DEF ExchangeTypeOK
    <3>4. Head(toTalker[t]).run \in 0..MaxRuns
      BY <3>1, ExchangeAssumption DEF Answers
    <3>. QED
      BY <2>2, <3>1, <3>3, <3>4 DEF ExchangeTypeOK, ReceiveAnswer, listenerVars
  <2>3. ASSUME NEW t \in Talkers, NEW text \in Texts, SendMessage(t, text)
        PROVE  ExchangeTypeOK'
    <3>1. sharedKey[t] \in Keys
      BY <2>3 DEF ExchangeTypeOK, SendMessage
    <3>2. Append(toListener[t], MessageOf(text, sharedKey[t])) \in Seq(Datagrams)
      BY <3>1, KeyFacts, AppendFacts DEF ExchangeTypeOK
    <3>. QED
      BY <2>3, <3>2 DEF ExchangeTypeOK, SendMessage, talkerVars, listenerVars
  <2>4. ASSUME NEW t \in Talkers, ReceiveKey(t)
        PROVE  ExchangeTypeOK'
    <3>1. Head(toListener[t]) \in Datagrams /\ Tail(toListener[t]) \in Seq(Datagrams)
      BY <2>4, TailFacts DEF ExchangeTypeOK, ReceiveKey
    <3>2. key' \in Keys
      BY <2>4, <3>1, KeyFacts DEF ExchangeTypeOK, ReceiveKey
    <3>. QED
      BY <2>4, <3>1, <3>2 DEF ExchangeTypeOK, ReceiveKey, talkerVars
  <2>5. ASSUME SendPublicKey
        PROVE  ExchangeTypeOK'
    <3>1. client \in Talkers
      BY <2>5 DEF ExchangeTypeOK, SendPublicKey
    <3>2. Append(toTalker[client], [value |-> Public(own), run |-> run]) \in Seq(Answers)
      BY <3>1, AppendFacts DEF ExchangeTypeOK, Answers
    <3>. QED
      BY <2>5, <3>1, <3>2 DEF ExchangeTypeOK, SendPublicKey, talkerVars
  <2>6. ASSUME NEW t \in Talkers, PrintMessage(t)
        PROVE  ExchangeTypeOK'
    <3>1. Tail(toListener[t]) \in Seq(Datagrams)
      BY <2>6, TailFacts DEF ExchangeTypeOK, PrintMessage
    <3>. QED
      BY <2>6, <3>1 DEF ExchangeTypeOK, PrintMessage, talkerVars, listenerVars
  <2>7. ASSUME Restart
        PROVE  ExchangeTypeOK'
    <3>1. PICK lost \in [Talkers -> 0..MaxMessages+1] :
            toListener' = [t \in Talkers |->
                SubSeq(toListener[t], lost[t] + 1, Len(toListener[t]))]
      BY <2>7 DEF Restart
    <3>2. \A t \in Talkers :
            SubSeq(toListener[t], lost[t] + 1, Len(toListener[t])) \in Seq(Datagrams)
      BY SuffixFacts, ExchangeAssumption DEF ExchangeTypeOK
    <3>3. toListener' \in [Talkers -> Seq(Datagrams)]
      BY <3>1, <3>2
    <3>. QED
      BY <2>7, <3>3, ExchangeAssumption DEF ExchangeTypeOK, Restart, talkerVars
  <2>8. ASSUME NEW t \in Talkers, LoseDatagram(t)
        PROVE  ExchangeTypeOK'
    <3>1. /\ toListener[t] # <<>> => Tail(toListener[t]) \in Seq(Datagrams)
          /\ toTalker[t] # <<>> => Tail(toTalker[t]) \in Seq(Answers)
      BY TailFacts DEF ExchangeTypeOK
    <3>. QED
      BY <2>8, <3>1 DEF ExchangeTypeOK, LoseDatagram, talkerVars, listenerVars
  <2>9. CASE UNCHANGED exchangeVars
    BY <2>9 DEF ExchangeTypeOK, exchangeVars, talkerVars, listenerVars, network
  <2>. QED
    BY <2>1, <2>2, <2>3, <2>4, <2>5, <2>6, <2>7, <2>8, <2>9
    DEF ExchangeNext, ListenerStep
<1>. QED
  BY <1>1, <1>2, PTL DEF ExchangeSpec

-----------------------------------------------------------------------------
(* One lemma per step: what it leaves of TalkerOK. *)

ExchangeInv == ExchangeTypeOK /\ \A t \in Talkers : TalkerOK(t)

LEMMA SendKeyInv ==
    ASSUME ExchangeInv, NEW t \in Talkers, SendKey(t), NEW u \in Talkers
    PROVE  TalkerOK(u)'
<1>1. CASE u = t
  <2>1. toListener[t] = <<>>
    BY DEF ExchangeInv, TalkerOK, StartOK, SendKey
  <2>2. toListener'[t] = Append(toListener[t], PublicKeyFrom(private[t]))
    BY DEF ExchangeInv, ExchangeTypeOK, SendKey
  <2>3. Len(toListener'[t]) = 1 /\ toListener'[t][1] = PublicKeyFrom(private[t])
    BY <2>1, <2>2
  <2>. QED
    BY <1>1, <2>3
    DEF ExchangeInv, TalkerOK, StartOK, AwaitOK, TalkOK, AnswersOK, SendKey, ExchangeTypeOK, listenerVars
<1>2. CASE u # t
  BY <1>2
  DEF ExchangeInv, TalkerOK, StartOK, AwaitOK, TalkOK, AnswersOK, SendKey, ExchangeTypeOK, listenerVars
<1>. QED
  BY <1>1, <1>2

LEMMA ReceiveAnswerInv ==
    ASSUME ExchangeInv, NEW t \in Talkers, ReceiveAnswer(t), NEW u \in Talkers
    PROVE  TalkerOK(u)'
<1>1. CASE u = t
  <2> DEFINE answer == Head(toTalker[t])
  <2>1. /\ answer = toTalker[t][1] /\ 1 \in 1..Len(toTalker[t])
        /\ \A i \in 1..Len(Tail(toTalker[t])) :
            i + 1 \in 1..Len(toTalker[t]) /\ Tail(toTalker[t])[i] = toTalker[t][i+1]
    BY TailFacts DEF ReceiveAnswer, ExchangeInv, ExchangeTypeOK
  <2>2. /\ talker'[t] = "talk" /\ answeredIn'[t] = answer.run
        /\ sharedKey'[t] = Shared(answer.value, private[t])
        /\ toTalker'[t] = Tail(toTalker[t])
        /\ UNCHANGED <<private, listener, own, key, client, run, toListener>>
    BY DEF ReceiveAnswer, ExchangeInv, ExchangeTypeOK, listenerVars
  <2>3. /\ answer.run <= run
        /\ answer.run = run => client = t /\ listener = "print" /\ answer.value = Public(own)
    BY <2>1 DEF ExchangeInv, TalkerOK, AnswersOK
  <2>4. answer.run = run => key = Shared(answer.value, private[t])
    BY <2>3, SharedAssumption DEF ExchangeInv, TalkerOK, AwaitOK, ReceiveAnswer, ExchangeTypeOK
  <2>5. \A i \in 1..Len(toListener[t]) : toListener[t][i].kind # "message"
    <3>1. \A i \in 1..Len(toListener[t]) : toListener[t][i] = PublicKeyFrom(private[t])
      BY DEF ExchangeInv, TalkerOK, AwaitOK, ReceiveAnswer
    <3>2. PublicKeyFrom(private[t]).kind = "key"
      BY DEF PublicKeyFrom
    <3>. QED
      BY <3>1, <3>2
  <2>6. AnswersOK(t)'
    BY <2>1, <2>2 DEF ExchangeInv, TalkerOK, AnswersOK
  <2>7. TalkOK(t)'
    BY <2>2, <2>3, <2>4, <2>5 DEF TalkOK
  <2>. QED
    BY <1>1, <2>2, <2>3, <2>6, <2>7 DEF TalkerOK, StartOK, AwaitOK
<1>2. CASE u # t
  BY <1>2
  DEF ExchangeInv, TalkerOK, StartOK, AwaitOK, TalkOK, AnswersOK, ReceiveAnswer, ExchangeTypeOK,
      listenerVars
<1>. QED
  BY <1>1, <1>2

LEMMA SendMessageInv ==
    ASSUME ExchangeInv, NEW t \in Talkers, NEW text \in Texts, SendMessage(t, text),
           NEW u \in Talkers
    PROVE  TalkerOK(u)'
<1>1. CASE u = t
  <2> DEFINE m == MessageOf(text, sharedKey[t])
  <2>1. sharedKey[t] \in Keys
    BY DEF ExchangeInv, ExchangeTypeOK, SendMessage
  <2>2. /\ Len(Append(toListener[t], m)) = Len(toListener[t]) + 1
        /\ Len(toListener[t]) \in Nat
        /\ \A i \in 1..Len(toListener[t]) : Append(toListener[t], m)[i] = toListener[t][i]
        /\ Append(toListener[t], m)[Len(toListener[t]) + 1] = m
    BY <2>1, KeyFacts, AppendFacts DEF ExchangeInv, ExchangeTypeOK
  <2>3. m.key = sharedKey[t]
    BY DEF MessageOf
  <2>4. /\ toListener'[t] = Append(toListener[t], m)
        /\ UNCHANGED <<talker, private, sharedKey, answeredIn, listener, own, key, client,
                       run, toTalker>>
    BY DEF SendMessage, ExchangeInv, ExchangeTypeOK, talkerVars, listenerVars
  <2>5. \A i \in 1..Len(toListener'[t]) :
            toListener'[t][i].kind = "message" => toListener'[t][i].key = sharedKey[t]
    <3> SUFFICES ASSUME NEW i \in 1..Len(toListener'[t]),
                        toListener'[t][i].kind = "message"
                 PROVE  toListener'[t][i].key = sharedKey[t]
      OBVIOUS
    <3>1. CASE i = Len(toListener[t]) + 1
      BY <2>2, <2>3, <2>4, <3>1
    <3>2. CASE i \in 1..Len(toListener[t])
      BY <2>2, <2>4, <3>2 DEF ExchangeInv, TalkerOK, TalkOK, SendMessage
    <3>. QED
      BY <2>2, <2>4, <3>1, <3>2
  <2>. QED
    BY <1>1, <2>4, <2>5
    DEF ExchangeInv, TalkerOK, StartOK, AwaitOK, TalkOK, AnswersOK, SendMessage
<1>2. CASE u # t
  BY <1>2
  DEF ExchangeInv, TalkerOK, StartOK, AwaitOK, TalkOK, AnswersOK, SendMessage, ExchangeTypeOK,
      talkerVars, listenerVars
<1>. QED
  BY <1>1, <1>2

LEMMA ReceiveKeyInv ==
    ASSUME ExchangeInv, NEW t \in Talkers, ReceiveKey(t), NEW u \in Talkers
    PROVE  TalkerOK(u)'
<1>1. /\ listener = "wait" /\ toListener[t] # <<>> /\ client' = t
      /\ UNCHANGED <<talker, private, sharedKey, answeredIn, own, run, toTalker>>
      /\ toListener' = [toListener EXCEPT ![t] = Tail(@)]
  BY DEF ReceiveKey, talkerVars
<1>2. /\ Head(toListener[t]) = toListener[t][1] /\ 1 \in 1..Len(toListener[t])
      /\ \A i \in 1..Len(Tail(toListener[t])) :
          i + 1 \in 1..Len(toListener[t]) /\ Tail(toListener[t])[i] = toListener[t][i+1]
  BY <1>1, TailFacts DEF ExchangeInv, ExchangeTypeOK
<1>3. \A i \in 1..Len(toListener'[u]) :
          \E j \in 1..Len(toListener[u]) : toListener'[u][i] = toListener[u][j]
  BY <1>1, <1>2 DEF ExchangeInv, ExchangeTypeOK
<1>4. u = t => talker[u] # "start"
  BY <1>1 DEF ExchangeInv, TalkerOK, StartOK
<1>5. u # t => toListener'[u] = toListener[u]
  BY <1>1 DEF ExchangeInv, ExchangeTypeOK
<1>6. StartOK(u)'
  BY <1>1, <1>4, <1>5 DEF ExchangeInv, TalkerOK, StartOK
<1>7. talker[u] = "await" /\ u = t => key' = Shared(Public(private[u]), own)
  <2> SUFFICES ASSUME talker[u] = "await", u = t
               PROVE  key' = Shared(Public(private[u]), own)
    OBVIOUS
  <2>1. Head(toListener[t]) = PublicKeyFrom(private[t])
    BY <1>2 DEF ExchangeInv, TalkerOK, AwaitOK
  <2>. QED
    BY <2>1 DEF ReceiveKey, PublicKeyFrom
<1>8. AwaitOK(u)'
  BY <1>1, <1>3, <1>7 DEF ExchangeInv, TalkerOK, AwaitOK
<1>9. TalkOK(u)'
  BY <1>1, <1>3 DEF ExchangeInv, TalkerOK, TalkOK
<1>10. AnswersOK(u)' /\ answeredIn'[u] <= run'
  BY <1>1 DEF ExchangeInv, TalkerOK, AnswersOK
<1>. QED
  BY <1>6, <1>8, <1>9, <1>10 DEF TalkerOK

LEMMA SendPublicKeyInv ==
    ASSUME ExchangeInv, SendPublicKey, NEW u \in Talkers
    PROVE  TalkerOK(u)'
<1> DEFINE answer == [value |-> Public(own), run |-> run]
<1>1. /\ listener = "answer" /\ listener' = "print" /\ client \in Talkers
      /\ UNCHANGED <<talker, private, sharedKey, answeredIn, own, key, client, run, toListener>>
      /\ toTalker' = [toTalker EXCEPT ![client] = Append(@, answer)]
  BY DEF SendPublicKey, talkerVars, ExchangeInv, ExchangeTypeOK
<1>2. CASE u = client
  <2>1. /\ toTalker'[u] = Append(toTalker[u], answer)
        /\ Len(toTalker'[u]) = Len(toTalker[u]) + 1 /\ Len(toTalker[u]) \in Nat
        /\ \A i \in 1..Len(toTalker[u]) : toTalker'[u][i] = toTalker[u][i]
        /\ toTalker'[u][Len(toTalker[u]) + 1] = answer
    BY <1>1, <1>2, AppendFacts DEF ExchangeInv, ExchangeTypeOK, Answers
  <2>2. AnswersOK(u)'
    <3> SUFFICES ASSUME NEW i \in 1..Len(toTalker'[u])
                 PROVE  /\ toTalker'[u][i].run <= run
                        /\ toTalker'[u][i].run = run => toTalker'[u][i].value = Public(own)
      BY <1>1, <1>2 DEF AnswersOK
    <3>1. CASE i = Len(toTalker[u]) + 1
      BY <2>1, <3>1 DEF ExchangeInv, ExchangeTypeOK
    <3>2. CASE i \in 1..Len(toTalker[u])
      BY <2>1, <3>2 DEF ExchangeInv, TalkerOK, AnswersOK
    <3>. QED
      BY <2>1, <3>1, <3>2
  <2>. QED
    BY <1>1, <1>2, <2>2 DEF ExchangeInv, TalkerOK, StartOK, AwaitOK, TalkOK
<1>3. CASE u # client
  <2>1. toTalker'[u] = toTalker[u]
    BY <1>1, <1>3 DEF ExchangeInv, ExchangeTypeOK
  <2>. QED
    BY <1>1, <2>1 DEF ExchangeInv, TalkerOK, StartOK, AwaitOK, TalkOK, AnswersOK
<1>. QED
  BY <1>2, <1>3

\* The queues of the listener may become shorter at their front.
LEMMA ShorterInv ==
    ASSUME ExchangeInv, NEW u \in Talkers,
           UNCHANGED <<talker, private, sharedKey, answeredIn, listener, own, key, client,
                       run, toTalker>>,
           \A i \in 1..Len(toListener'[u]) :
               \E j \in 1..Len(toListener[u]) : toListener'[u][i] = toListener[u][j],
           toListener[u] = <<>> => toListener'[u] = <<>>
    PROVE  TalkerOK(u)'
<1>1. StartOK(u)' /\ AnswersOK(u)'
  BY DEF ExchangeInv, TalkerOK, StartOK, AnswersOK
<1>2. AwaitOK(u)' /\ TalkOK(u)'
  BY DEF ExchangeInv, TalkerOK, AwaitOK, TalkOK
<1>. QED
  BY <1>1, <1>2 DEF ExchangeInv, TalkerOK

LEMMA PrintMessageInv ==
    ASSUME ExchangeInv, NEW t \in Talkers, PrintMessage(t), NEW u \in Talkers
    PROVE  TalkerOK(u)' /\ MessagesReadable'
<1>1. /\ Head(toListener[t]) = toListener[t][1] /\ 1 \in 1..Len(toListener[t])
      /\ Head(toListener[t]) \in Datagrams
      /\ \A i \in 1..Len(Tail(toListener[t])) :
          i + 1 \in 1..Len(toListener[t]) /\ Tail(toListener[t])[i] = toListener[t][i+1]
  BY TailFacts DEF ExchangeInv, ExchangeTypeOK, PrintMessage
<1>2. /\ UNCHANGED <<talker, private, sharedKey, answeredIn, listener, own, key, client,
                     run, toTalker>>
      /\ toListener' = [toListener EXCEPT ![t] = Tail(@)] /\ toListener[t] # <<>>
  BY DEF PrintMessage, talkerVars, listenerVars
<1>3. /\ \A i \in 1..Len(toListener'[u]) :
            \E j \in 1..Len(toListener[u]) : toListener'[u][i] = toListener[u][j]
      /\ toListener[u] = <<>> => toListener'[u] = <<>>
  BY <1>1, <1>2 DEF ExchangeInv, ExchangeTypeOK
<1>4. TalkerOK(u)'
  BY <1>2, <1>3, ShorterInv
<1>5. MessagesReadable'
  <2> DEFINE d == Head(toListener[t])
  <2> SUFFICES ASSUME d.kind = "message", answeredIn[t] = run
               PROVE  d.key = key
    BY <1>2 DEF MessagesReadable, PrintMessage
  <2>1. talker[t] = "talk"
    BY DEF ExchangeInv, TalkerOK, StartOK, AwaitOK, ExchangeTypeOK
  <2>. QED
    BY <1>1, <2>1 DEF ExchangeInv, TalkerOK, TalkOK
<1>. QED
  BY <1>4, <1>5

LEMMA RestartInv ==
    ASSUME ExchangeInv, Restart, NEW u \in Talkers
    PROVE  TalkerOK(u)'
<1>1. PICK lost \in [Talkers -> 0..MaxMessages+1] :
        toListener' = [t \in Talkers |->
            SubSeq(toListener[t], lost[t] + 1, Len(toListener[t]))]
  BY DEF Restart
<1>2. /\ UNCHANGED <<talker, private, sharedKey, answeredIn, toTalker>>
      /\ client' = None /\ run' = run + 1 /\ run \in Nat
  BY ExchangeAssumption DEF Restart, talkerVars, ExchangeInv, ExchangeTypeOK
<1>3. \A i \in 1..Len(toListener'[u]) :
          \E j \in 1..Len(toListener[u]) : toListener'[u][i] = toListener[u][j]
  <2>1. toListener'[u] = SubSeq(toListener[u], lost[u] + 1, Len(toListener[u]))
    BY <1>1
  <2>2. lost[u] \in Nat
    BY ExchangeAssumption
  <2>. QED
    <3>1. toListener[u] \in Seq(Datagrams)
      BY DEF ExchangeInv, ExchangeTypeOK
    <3>2. \A i \in 1..Len(SubSeq(toListener[u], lost[u] + 1, Len(toListener[u]))) :
            /\ i + lost[u] \in 1..Len(toListener[u])
            /\ SubSeq(toListener[u], lost[u] + 1, Len(toListener[u]))[i] =
                   toListener[u][i + lost[u]]
      BY <2>2, <3>1, SuffixFacts, Zenon
    <3>. QED
      BY <2>1, <3>2, Zenon
<1>4. talker[u] = "start" => toListener'[u] = <<>>
  <2> SUFFICES ASSUME talker[u] = "start" PROVE toListener'[u] = <<>>
    OBVIOUS
  <2>1. Len(toListener[u]) = 0
    BY DEF ExchangeInv, TalkerOK, StartOK
  <2>2. toListener'[u] \in Seq(Datagrams)
    BY <1>1, SuffixFacts, ExchangeAssumption DEF ExchangeInv, ExchangeTypeOK
  <2>3. Len(toListener'[u]) = 0
    <3>1. Len(toListener'[u]) \in Nat
      BY <2>2
    <3>2. ASSUME Len(toListener'[u]) > 0 PROVE FALSE
      <4>1. PICK j \in 1..Len(toListener[u]) : toListener'[u][1] = toListener[u][j]
        BY <1>3, <3>1, <3>2
      <4>. QED
        BY <2>1, <4>1
    <3>. QED
      BY <3>1, <3>2
  <2>. QED
    BY <2>2, <2>3
<1>5. client' # u
  BY <1>2, ExchangeAssumption
<1>6. StartOK(u)' /\ AwaitOK(u)'
  BY <1>2, <1>3, <1>4, <1>5 DEF ExchangeInv, TalkerOK, StartOK, AwaitOK
<1>7. answeredIn[u] \in Nat /\ answeredIn[u] <= run /\ answeredIn[u] # run'
  BY <1>2, ExchangeAssumption DEF ExchangeInv, TalkerOK, ExchangeTypeOK
<1>8. TalkOK(u)'
  BY <1>2, <1>3, <1>7 DEF ExchangeInv, TalkerOK, TalkOK
<1>9. \A i \in 1..Len(toTalker[u]) : toTalker[u][i].run \in Nat /\ toTalker[u][i].run <= run
  <2>1. toTalker[u] \in Seq(Answers)
    BY DEF ExchangeInv, ExchangeTypeOK
  <2>2. \A i \in 1..Len(toTalker[u]) : toTalker[u][i] \in Answers
    BY <2>1
  <2>3. \A a \in Answers : a.run \in Nat
    BY ExchangeAssumption DEF Answers
  <2>. QED
    BY <2>2, <2>3 DEF ExchangeInv, TalkerOK, AnswersOK
<1>10. AnswersOK(u)' /\ answeredIn'[u] <= run'
  BY <1>2, <1>7, <1>9 DEF AnswersOK
<1>. QED
  BY <1>6, <1>8, <1>10 DEF TalkerOK

LEMMA LoseDatagramInv ==
    ASSUME ExchangeInv, NEW t \in Talkers, LoseDatagram(t), NEW u \in Talkers
    PROVE  TalkerOK(u)'
<1>1. UNCHANGED <<talker, private, sharedKey, answeredIn, listener, own, key, client, run>>
  BY DEF LoseDatagram, talkerVars, listenerVars
<1>2. CASE toListener[t] # <<>> /\ toListener' = [toListener EXCEPT ![t] = Tail(@)]
           /\ UNCHANGED toTalker
  <2>1. \A i \in 1..Len(Tail(toListener[t])) :
          i + 1 \in 1..Len(toListener[t]) /\ Tail(toListener[t])[i] = toListener[t][i+1]
    BY <1>2, TailFacts DEF ExchangeInv, ExchangeTypeOK
  <2>2. /\ \A i \in 1..Len(toListener'[u]) :
              \E j \in 1..Len(toListener[u]) : toListener'[u][i] = toListener[u][j]
        /\ toListener[u] = <<>> => toListener'[u] = <<>>
    BY <1>2, <2>1 DEF ExchangeInv, ExchangeTypeOK
  <2>. QED
    BY <1>1, <1>2, <2>2, ShorterInv
<1>3. CASE toTalker[t] # <<>> /\ toTalker' = [toTalker EXCEPT ![t] = Tail(@)]
           /\ UNCHANGED toListener
  <2>1. \A i \in 1..Len(Tail(toTalker[t])) :
          i + 1 \in 1..Len(toTalker[t]) /\ Tail(toTalker[t])[i] = toTalker[t][i+1]
    BY <1>3, TailFacts DEF ExchangeInv, ExchangeTypeOK
  <2>2. /\ \A i \in 1..Len(toTalker'[u]) :
              \E j \in 1..Len(toTalker[u]) : toTalker'[u][i] = toTalker[u][j]
        /\ toTalker[u] = <<>> => toTalker'[u] = <<>>
    BY <1>3, <2>1 DEF ExchangeInv, ExchangeTypeOK
  <2>3. AnswersOK(u)'
    BY <1>1, <2>2 DEF ExchangeInv, TalkerOK, AnswersOK
  <2>. QED
    BY <1>1, <1>3, <2>2, <2>3 DEF ExchangeInv, TalkerOK, StartOK, AwaitOK, TalkOK
<1>. QED
  BY <1>2, <1>3 DEF LoseDatagram

-----------------------------------------------------------------------------

\* The inductive invariant of the exchange.
THEOREM ExchangeInvariantCorrect == ExchangeSpec => []ExchangeInvariant
<1>1. ExchangeInit => ExchangeInvariant
  BY ExchangeAssumption
  DEF ExchangeInit, ExchangeInvariant, TalkerOK, StartOK, AwaitOK, TalkOK, AnswersOK,
      MessagesReadable
<1>2. ExchangeTypeOK /\ ExchangeInvariant /\ [ExchangeNext]_exchangeVars => ExchangeInvariant'
  <2> SUFFICES ASSUME ExchangeTypeOK, ExchangeInvariant, [ExchangeNext]_exchangeVars
               PROVE  (\A u \in Talkers : TalkerOK(u)') /\ MessagesReadable'
    BY DEF ExchangeInvariant
  <2>. ExchangeInv
    BY DEF ExchangeInv, ExchangeInvariant
  <2>1. ASSUME NEW t \in Talkers, SendKey(t)
        PROVE  (\A u \in Talkers : TalkerOK(u)') /\ MessagesReadable'
    BY <2>1, SendKeyInv DEF MessagesReadable, SendKey
  <2>2. ASSUME NEW t \in Talkers, ReceiveAnswer(t)
        PROVE  (\A u \in Talkers : TalkerOK(u)') /\ MessagesReadable'
    BY <2>2, ReceiveAnswerInv DEF MessagesReadable, ReceiveAnswer
  <2>3. ASSUME NEW t \in Talkers, NEW text \in Texts, SendMessage(t, text)
        PROVE  (\A u \in Talkers : TalkerOK(u)') /\ MessagesReadable'
    BY <2>3, SendMessageInv DEF MessagesReadable, SendMessage
  <2>4. ASSUME NEW t \in Talkers, ReceiveKey(t)
        PROVE  (\A u \in Talkers : TalkerOK(u)') /\ MessagesReadable'
    BY <2>4, ReceiveKeyInv DEF MessagesReadable, ReceiveKey
  <2>5. ASSUME SendPublicKey
        PROVE  (\A u \in Talkers : TalkerOK(u)') /\ MessagesReadable'
    BY <2>5, SendPublicKeyInv DEF MessagesReadable, SendPublicKey
  <2>6. ASSUME NEW t \in Talkers, PrintMessage(t)
        PROVE  (\A u \in Talkers : TalkerOK(u)') /\ MessagesReadable'
    BY <2>6, PrintMessageInv
  <2>7. ASSUME Restart
        PROVE  (\A u \in Talkers : TalkerOK(u)') /\ MessagesReadable'
    BY <2>7, RestartInv DEF MessagesReadable, Restart
  <2>8. ASSUME NEW t \in Talkers, LoseDatagram(t)
        PROVE  (\A u \in Talkers : TalkerOK(u)') /\ MessagesReadable'
    BY <2>8, LoseDatagramInv DEF MessagesReadable, LoseDatagram
  <2>9. CASE UNCHANGED exchangeVars
    BY <2>9
    DEF ExchangeInv, ExchangeInvariant, TalkerOK, StartOK, AwaitOK, TalkOK, AnswersOK,
        MessagesReadable, exchangeVars, talkerVars, listenerVars, network
  <2>. QED
    BY <2>1, <2>2, <2>3, <2>4, <2>5, <2>6, <2>7, <2>8, <2>9
    DEF ExchangeNext, ListenerStep
<1>. QED
  BY <1>1, <1>2, ExchangeTypeCorrect, PTL DEF ExchangeSpec

\* What a talker types shows as typed at the run of the listener that answered it,
\* whoever else sends keys and messages to it, whatever is lost, and however often the
\* listener is restarted with another key.
THEOREM MessagesReadableCorrect == ExchangeSpec => []MessagesReadable
<1>1. ExchangeInvariant => MessagesReadable
  BY DEF ExchangeInvariant
<1>. QED
  BY <1>1, ExchangeInvariantCorrect, PTL

\* Of all the talkers one is answered by a run of the listener.
THEOREM OneIsAnsweredCorrect == ExchangeSpec => []OneIsAnswered
<1>1. ExchangeTypeOK /\ ExchangeInvariant => OneIsAnswered
  <2> SUFFICES ASSUME ExchangeTypeOK, ExchangeInvariant,
                      NEW t \in Talkers, answeredIn[t] = run
               PROVE  client = t
    BY DEF OneIsAnswered
  <2>1. run # 0
    BY ExchangeAssumption DEF ExchangeTypeOK
  <2>2. talker[t] = "talk"
    BY <2>1 DEF ExchangeTypeOK, ExchangeInvariant, TalkerOK, StartOK, AwaitOK
  <2>. QED
    BY <2>2 DEF ExchangeInvariant, TalkerOK, TalkOK
<1>. QED
  BY <1>1, ExchangeTypeCorrect, ExchangeInvariantCorrect, PTL

-----------------------------------------------------------------------------

(* The echo. *)

EchoTypeOK ==
    /\ place \in [Clients -> {"prompt", "receive"}]
    /\ sent \in [Clients -> Lines \cup {Nothing}]
    /\ printed \in [Clients -> Lines \cup {Nothing}]
    /\ buf \in Lines \cup {Nothing}
    /\ sender \in Clients
    /\ toServer \in [Clients -> Seq(Lines)]
    /\ toClient \in [Clients -> Seq(Lines)]

\* Whether the server holds a line of c.
Held(c) == buf # Nothing /\ sender = c

\* Where the line of c is, if it was not lost: in one place.
InFlight(c) ==
    /\ toServer[c] \in {<<>>, <<sent[c]>>}
    /\ toClient[c] \in {<<>>, <<sent[c]>>}
    /\ Held(c) => buf = sent[c]
    /\ toServer[c] # <<>> => toClient[c] = <<>> /\ ~Held(c)
    /\ toClient[c] # <<>> => ~Held(c)

NoneInFlight(c) == toServer[c] = <<>> /\ toClient[c] = <<>> /\ ~Held(c)

ClientOK(c) ==
    /\ place[c] = "prompt" => NoneInFlight(c) /\ printed[c] = sent[c]
    /\ place[c] = "receive" => InFlight(c)

EchoInvariant == EchoTypeOK /\ \A c \in Clients : ClientOK(c)

LEMMA SequenceFacts ==
    /\ \A s \in Seq(Lines) : s # <<>> => Head(s) \in Lines /\ Tail(s) \in Seq(Lines)
    /\ \A s \in Seq(Lines), e \in Lines : Append(s, e) \in Seq(Lines)
    /\ \A e \in Lines : Append(<<>>, e) = <<e>>
    /\ <<>> \in Seq(Lines)
    /\ \A e : Head(<<e>>) = e /\ Tail(<<e>>) = <<>> /\ <<e>> # <<>>
BY HeadTailProperties

LEMMA EchoStep ==
    ASSUME EchoInvariant, [EchoNext]_echoVars
    PROVE  EchoInvariant'
<1>. USE DEF EchoInvariant
<1>1. ASSUME NEW c \in Clients, NEW line \in Lines, SendLine(c, line)
      PROVE  EchoInvariant'
  <2>1. EchoTypeOK'
    BY <1>1, SequenceFacts DEF EchoTypeOK, SendLine
  <2>2. ASSUME NEW d \in Clients PROVE ClientOK(d)'
    <3>1. CASE d = c
      <4>1. toServer'[c] = <<line>> /\ sent'[c] = line /\ place'[c] = "receive"
        BY <1>1, SequenceFacts DEF EchoTypeOK, ClientOK, NoneInFlight, SendLine
      <4>2. toClient'[c] = <<>> /\ ~Held(c)'
        BY <1>1 DEF ClientOK, NoneInFlight, Held, SendLine
      <4>. QED
        BY <3>1, <4>1, <4>2 DEF ClientOK, InFlight
    <3>2. CASE d # c
      BY <1>1, <3>2 DEF EchoTypeOK, ClientOK, NoneInFlight, InFlight, Held, SendLine
    <3>. QED
      BY <3>1, <3>2
  <2>. QED
    BY <2>1, <2>2
<1>2. ASSUME NEW c \in Clients, ReceiveReply(c)
      PROVE  EchoInvariant'
  <2>1. EchoTypeOK'
    BY <1>2, SequenceFacts DEF EchoTypeOK, ReceiveReply
  <2>2. ASSUME NEW d \in Clients PROVE ClientOK(d)'
    <3>1. CASE d = c
      <4>1. toClient[c] = <<sent[c]>> /\ toServer[c] = <<>> /\ ~Held(c)
        BY <1>2 DEF ClientOK, InFlight, ReceiveReply
      <4>2. toClient'[c] = <<>> /\ printed'[c] = sent[c] /\ place'[c] = "prompt"
        BY <1>2, <4>1, SequenceFacts DEF EchoTypeOK, ReceiveReply
      <4>. QED
        BY <1>2, <3>1, <4>1, <4>2 DEF ClientOK, NoneInFlight, Held, ReceiveReply
    <3>2. CASE d # c
      BY <1>2, <3>2 DEF EchoTypeOK, ClientOK, NoneInFlight, InFlight, Held, ReceiveReply
    <3>. QED
      BY <3>1, <3>2
  <2>. QED
    BY <2>1, <2>2
<1>3. ASSUME NEW c \in Clients, ServerReceive(c)
      PROVE  EchoInvariant'
  <2>1. EchoTypeOK'
    BY <1>3, SequenceFacts DEF EchoTypeOK, ServerReceive
  <2>2. ASSUME NEW d \in Clients PROVE ClientOK(d)'
    <3>1. CASE d = c
      <4>1. place[c] = "receive" /\ toServer[c] = <<sent[c]>> /\ toClient[c] = <<>>
        BY <1>3 DEF EchoTypeOK, ClientOK, NoneInFlight, InFlight, ServerReceive
      <4>2. toServer'[c] = <<>> /\ buf' = sent[c]
        BY <1>3, <4>1, SequenceFacts DEF EchoTypeOK, ServerReceive
      <4>. QED
        BY <1>3, <3>1, <4>1, <4>2 DEF ClientOK, InFlight, Held, ServerReceive
    <3>2. CASE d # c
      BY <1>3, <3>2 DEF EchoTypeOK, ClientOK, NoneInFlight, InFlight, Held, ServerReceive
    <3>. QED
      BY <3>1, <3>2
  <2>. QED
    BY <2>1, <2>2
<1>4. ASSUME ServerReply
      PROVE  EchoInvariant'
  <2>1. EchoTypeOK'
    BY <1>4, SequenceFacts DEF EchoTypeOK, ServerReply
  <2>2. ASSUME NEW d \in Clients PROVE ClientOK(d)'
    <3>1. CASE d = sender
      <4>1. place[d] = "receive" /\ buf = sent[d] /\ toServer[d] = <<>> /\ toClient[d] = <<>>
        BY <1>4, <3>1 DEF EchoTypeOK, ClientOK, NoneInFlight, InFlight, Held, ServerReply
      <4>2. toClient'[d] = <<sent[d]>> /\ buf' = Nothing
        BY <1>4, <3>1, <4>1, SequenceFacts DEF EchoTypeOK, ServerReply
      <4>. QED
        BY <1>4, <4>1, <4>2 DEF ClientOK, InFlight, Held, ServerReply
    <3>2. CASE d # sender
      BY <1>4, <3>2 DEF EchoTypeOK, ClientOK, NoneInFlight, InFlight, Held, ServerReply
    <3>. QED
      BY <3>1, <3>2
  <2>. QED
    BY <2>1, <2>2
<1>5. ASSUME ServerRestart
      PROVE  EchoInvariant'
  <2>1. \A d \in Clients : toServer'[d] \in {<<>>, toServer[d]}
    BY <1>5 DEF ServerRestart
  <2>2. toServer' \in [Clients -> Seq(Lines)]
    <3>1. ASSUME NEW d \in Clients PROVE toServer'[d] \in Seq(Lines)
      <4>1. toServer[d] \in Seq(Lines)
        BY DEF EchoTypeOK
      <4>. QED
        BY <2>1, <4>1, SequenceFacts
    <3>. QED
      BY <1>5, <3>1 DEF ServerRestart
  <2>3. EchoTypeOK'
    BY <1>5, <2>2 DEF EchoTypeOK, ServerRestart
  <2>4. ASSUME NEW d \in Clients PROVE ClientOK(d)'
    BY <1>5, <2>1 DEF ClientOK, NoneInFlight, InFlight, Held, ServerRestart
  <2>. QED
    BY <2>3, <2>4
<1>6. ASSUME NEW c \in Clients, LoseLine(c)
      PROVE  EchoInvariant'
  <2>1. EchoTypeOK'
    <3>1. CASE toServer[c] # <<>> /\ toServer' = [toServer EXCEPT ![c] = Tail(@)] /\ UNCHANGED toClient
      <4>1. toServer[c] \in Seq(Lines)
        BY DEF EchoTypeOK
      <4>2. Tail(toServer[c]) \in Seq(Lines)
        BY <3>1, <4>1, SequenceFacts
      <4>. QED
        BY <1>6, <3>1, <4>2 DEF EchoTypeOK, LoseLine
    <3>2. CASE toClient[c] # <<>> /\ toClient' = [toClient EXCEPT ![c] = Tail(@)] /\ UNCHANGED toServer
      <4>1. toClient[c] \in Seq(Lines)
        BY DEF EchoTypeOK
      <4>2. Tail(toClient[c]) \in Seq(Lines)
        BY <3>2, <4>1, SequenceFacts
      <4>. QED
        BY <1>6, <3>2, <4>2 DEF EchoTypeOK, LoseLine
    <3>. QED
      BY <1>6, <3>1, <3>2 DEF LoseLine
  <2>2. ASSUME NEW d \in Clients PROVE ClientOK(d)'
    <3>1. CASE d = c
      <4>1. place[c] = "receive"
        BY <1>6 DEF EchoTypeOK, ClientOK, NoneInFlight, LoseLine
      <4>2. /\ toServer'[c] \in {<<>>, toServer[c]} /\ toClient'[c] \in {<<>>, toClient[c]}
        <5>1. /\ toServer[c] \in {<<>>, <<sent[c]>>}
              /\ toClient[c] \in {<<>>, <<sent[c]>>}
          BY <4>1 DEF ClientOK, InFlight
        <5>2. CASE toServer[c] # <<>> /\ toServer' = [toServer EXCEPT ![c] = Tail(@)] /\ UNCHANGED toClient
          <6>1. toServer[c] = <<sent[c]>> /\ toServer'[c] = Tail(toServer[c])
            BY <5>1, <5>2 DEF EchoTypeOK
          <6>. QED
            BY <5>2, <6>1, SequenceFacts
        <5>3. CASE toClient[c] # <<>> /\ toClient' = [toClient EXCEPT ![c] = Tail(@)] /\ UNCHANGED toServer
          <6>1. toClient[c] = <<sent[c]>> /\ toClient'[c] = Tail(toClient[c])
            BY <5>1, <5>3 DEF EchoTypeOK
          <6>. QED
            BY <5>3, <6>1, SequenceFacts
        <5>. QED
          BY <1>6, <5>2, <5>3 DEF LoseLine
      <4>. QED
        BY <1>6, <3>1, <4>1, <4>2 DEF ClientOK, InFlight, Held, LoseLine
    <3>2. CASE d # c
      BY <1>6, <3>2 DEF EchoTypeOK, ClientOK, NoneInFlight, InFlight, Held, LoseLine
    <3>. QED
      BY <3>1, <3>2
  <2>. QED
    BY <2>1, <2>2
<1>7. CASE UNCHANGED echoVars
  BY <1>7 DEF echoVars, EchoTypeOK, ClientOK, NoneInFlight, InFlight, Held
<1>. QED
  BY <1>1, <1>2, <1>3, <1>4, <1>5, <1>6, <1>7 DEF EchoNext

\* A client of the echo that has its prompt again was shown the line it had sent,
\* whatever is lost, whoever else sends, however often the server is started.
THEOREM ReplyIsOwnCorrect == EchoSpec => []ReplyIsOwn
<1>1. EchoInit => EchoInvariant
  BY DEF EchoInit, EchoInvariant, EchoTypeOK, ClientOK, NoneInFlight, InFlight, Held
<1>2. EchoInvariant => ReplyIsOwn
  BY DEF EchoInvariant, ClientOK, ReplyIsOwn
<1>. QED
  BY <1>1, <1>2, EchoStep, PTL DEF EchoSpec
=============================================================================
