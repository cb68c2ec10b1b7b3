----------------------------- MODULE CodecProofs -----------------------------
(***************************************************************************)
(* What the packet header of put and the acknowledgement test promise, for *)
(* every base and every packet number, and what the trailer of get does:   *)
(* it tells the length of every block of ten bytes or more, and of a       *)
(* shorter one at least that it is not a full block.                       *)
(***************************************************************************)
EXTENDS Packets, FtpTrailer, TLAPS

\* The number of a packet is a digit, and n is recovered from its quotient.
LEMMA ModFacts ==
    ASSUME NEW n \in Nat
    PROVE  /\ (n % OperationBase) \in 0 .. OperationBase - 1
           /\ (n \div OperationBase) \in Int
           /\ n = (OperationBase * (n \div OperationBase)) + (n % OperationBase)
BY BaseAssumption

\* Numbers count up and wrap from OperationBase - 1 to 0.
LEMMA ModSucc ==
    ASSUME NEW n \in Nat
    PROVE  ((n + 1) % OperationBase) =
              IF (n % OperationBase) = OperationBase - 1
                 THEN 0 ELSE (n % OperationBase) + 1
<1> DEFINE q == n \div OperationBase
           p == (n + 1) \div OperationBase
<1>1. /\ n = (OperationBase * q) + (n % OperationBase)
      /\ (n % OperationBase) \in 0 .. OperationBase - 1
      /\ q \in Int
  BY ModFacts
<1>2. /\ n + 1 = (OperationBase * p) + ((n + 1) % OperationBase)
      /\ ((n + 1) % OperationBase) \in 0 .. OperationBase - 1
      /\ p \in Int
  BY BaseAssumption
<1>3. p = q \/ p = q + 1 \/ p >= q + 2 \/ p <= q - 1
  BY <1>1, <1>2
<1>4. p <= q - 1 => OperationBase * p <= (OperationBase * q) - OperationBase
  BY <1>1, <1>2, BaseAssumption
<1>5. p >= q + 2 => OperationBase * p >= (OperationBase * q) + (2 * OperationBase)
  BY <1>1, <1>2, BaseAssumption
<1>. QED
  BY <1>1, <1>2, <1>3, <1>4, <1>5, BaseAssumption

\* Two packets that follow each other never have the same number: what the
\* server's test against prevPacketNum (server.c) relies on.
THEOREM SuccessorsDiffer ==
    ASSUME NEW n \in Nat
    PROVE  (n % OperationBase) # ((n + 1) % OperationBase)
<1> DEFINE a == n % OperationBase
           b == (n + 1) % OperationBase
<1>1. a \in 0 .. OperationBase - 1
  BY ModFacts
<1>2. b = IF a = OperationBase - 1 THEN 0 ELSE a + 1
  BY ModSucc
<1> HIDE DEF a, b
<1>3. a # b
  BY <1>1, <1>2, BaseAssumption
<1>. QED
  BY <1>3 DEF a, b

\* checkIfPacketMatchesAck (client.c) accepts exactly the number of the packet
\* sent last: its wrap-around case is right, and its two special cases for 126
\* and 127 never accept anything else.
THEOREM AckMatchesSentPacket ==
    ASSUME NEW n \in Nat,
           NEW recvNum \in 0 .. OperationBase - 1
    PROVE  MatchesAck(recvNum, n + 1) <=> recvNum = n % OperationBase
<1> DEFINE a == n % OperationBase
           b == (n + 1) % OperationBase
<1>1. a \in 0 .. OperationBase - 1
  BY ModFacts
<1>2. b = IF a = OperationBase - 1 THEN 0 ELSE a + 1
  BY ModSucc
<1>3. TruePrevPacket(n + 1) = IF b = 0 THEN OperationBase - 1 ELSE b - 1
  BY DEF TruePrevPacket
<1> HIDE DEF a, b
<1>4. TruePrevPacket(n + 1) = a
  BY <1>1, <1>2, <1>3, BaseAssumption
<1>5. MatchesAck(recvNum, n + 1) <=> recvNum = a
  BY <1>1, <1>4, BaseAssumption DEF MatchesAck
<1>. QED
  BY <1>5 DEF a

\* The number and the length of every packet the client can build come back from
\* its header unchanged: both digits of a length below OperationBase^2 (1020 is,
\* for base 127) fit the signed chars they are stored in.
THEOREM HeaderRoundTrip ==
    ASSUME NEW n \in Nat,
           NEW len \in 0 .. (OperationBase * OperationBase) - 1
    PROVE  DeconstructHeader(BuildHeader(n, len)) =
              [num |-> n % OperationBase, len |-> len]
<1> DEFINE hi == len \div OperationBase
           lo == len % OperationBase
<1>1. (n % OperationBase) \in 0..127 /\ lo \in 0..127
  BY ModFacts, BaseAssumption
<1>2. len = (OperationBase * hi) + lo /\ lo \in 0 .. OperationBase - 1 /\ hi \in Int
  BY ModFacts
<1>3. hi >= OperationBase => OperationBase * hi >= OperationBase * OperationBase
  BY <1>2, BaseAssumption
<1>4. hi <= -1 => OperationBase * hi <= -OperationBase
  BY <1>2, BaseAssumption
<1>5. hi \in 0..127
  BY <1>2, <1>3, <1>4, BaseAssumption
<1>6. \A x \in 0..127 : SignedChar(x) = x
  BY DEF SignedChar
<1>7. BuildHeader(n, len) = <<n % OperationBase, hi, lo>>
  BY <1>1, <1>5, <1>6 DEF BuildHeader
<1>8. hi * OperationBase + lo = len
  BY <1>2, <1>5, BaseAssumption
<1>. QED
  BY <1>7, <1>8 DEF DeconstructHeader

-----------------------------------------------------------------------------
(* The trailer of get. *)

\* indexOfEOFInFile returns the length sendFile wrote (client and server), for
\* every length of two digits or more, whatever the byte never written is and,
\* below 1000, whatever follows the client's buffer.
THEOREM LengthRoundTrip ==
    ASSUME NEW n \in 10..BlockSize, NEW junk \in Byte, NEW beyond \in Byte,
           n >= 1000 => beyond = NoDigit
    PROVE  IndexOfEOFInFile(EncodeTrailer(n, junk), beyond) = n
<1>1. n \in Int /\ 10 <= n /\ n < 10000
  BY DEF BlockSize
<1>2. PICK q \in Int, r \in Int, s \in Int :
          q = n \div 10 /\ r = n \div 100 /\ s = n \div 1000
  BY <1>1
<1>3. /\ 10 * q <= n /\ n < 10 * q + 10 /\ n % 10 = n - 10 * q
      /\ 100 * r <= n /\ n < 100 * r + 100
      /\ 1000 * s <= n /\ n < 1000 * s + 1000
      /\ n \div 1 = n
  BY <1>1, <1>2
<1>4. /\ 10 * r <= q /\ q < 10 * r + 10 /\ 10 * s <= r /\ r < 10 * s + 10
      /\ 0 <= s /\ s < 10
  BY <1>1, <1>3
<1>5. q % 10 = q - 10 * r /\ r % 10 = r - 10 * s /\ s % 10 = s
  BY <1>4
\* The four digits of n.
<1>6. PICK a \in 0..9 : a = s
  BY <1>4
<1>7. PICK b \in 0..9 : b = r - 10 * s
  BY <1>4
<1>8. PICK c \in 0..9 : c = q - 10 * r
  BY <1>4
<1>9. PICK d \in 0..9 : d = n - 10 * q
  BY <1>1, <1>3
<1>10. n = 1000 * a + 100 * b + 10 * c + d
  BY <1>1, <1>6, <1>7, <1>8, <1>9
<1>11. /\ DigitAt(n, 1000) = a /\ DigitAt(n, 100) = b
       /\ DigitAt(n, 10) = c /\ DigitAt(n, 1) = d
  BY <1>2, <1>3, <1>5, <1>6, <1>7, <1>8, <1>9 DEF DigitAt
<1>12. CASE n >= 1000
  <2>1. EncodeTrailer(n, junk) = <<a, b, c, d>>
    BY <1>11, <1>12 DEF EncodeTrailer
  <2>. QED
    BY <1>10, <1>12, <2>1 DEF IndexOfEOFInFile, NoDigit
<1>13. CASE n < 1000 /\ n >= 100
  <2>1. EncodeTrailer(n, junk) = <<b, c, d, NoDigit>>
    BY <1>1, <1>11, <1>13 DEF EncodeTrailer
  <2>2. a = 0
    BY <1>10, <1>13
  <2>. QED
    BY <1>10, <2>1, <2>2 DEF IndexOfEOFInFile, NoDigit
<1>14. CASE n < 100
  <2>1. EncodeTrailer(n, junk) = <<c, d, NoDigit, NoDigit>>
    BY <1>1, <1>11, <1>14 DEF EncodeTrailer
  <2>2. a = 0 /\ b = 0
    BY <1>10, <1>14
  <2>. QED
    BY <1>10, <2>1, <2>2 DEF IndexOfEOFInFile, NoDigit
<1>. QED
  BY <1>1, <1>12, <1>13, <1>14

\* The client stops at the last block and at no other: the length it reads is
\* that of a full block exactly when the block is full.
THEOREM LastIsTold ==
    ASSUME NEW n \in 1..BlockSize, NEW junk \in Byte
    PROVE  IndexOfEOFInFile(EncodeTrailer(n, junk), NoDigit) < BlockSize
               <=> n < BlockSize
<1>1. CASE n >= 10
  BY <1>1, LengthRoundTrip DEF Byte
<1>2. CASE n < 10
  BY <1>2 DEF EncodeTrailer, IndexOfEOFInFile, Byte, Digit, NoDigit, BlockSize
<1>. QED
  BY <1>1, <1>2
=============================================================================
