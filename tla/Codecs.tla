-------------------------------- MODULE Codecs ---------------------------------
(***************************************************************************)
(* What the encodings have to keep: the header of a put packet (Packets),  *)
(* the trailer of an ftp packet (FtpTrailer), the cipher of talk and       *)
(* listen (Cipher) and the blocks of the file copy (FileCopy), for one     *)
(* packet number, size or key after the other.                             *)
(***************************************************************************)
EXTENDS Packets, FtpTrailer, Cipher, FileCopy, SequencesExt

CONSTANTS
    MaxNumber,     \* bound: the last number
    Lengths,       \* payload lengths of a put packet, at most bufsize
    Characters     \* of a text that is sent through the cipher

\* Two digits are enough for a length, also for bufsize, 1020.
ASSUME LengthsAssumption ==
    /\ MaxNumber \in Nat
    /\ Lengths \subseteq 0..OperationBase * OperationBase - 1
    /\ 1020 < OperationBase * OperationBase

ASSUME CharactersAssumption == Characters \subseteq 1..255

VARIABLE number

CodecInit == number = 0
NextNumber == number < MaxNumber /\ number' = number + 1
CodecSpec == CodecInit /\ [][NextNumber]_number

\* deconstructPacket reads back the length and the number of any packet as
\* buildPacket wrote them.
HeaderSurvives ==
    \A len \in Lengths :
        DeconstructHeader(BuildHeader(number, len)) =
            [num |-> number % OperationBase, len |-> len]

\* The acknowledgement the server builds from the number it read is accepted by
\* the client that waits for it (checkIfPacketMatchesAck), and none for one of
\* the packets before it is, as far back as the numbers differ.
OnlyThisAckAccepted ==
    LET numberRead(m) == DeconstructHeader(BuildHeader(m, 1020)).num
        ackOf(m) == numberRead(numberRead(m))
    IN  \A back \in 0..OperationBase-1 :
            number >= back =>
                (MatchesAck(ackOf(number - back), number + 1) <=> back = 0)

SizeRead(junk, beyond) == IndexOfEOFInFile(EncodeTrailer(number, junk), beyond)

\* The client reads back the size sendFile wrote, when it has two digits or
\* more and, if it has four, no digit follows the client's buffer.
LongSizeIsRead ==
    \A junk, beyond \in Byte :
        number \in 10..BlockSize /\ (number < 1000 \/ beyond = NoDigit) =>
            SizeRead(junk, beyond) = number

\* The last packet is told by its size: a short block is never taken for a full
\* one, nor a full one for a short one (receiveFile), whatever the junk byte is.
LastIsRecognised ==
    \A junk \in Byte :
        number \in 1..BlockSize =>
            (SizeRead(junk, NoDigit) < BlockSize <=> number < BlockSize)

\* A text that does not hold the key as a character is printed as it was typed,
\* although what is sent of it ends at the buffer's end, not at the text's.
TextArrives ==
    number \in 1..PrimeModulus-1 =>
        \A text \in BoundedSeq(Characters \ {number}, BufSize - 1) :
            PrintedText(SentBytes(text, number), number) = text

\* The copy of a file of number bytes has the file's bytes, all and in order.
CopyIsTheFile == CopyOf(number) = [i \in 1..number |-> i]

=============================================================================
