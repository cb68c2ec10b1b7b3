-------------------------------- MODULE Packets --------------------------------
(***************************************************************************)
(* The packet header of the "UDP File Transfer" pair (Self Work): a number *)
(* and a two-digit length in base OperationBase, one signed char each, and *)
(* the client's test that an acknowledgement answers the packet it sent.   *)
(* The code has OperationBase = 127 and bufsize = 1020.                    *)
(***************************************************************************)
EXTENDS Integers

CONSTANT OperationBase

\* The numbers must alternate, and every digit must fit a signed char.
ASSUME BaseAssumption == OperationBase \in 2..128

\* What a char variable holds after an int is stored in it.
SignedChar(x) == ((x + 128) % 256) - 128

\* A broken variant, for mutation runs: a length written as one byte.
BuildHeaderOneByte(packetNum, packetDataLength) ==
    << SignedChar(packetNum % OperationBase), 0, SignedChar(packetDataLength) >>

\* buildPacket: packetNum and packetDataLength written into packet[0..2].
BuildHeader(packetNum, packetDataLength) ==
    << SignedChar(packetNum % OperationBase),
       SignedChar(packetDataLength \div OperationBase),
       SignedChar(packetDataLength % OperationBase) >>

\* deconstructPacket: the number and the length read back from packet[0..2].
DeconstructHeader(packet) ==
    [num |-> packet[1], len |-> packet[2] * OperationBase + packet[3]]

\* A broken variant: number 0 is not turned back into OperationBase - 1.
TruePrevPacketNoWrap(packetNum) == (packetNum % OperationBase) - 1

\* The number checkIfPacketMatchesAck expects, when packetNum is the number of
\* the next packet.
TruePrevPacket(packetNum) ==
    IF packetNum % OperationBase = 0 THEN OperationBase - 1
                                     ELSE (packetNum % OperationBase) - 1

\* A broken variant, for mutation runs: any acknowledgement will do.
MatchesAnyAck(recvNum, packetNum) == TRUE

\* checkIfPacketMatchesAck on the number of a received acknowledgement.  The code
\* writes the literals 126 and 127, OperationBase - 1 and OperationBase here.
MatchesAck(recvNum, packetNum) ==
    \/ recvNum = OperationBase - 1 /\ TruePrevPacket(packetNum) = OperationBase
    \/ recvNum = OperationBase /\ TruePrevPacket(packetNum) = 0
    \/ recvNum = TruePrevPacket(packetNum)

=============================================================================
