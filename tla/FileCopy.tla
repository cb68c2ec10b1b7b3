-------------------------------- MODULE FileCopy --------------------------------
(***************************************************************************)
(* The copy of a file through blocks that carry their length in their last *)
(* five bytes (Self Work/File IO/main.c).  A byte of the file is its       *)
(* position, from 1; a character of the length is a number below 1.        *)
(***************************************************************************)
EXTENDS Integers, Sequences

CopyBufSize == 1024
EndOfString == 0
Character(digit) == -(digit + 1)
DigitOf(char) == -char - 1

\* A broken variant, for mutation runs: room for four characters.
BlockCapacityMinus4 == CopyBufSize - 4

BlockCapacity == CopyBufSize - 5

\* What the digits of a number are worth, from the last one.
Worth == <<1, 10, 100, 1000, 10000>>

\* numBytesReadToStringInBuf: the digits of n, then zeros.
LengthString(n) ==
    LET digits == CHOOSE d \in 1..5 : n < 10 * Worth[d] /\ (d > 1 => n >= Worth[d])
    IN  [i \in 1..5 |-> IF i <= digits
                        THEN Character((n \div Worth[digits - i + 1]) % 10)
                        ELSE EndOfString]

\* numBytesToReadInBuf: atoi of the last five bytes.
NumBytesToRead(buf) ==
    LET char(i) == buf[CopyBufSize - 5 + i]
        digits == CHOOSE d \in 0..5 :
                      (\A i \in 1..d : char(i) < 0) /\ (d = 5 \/ char(d + 1) >= 0)
        value(i) == IF i <= digits THEN DigitOf(char(i)) * Worth[digits - i + 1] ELSE 0
    IN  value(1) + value(2) + value(3) + value(4) + value(5)

\* The buffer after the k-th fread of a file of size bytes and its length.
BlockBuffer(size, k) ==
    LET from == (k - 1) * BlockCapacity
        bytesRead == IF size - from < BlockCapacity THEN size - from ELSE BlockCapacity
        length == LengthString(bytesRead)
    IN  [i \in 1..CopyBufSize |->
            IF i > CopyBufSize - 5 THEN length[i - (CopyBufSize - 5)]
            ELSE IF i <= bytesRead THEN from + i ELSE EndOfString]

\* What main writes for a file of size bytes, one block after the other.
CopyOf(size) ==
    LET blocks == (size + BlockCapacity - 1) \div BlockCapacity
        written(k) == LET buf == BlockBuffer(size, k) IN SubSeq(buf, 1, NumBytesToRead(buf))
        copied[k \in 0..blocks] == IF k = 0 THEN <<>> ELSE copied[k - 1] \o written(k)
    IN  copied[blocks]
=============================================================================
