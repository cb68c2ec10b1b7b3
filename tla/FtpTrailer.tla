------------------------------- MODULE FtpTrailer -------------------------------
(***************************************************************************)
(* The trailer of an FTP data packet: the number of data bytes in decimal, *)
(* written backwards from the packet's last byte (sendFile), and read back *)
(* with atoi (indexOfEOFInFile).  A trailer lists the last four bytes from *)
(* the last one; a byte is a digit or NoDigit.                             *)
(***************************************************************************)
EXTENDS Integers

Digit == 0..9
NoDigit == 10
Byte == Digit \cup {NoDigit}
BlockSize == 1019                     \* BUFSIZE - 5

\* The digit of n that stands for the given power of ten.
DigitAt(n, power) == (n \div power) % 10

\* A broken variant, for mutation runs: the digits in the order of their worth.
EncodeTrailerReversed(n, junk) ==
    IF n >= 1000
    THEN <<DigitAt(n, 1), DigitAt(n, 10), DigitAt(n, 100), DigitAt(n, 1000)>>
    ELSE <<DigitAt(n, 1), DigitAt(n, 10), DigitAt(n, 100), NoDigit>>

\* The trailer of a packet with n > 0 data bytes.  For fewer than ten bytes
\* sendFile copies a byte it has never written, junk.
EncodeTrailer(n, junk) ==
    IF n >= 1000
    THEN <<DigitAt(n, 1000), DigitAt(n, 100), DigitAt(n, 10), DigitAt(n, 1)>>
    ELSE IF n >= 100
    THEN <<DigitAt(n, 100), DigitAt(n, 10), DigitAt(n, 1), NoDigit>>
    ELSE IF n >= 10
    THEN <<DigitAt(n, 10), DigitAt(n, 1), NoDigit, NoDigit>>
    ELSE <<junk, NoDigit, NoDigit, NoDigit>>

\* atoi(num): the value of the digits before the first other byte.  num holds
\* four bytes and no terminator; beyond is the byte that happens to follow it.
IndexOfEOFInFile(t, beyond) ==
    IF t[1] = NoDigit THEN 0
    ELSE IF t[2] = NoDigit THEN t[1]
    ELSE IF t[3] = NoDigit THEN 10*t[1] + t[2]
    ELSE IF t[4] = NoDigit THEN 100*t[1] + 10*t[2] + t[3]
    ELSE IF beyond = NoDigit THEN 1000*t[1] + 100*t[2] + 10*t[3] + t[4]
    ELSE 10000*t[1] + 1000*t[2] + 100*t[3] + 10*t[4] + beyond

=============================================================================
