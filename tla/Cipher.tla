--------------------------------- MODULE Cipher ---------------------------------
(***************************************************************************)
(* The key exchange and the cipher of IPsec/talk.c and IPsec/listen.c,     *)
(* which share them.  Characters are their codes.                          *)
(***************************************************************************)
EXTENDS Naturals, Sequences

CONSTANT BufSize              \* 1024 in the code

ASSUME BufSizeAssumption == BufSize \in Nat \ {0}

PrimeModulus == 23
Generator == 5
PrivateKeys == 0..12          \* rand() % 13

\* (long)pow(base, exponent) % PRIME_MODULUS.  The largest power, 22^12, is a
\* double without rounding, so reducing at each step comes to the same.
PowMod(base, exponent) ==
    LET pow[e \in Nat] == IF e = 0 THEN 1 ELSE (base * pow[e - 1]) % PrimeModulus
    IN  pow[exponent]

PublicKey(private) == PowMod(Generator, private)

SharedKey(public, private) == PowMod(public, private)

\* A broken variant, for mutation runs: without the bzero an earlier text shows.
BufferNotZeroed(bytes) ==
    [i \in 1..BufSize |-> IF i <= Len(bytes) THEN bytes[i] ELSE IF i < BufSize THEN 104 ELSE 0]

\* buf after bzero and the arrival of some bytes.
Buffer(bytes) == [i \in 1..BufSize |-> IF i <= Len(bytes) THEN bytes[i] ELSE 0]

\* strlen, of a buffer that ends with a zero.
StrLen(buf) == CHOOSE l \in 0..BufSize-1 : buf[l+1] = 0 /\ \A i \in 1..l : buf[i] # 0

\* The operator ^ of two bytes: what the bits are worth in which they differ.
Xor(c, k) ==
    LET differ(worth) == IF (c \div worth) % 2 # (k \div worth) % 2 THEN worth ELSE 0
    IN  differ(1) + differ(2) + differ(4) + differ(8)
          + differ(16) + differ(32) + differ(64) + differ(128)

BitWiseXOR(buf, key) ==
    [i \in 1..BufSize |-> IF i < BufSize THEN Xor(buf[i], key) ELSE buf[i]]

\* What talk sends for a text: the buffer up to its first zero, so a character
\* that equals the key ends it, and otherwise nothing but the last byte does.
SentBytes(text, key) ==
    LET buf == BitWiseXOR(Buffer(text), key)
    IN  SubSeq(buf, 1, StrLen(buf))

\* What listen prints for the bytes it receives.
PrintedText(bytes, key) ==
    LET buf == BitWiseXOR(Buffer(bytes), key)
    IN  SubSeq(buf, 1, StrLen(buf))
=============================================================================
