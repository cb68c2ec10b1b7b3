-------------------------------- MODULE MCParts --------------------------------
(***************************************************************************)
(* The small parts for TLC, one at a time.                                 *)
(*                                                                         *)
(* "codecs": the encodings with the code's own sizes (but for the buffer   *)
(* of the cipher), which are the header of a put packet, the trailer of an *)
(* ftp packet, the cipher of talk and listen, and the blocks of the file   *)
(* copy.  number runs over packet numbers, sizes or keys, one by one.      *)
(* "exchange": talk and listen, with the keys of Cipher.                   *)
(* "echo": the two programs of UDP Transfer.                               *)
(***************************************************************************)
EXTENDS Codecs, KeyExchange, Echo

\* Whatever their private keys, talk and listen compute the same one (the exchange
\* has some of them only).
ASSUME KeysAgree ==
    \A a, b \in PrivateKeys : SharedKey(PublicKey(a), b) = SharedKey(PublicKey(b), a)

\* The keys they come to, and one that only a datagram that is no key leads to.
SomeKeys == {SharedKey(PublicKey(a), b) : a, b \in Private} \cup {0}

VARIABLE part

vars == <<part, number, exchangeVars, echoVars>>

Init ==
    /\ part \in {"codecs", "exchange", "echo"}
    /\ CodecInit
    /\ ExchangeInit
    /\ EchoInit
    \* What a part does not use is the same in all its behaviours.
    /\ part # "exchange" => ~lossy /\ own = 0 /\ \A t \in Talkers : private[t] = 0
    /\ part # "echo" => ~loses /\ sender = CHOOSE c \in Clients : TRUE

Next ==
    /\ UNCHANGED part
    /\ \/ part = "codecs" /\ NextNumber /\ UNCHANGED <<exchangeVars, echoVars>>
       \/ part = "exchange" /\ ExchangeNext /\ UNCHANGED <<number, echoVars>>
       \/ part = "echo" /\ EchoNext /\ UNCHANGED <<number, exchangeVars>>

Spec == Init /\ [][Next]_vars /\ ExchangeFairness /\ EchoFairness
=============================================================================
