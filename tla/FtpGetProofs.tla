------------------------------ MODULE FtpGetProofs ------------------------------
(***************************************************************************)
(* Proofs about FtpGet, for any number of clients, files, blocks and       *)
(* bounds of the loops: the types; what the first get leaves in the        *)
(* client's file, on a network that loses datagrams and on one that does   *)
(* not; that the programs implement FileGet for any of their clients; and  *)
(* that the loops of client and server come down.                          *)
(***************************************************************************)
EXTENDS FtpGetRefinement, TLAPS

\* The client's and the server's loops stay within their bounds, and the server has
\* the file that it reads.
LoopsOK ==
    /\ \A c \in Clients :
          /\ cpc[c] \in {"ask", "reply"} => asks[c] < MaxAsks
          /\ cpc[c] = "receive" => polls[c] < MaxPolls
    /\ spc \in {"read", "send", "listen"} =>
          sending \in DOMAIN remote /\ position <= Len(remote[sending])
    /\ spc \in {"send", "listen"} => tries < MaxTries

\* A client whose user has typed nothing has no part in the system.
Quiet(c) ==
    commands[c] = 0 =>
        /\ cpc[c] = "prompt" /\ ~gotLast[c]
        /\ c2s[c] = <<>> /\ s2c[c] = <<>>
        /\ \A n \in Names : local[c][n] = <<>>
        /\ peer = c => spc = "wait" /\ position = 0

\* What the server sends of a file is a stream: Sending_File, then each block.
\* Packet m is the i-th of the stream.
IsPacket(m, i, f) ==
    IF i = 1 THEN m.text = SendingFile
    ELSE m.text = f[i-1] /\ (f[i-1] \in TinyBlocks \/ m.right)

\* The server has begun, and has taken an acknowledgement.
Started == spc # "wait" \/ position > 0
AckTaken == position > 1 \/ (position = 1 /\ spc \in {"read", "wait"})

ServerOK(n) ==
    /\ spc # "crashed"
    /\ spc # "wait" \/ position > 0 => sending = n
    /\ position <= Len(remote[n])
    /\ spc = "wait" => position \in {0, Len(remote[n])}
    /\ spc \in {"send", "listen"} =>
          position > 0 /\ IsPacket(sendBuf, position + 1, remote[n])

\* The requests of c come before its acknowledgements.
ToServerOK(c) ==
    /\ \A i \in DOMAIN c2s[c] : c2s[c][i] \in {request[c], Ack}
    /\ \A i, j \in DOMAIN c2s[c] : i < j /\ c2s[c][i] = Ack => c2s[c][j] = Ack
    /\ AckTaken => \A i \in DOMAIN c2s[c] : c2s[c][i] = Ack
    /\ cpc[c] \in {"ask", "reply"} => \A i \in DOMAIN c2s[c] : c2s[c][i] # Ack

\* taken: how far in the stream is the last packet that c has taken.
ClientOK(c, n, taken) ==
    /\ cpc[c] \in {"ask", "reply"} => taken = 0
    /\ cpc[c] = "receive" =>
          /\ taken > 0
          /\ previous[c] = IF taken = 1 THEN Nothing ELSE remote[n][taken - 1]
    /\ taken = 0 => ~AckTaken /\ \A i \in DOMAIN c2s[c] : c2s[c][i] # Ack
    /\ gotLast[c] => taken = Len(remote[n]) + 1 /\ cpc[c] = "prompt"

\* at: which block of f each block of got is.
Embedded(at, got, f, taken) ==
    /\ \A i, j \in DOMAIN got : i < j => at[i] < at[j]
    /\ \A i \in DOMAIN got :
          /\ at[i] < taken
          /\ got[i] = f[at[i]] \/ (got[i] = Garbage /\ f[at[i]] \in TinyBlocks)

\* sent: how far in the stream each packet on the way is.
OnTheWay(sent, q, f, taken) ==
    /\ \A i \in DOMAIN q :
          /\ IsPacket(q[i], sent[i], f)
          /\ taken <= sent[i] /\ sent[i] <= position + 1
          /\ sent[i] = 1 => taken = 0 /\ i = 1
    /\ \A i, j \in DOMAIN q : i < j => sent[i] <= sent[j]
    /\ taken <= position + 1
    /\ ~Started => q = <<>> /\ taken = 0

\* Without loss no packet of the stream is left out.
AllOnTheWay(sent, q, taken) ==
    /\ q # <<>> => sent[1] <= taken + 1
    /\ \A i \in DOMAIN q : i + 1 \in DOMAIN q => sent[i + 1] <= sent[i] + 1
    /\ Started => LET last == IF q = <<>> THEN taken ELSE sent[Len(q)]
                  IN  last >= (IF spc = "send" THEN position ELSE position + 1)

AllEmbedded(at, got, taken) ==
    /\ Len(got) = (IF taken = 0 THEN 0 ELSE taken - 1)
    /\ \A i \in DOMAIN got : at[i] = i

Transfer(c, n, taken, sent, at) ==
    /\ ClientOK(c, n, taken)
    /\ OnTheWay(sent, s2c[c], remote[n], taken)
    /\ ~lossy => AllOnTheWay(sent, s2c[c], taken)
    /\ Embedded(at, local[c][n], remote[n], taken)
    /\ ~lossy /\ NoRepeats(remote[n]) => AllEmbedded(at, local[c][n], taken)

\* An empty file: only Sending_File is ever sent.
EmptyTransfer(c, n) ==
    /\ spc \in {"wait", "read"}
    /\ local[c][n] = <<>>
    /\ \A i \in DOMAIN s2c[c] : s2c[c][i].text = SendingFile

TransferOK(c, n) ==
    /\ ServerOK(n)
    /\ ToServerOK(c)
    /\ IF remote[n] = <<>> THEN EmptyTransfer(c, n)
       ELSE \E taken \in 0..Len(remote[n])+1,
               sent \in [DOMAIN s2c[c] -> 1..Len(remote[n])+1],
               at \in [DOMAIN local[c][n] -> DOMAIN remote[n]] :
                   Transfer(c, n, taken, sent, at)

GetInvariant ==
    /\ \A c \in Clients : Quiet(c)
    /\ \A c \in Clients, n \in Names : FirstGet(c, n) => TransferOK(c, n)

-----------------------------------------------------------------------------

(* Sequences and files. *)

LEMMA SeqFacts ==
    ASSUME NEW S, NEW s \in Seq(S)
    PROVE  /\ Len(s) \in Nat /\ DOMAIN s = 1..Len(s)
           /\ \A i \in DOMAIN s : s[i] \in S
           /\ s # <<>> <=> Len(s) > 0
OBVIOUS

LEMMA AppendFacts ==
    ASSUME NEW S, NEW s \in Seq(S), NEW e \in S
    PROVE  /\ Append(s, e) \in Seq(S) /\ Len(Append(s, e)) = Len(s) + 1
           /\ DOMAIN Append(s, e) = 1..Len(s) + 1
           /\ \A i \in 1..Len(s) : Append(s, e)[i] = s[i]
           /\ Append(s, e)[Len(s) + 1] = e
           /\ s \o <<e>> = Append(s, e)
           /\ Append(s, e) # <<>>
OBVIOUS

LEMMA TailFacts ==
    ASSUME NEW S, NEW s \in Seq(S), s # <<>>
    PROVE  /\ Head(s) \in S /\ Head(s) = s[1] /\ Tail(s) \in Seq(S)
           /\ Len(Tail(s)) = Len(s) - 1 /\ Len(s) \in Nat \ {0}
           /\ DOMAIN s = 1..Len(s) /\ DOMAIN Tail(s) = 1..Len(s) - 1
           /\ \A i \in 1..Len(s) - 1 : Tail(s)[i] = s[i + 1]
OBVIOUS

LEMMA EmptySeq == \A S : <<>> \in Seq(S) /\ (\A s \in Seq(S) : s \o <<>> = s)
OBVIOUS

LEMMA Further == \A a, p, q \in Nat : a <= p + 1 /\ p <= q => a <= q + 1
OBVIOUS

LEMMA BlockPacket ==
    ASSUME NEW m, NEW f, NEW i \in Nat, i > 1, m.text = f[i-1],
           f[i-1] \in TinyBlocks \/ m.right
    PROVE  IsPacket(m, i, f)
<1>1. i # 1
  OBVIOUS
<1>. QED
  BY <1>1, Zenon DEF IsPacket

\* A file is a sequence of blocks, all of them full but perhaps the last one.
LEMMA FileFacts ==
    ASSUME NEW f \in Files
    PROVE  /\ f \in Seq(Blocks) /\ Len(f) \in 0..MaxFull+1
           /\ DOMAIN f = 1..Len(f)
           /\ \A i \in 1..Len(f) : f[i] \in Blocks
           /\ \A i \in 1..Len(f) - 1 : f[i] \in FullBlocks
<1> DEFINE full == UNION {[1..k -> FullBlocks] : k \in 0..MaxFull}
<1>1. ASSUME NEW g \in full
      PROVE  g \in Seq(FullBlocks) /\ g \in Seq(Blocks) /\ Len(g) \in 0..MaxFull
  <2>1. PICK k \in 0..MaxFull : g \in [1..k -> FullBlocks]
    OBVIOUS
  <2>2. k \in Nat /\ g \in [1..k -> Blocks]
    BY <2>1, ConstantsAssumption DEF Blocks
  <2>. QED
    BY <2>1, <2>2
<1>2. CASE f \in full
  <2>1. Len(f) \in Nat
    BY <1>1, <1>2
  <2>. QED
    BY <1>1, <1>2, <2>1, SeqFacts, ConstantsAssumption
<1>3. CASE \E g \in full, b \in ShortBlocks \cup TinyBlocks : f = Append(g, b)
  <2>1. PICK g \in full, b \in ShortBlocks \cup TinyBlocks : f = Append(g, b)
    BY <1>3
  <2>2. g \in Seq(FullBlocks) /\ g \in Seq(Blocks) /\ Len(g) \in 0..MaxFull /\ b \in Blocks
    BY <1>1 DEF Blocks
  <2>3. /\ f \in Seq(Blocks) /\ Len(f) = Len(g) + 1
        /\ \A i \in 1..Len(g) : f[i] = g[i]
        /\ \A i \in 1..Len(g) : g[i] \in FullBlocks
    BY <2>1, <2>2, AppendFacts, SeqFacts
  <2>. QED
    BY <2>2, <2>3, SeqFacts, ConstantsAssumption
<1>. QED
  BY <1>2, <1>3 DEF Files

LEMMA RemoteFacts ==
    ASSUME TypeOK
    PROVE  /\ DOMAIN remote \subseteq Names
           /\ \A n \in DOMAIN remote :
                /\ remote[n] \in Files /\ remote[n] \in Seq(Blocks)
                /\ Len(remote[n]) \in 0..MaxFull+1
                /\ DOMAIN remote[n] = 1..Len(remote[n])
                /\ \A i \in 1..Len(remote[n]) : remote[n][i] \in Blocks
                /\ \A i \in 1..Len(remote[n]) - 1 : remote[n][i] \in FullBlocks
<1>1. PICK S \in SUBSET Names : remote \in [S -> Files]
  BY DEF TypeOK
<1>. QED
  BY <1>1, FileFacts

-----------------------------------------------------------------------------

(* The types. *)

TypeInvariant == TypeOK /\ LoopsOK

LEMMA Bounds ==
    /\ MaxFull \in Nat /\ MaxCommands \in Nat
    /\ MaxAsks \in Nat \ {0} /\ MaxTries \in Nat \ {0} /\ MaxPolls \in Nat \ {0}
BY ConstantsAssumption

LEMMA TypeInit == Init => TypeInvariant
<1> SUFFICES ASSUME Init PROVE TypeInvariant
  OBVIOUS
<1>1. (CHOOSE r \in Requests : r.op = "other") \in Requests
  <2>1. PICK n \in Names : TRUE
    BY ConstantsAssumption
  <2>2. [op |-> "other", name |-> n] \in Requests
    BY DEF Requests
  <2>. QED
    BY <2>2
<1>2. peer \in Clients /\ sending \in Names
  BY ConstantsAssumption DEF Init
<1>3. ReadyToSend \in Packets
  BY DEF ReadyToSend, Packets
<1>4. /\ cpc \in [Clients -> {"prompt", "ask", "reply", "receive"}]
      /\ asks \in [Clients -> 0..MaxAsks]
      /\ previous \in [Clients -> Blocks \cup {SendingFile, Nothing}]
      /\ gotLast \in [Clients -> BOOLEAN]
      /\ polls \in [Clients -> 0..MaxPolls]
      /\ commands \in [Clients -> 0..MaxCommands]
  BY Bounds DEF Init
<1>0. request \in [Clients -> Requests]
  BY <1>1 DEF Init
<1>5. /\ local \in [Clients -> [Names -> Seq(Blocks \cup {Garbage})]]
      /\ c2s \in [Clients -> Seq(Requests \cup {Ack})]
      /\ s2c \in [Clients -> Seq(Packets)]
  BY EmptySeq DEF Init
<1>6. position \in 0..MaxFull+1 /\ tries \in 0..MaxTries
  BY Bounds DEF Init
<1>7. /\ spc \in {"wait", "read", "send", "listen", "crashed"}
      /\ \E S \in SUBSET Names : remote \in [S -> Files]
      /\ sendBuf \in Packets
      /\ timedOut \in BOOLEAN
      /\ lossy \in BOOLEAN
  BY <1>3, Zenon DEF Init
<1>8. TypeOK
  BY <1>0, <1>2, <1>4, <1>5, <1>6, <1>7 DEF TypeOK
<1>9. LoopsOK
  BY DEF Init, LoopsOK
<1>. QED
  BY <1>8, <1>9 DEF TypeInvariant

LEMMA TypeTypeCommand ==
    ASSUME TypeInvariant, NEW c \in Clients, NEW r \in Requests, TypeCommand(c, r)
    PROVE  TypeInvariant'
<1>. USE Bounds DEF TypeInvariant
<1>1. commands[c] + 1 \in 0..MaxCommands
  BY DEF TypeOK, TypeCommand
<1>2. /\ cpc' \in [Clients -> {"prompt", "ask", "reply", "receive"}]
      /\ request' \in [Clients -> Requests]
      /\ asks' \in [Clients -> 0..MaxAsks]
      /\ gotLast' \in [Clients -> BOOLEAN]
  BY DEF TypeOK, TypeCommand
<1>5. commands' \in [Clients -> 0..MaxCommands]
  BY <1>1 DEF TypeOK, TypeCommand
<1>4. TypeOK'
  BY <1>2, <1>5 DEF TypeOK, TypeCommand, serverVars
<1>3. LoopsOK'
  BY DEF TypeOK, LoopsOK, TypeCommand, serverVars
<1>. QED
  BY <1>3, <1>4

LEMMA TypeSendRequest ==
    ASSUME TypeInvariant, NEW c \in Clients, SendRequest(c)
    PROVE  TypeInvariant'
<1>. USE DEF TypeInvariant
<1>1. Append(c2s[c], request[c]) \in Seq(Requests \cup {Ack})
  BY AppendFacts DEF TypeOK
<1>2. TypeOK'
  BY <1>1 DEF TypeOK, SendRequest, serverVars
<1>3. LoopsOK'
  BY DEF TypeOK, LoopsOK, SendRequest, serverVars
<1>. QED
  BY <1>2, <1>3

LEMMA TypeReceiveReply ==
    ASSUME TypeInvariant, NEW c \in Clients, ReceiveReply(c)
    PROVE  TypeInvariant'
<1>. USE Bounds DEF TypeInvariant
<1>1. Tail(s2c[c]) \in Seq(Packets)
  BY TailFacts DEF TypeOK, ReceiveReply
<1>2. request[c].name \in Names /\ <<>> \in Seq(Blocks \cup {Garbage})
  BY EmptySeq DEF TypeOK, Requests
<1>3. local' \in [Clients -> [Names -> Seq(Blocks \cup {Garbage})]]
  <2>1. CASE UNCHANGED local
    BY <2>1 DEF TypeOK
  <2>2. CASE local' = [local EXCEPT ![c][request[c].name] = <<>>]
    <3>1. local[c] \in [Names -> Seq(Blocks \cup {Garbage})]
      BY DEF TypeOK
    <3>2. [local[c] EXCEPT ![request[c].name] = <<>>]
                \in [Names -> Seq(Blocks \cup {Garbage})]
      BY <1>2, <3>1
    <3>. QED
      BY <2>2, <3>2 DEF TypeOK
  <2>. QED
    BY <2>1, <2>2 DEF ReceiveReply, BeginReceive
<1>6. /\ cpc' \in [Clients -> {"prompt", "ask", "reply", "receive"}]
      /\ previous' \in [Clients -> Blocks \cup {SendingFile, Nothing}]
      /\ polls' \in [Clients -> 0..MaxPolls]
  <2>1. CASE BeginReceive(c)
    BY <2>1 DEF TypeOK, BeginReceive
  <2>2. CASE cpc' = [cpc EXCEPT ![c] = "prompt"] /\ UNCHANGED <<previous, polls>>
    BY <2>2 DEF TypeOK
  <2>. QED
    BY <2>1, <2>2 DEF ReceiveReply
<1>7. s2c' \in [Clients -> Seq(Packets)]
  BY <1>1 DEF TypeOK, ReceiveReply
<1>4. TypeOK'
  BY <1>3, <1>6, <1>7 DEF TypeOK, ReceiveReply, serverVars
<1>5. LoopsOK'
  <2>1. /\ UNCHANGED <<asks, serverVars>>
        /\ \/ cpc' = [cpc EXCEPT ![c] = "receive"] /\ polls' = [polls EXCEPT ![c] = 0]
           \/ cpc' = [cpc EXCEPT ![c] = "prompt"] /\ UNCHANGED polls
    BY DEF ReceiveReply, BeginReceive
  <2>2. \A d \in Clients :
          /\ cpc'[d] \in {"ask", "reply"} => asks'[d] < MaxAsks
          /\ cpc'[d] = "receive" => polls'[d] < MaxPolls
    <3>1. cpc \in [Clients -> {"prompt", "ask", "reply", "receive"}]
          /\ polls \in [Clients -> 0..MaxPolls]
      BY DEF TypeOK
    <3>. QED
      BY <2>1, <3>1 DEF LoopsOK
  <2>. QED
    BY <2>1, <2>2 DEF LoopsOK, serverVars
<1>. QED
  BY <1>4, <1>5

LEMMA TypeNoReply ==
    ASSUME TypeInvariant, NEW c \in Clients, NoReply(c)
    PROVE  TypeInvariant'
<1>. USE Bounds DEF TypeInvariant
<1>1. asks[c] + 1 \in 0..MaxAsks
  BY DEF TypeOK, LoopsOK, NoReply
<1>2. TypeOK'
  BY <1>1 DEF TypeOK, NoReply, serverVars
<1>3. LoopsOK'
  BY DEF TypeOK, LoopsOK, NoReply, serverVars
<1>. QED
  BY <1>2, <1>3

LEMMA WrittenType ==
    ASSUME NEW m \in Packets
    PROVE  /\ m.text \in Blocks \cup {SendingFile} /\ m.right \in BOOLEAN
           /\ Written(m) \in Seq(Blocks \cup {Garbage})
<1>1. m.text \in Blocks \cup {SendingFile} /\ m.right \in BOOLEAN
  BY DEF Packets
<1>2. ASSUME NEW b \in Blocks \cup {Garbage} PROVE <<b>> \in Seq(Blocks \cup {Garbage})
  OBVIOUS
<1>. QED
  BY <1>1, <1>2, EmptySeq DEF Written

LEMMA TypeReceiveFilePacket ==
    ASSUME TypeInvariant, NEW c \in Clients, ReceiveFilePacket(c)
    PROVE  TypeInvariant'
<1>. USE Bounds DEF TypeInvariant
<1> DEFINE m == Head(s2c[c])
           n == request[c].name
<1>1. Tail(s2c[c]) \in Seq(Packets) /\ m \in Packets
  BY TailFacts DEF TypeOK, ReceiveFilePacket
<1>2. Append(c2s[c], Ack) \in Seq(Requests \cup {Ack})
  BY AppendFacts DEF TypeOK
<1>3. polls[c] + 1 \in 0..MaxPolls
  <2>1. polls[c] < MaxPolls /\ polls[c] \in 0..MaxPolls
    BY DEF TypeOK, LoopsOK, ReceiveFilePacket
  <2>. QED
    BY <2>1
<1>4. n \in Names /\ local[c][n] \in Seq(Blocks \cup {Garbage})
  <2>1. request[c] \in Requests /\ local[c] \in [Names -> Seq(Blocks \cup {Garbage})]
    BY DEF TypeOK
  <2>. QED
    BY <2>1 DEF Requests
<1>5. local[c][n] \o Written(m) \in Seq(Blocks \cup {Garbage})
  BY <1>1, <1>4, WrittenType
<1>6. local' \in [Clients -> [Names -> Seq(Blocks \cup {Garbage})]]
  BY <1>4, <1>5 DEF TypeOK, ReceiveFilePacket
<1>7. /\ m.text \in Blocks \cup {SendingFile}
      /\ (IsNew(c, m) /\ IsLast(m)) \in BOOLEAN
  BY <1>1, WrittenType DEF IsNew, IsLast
<1>8. /\ previous' \in [Clients -> Blocks \cup {SendingFile, Nothing}]
      /\ gotLast' \in [Clients -> BOOLEAN]
      /\ c2s' \in [Clients -> Seq(Requests \cup {Ack})]
      /\ s2c' \in [Clients -> Seq(Packets)]
      /\ polls' \in [Clients -> 0..MaxPolls]
      /\ cpc' \in [Clients -> {"prompt", "ask", "reply", "receive"}]
  BY <1>1, <1>2, <1>3, <1>7 DEF TypeOK, ReceiveFilePacket
<1>9. TypeOK'
  BY <1>6, <1>8 DEF TypeOK, ReceiveFilePacket, serverVars
<1>10. LoopsOK'
  BY <1>3 DEF TypeOK, LoopsOK, ReceiveFilePacket, serverVars
<1>. QED
  BY <1>9, <1>10

LEMMA TypeReceiveNothing ==
    ASSUME TypeInvariant, NEW c \in Clients, ReceiveNothing(c)
    PROVE  TypeInvariant'
<1>. USE Bounds DEF TypeInvariant
<1>1. polls[c] + 1 \in 0..MaxPolls
  BY DEF TypeOK, LoopsOK, ReceiveNothing
<1>2. TypeOK'
  BY <1>1 DEF TypeOK, ReceiveNothing, serverVars
<1>3. LoopsOK'
  BY DEF TypeOK, LoopsOK, ReceiveNothing, serverVars
<1>. QED
  BY <1>2, <1>3

LEMMA TypeWaitConnection ==
    ASSUME TypeInvariant, NEW c \in Clients, WaitConnection(c)
    PROVE  TypeInvariant'
<1>. USE Bounds DEF TypeInvariant
<1> DEFINE message == Head(c2s[c])
<1>1. Tail(c2s[c]) \in Seq(Requests \cup {Ack})
  BY TailFacts DEF TypeOK, WaitConnection
<1>2. Append(s2c[c], ReadyToSend) \in Seq(Packets)
  BY AppendFacts DEF TypeOK, ReadyToSend, Packets
<1>3. message \in GetRequests => message.name \in Names
  BY DEF GetRequests, Requests
<1>4. /\ s2c' \in [Clients -> Seq(Packets)]
      /\ c2s' \in [Clients -> Seq(Requests \cup {Ack})]
  BY <1>1, <1>2 DEF TypeOK, WaitConnection
<1>7. /\ sending' \in Names
      /\ position' \in 0..MaxFull+1
      /\ spc' \in {"wait", "read", "crashed"}
  <2>1. \/ /\ message \in GetRequests /\ sending' = message.name /\ position' = 0
           /\ spc' \in {"read", "crashed"}
        \/ UNCHANGED <<spc, sending, position>> /\ spc = "wait"
    BY DEF WaitConnection, OpenFile
  <2>2. sending \in Names /\ position \in 0..MaxFull+1
    BY DEF TypeOK
  <2>. QED
    BY <1>3, <2>1, <2>2
<1>5. TypeOK'
  BY <1>4, <1>7 DEF TypeOK, WaitConnection, clientVars
<1>6. LoopsOK'
  <2>1. CASE message \in GetRequests /\ message.name \in DOMAIN remote
    <3>1. /\ sending' = message.name /\ position' = 0 /\ spc' = "read"
          /\ Len(remote[message.name]) \in Nat /\ remote' = remote
      BY <2>1, RemoteFacts DEF WaitConnection, OpenFile
    <3>. QED
      BY <2>1, <3>1 DEF LoopsOK, WaitConnection, clientVars
  <2>2. CASE ~(message \in GetRequests /\ message.name \in DOMAIN remote)
    <3>1. spc' \in {"wait", "crashed"}
      BY <2>2 DEF WaitConnection, OpenFile
    <3>. QED
      BY <3>1 DEF LoopsOK, WaitConnection, clientVars
  <2>. QED
    BY <2>1, <2>2
<1>. QED
  BY <1>5, <1>6

LEMMA TypeReadBlock ==
    ASSUME TypeInvariant, ReadBlock
    PROVE  TypeInvariant'
<1>. USE Bounds DEF TypeInvariant
<1>1. /\ sending \in DOMAIN remote /\ position \in Nat /\ position <= Len(remote[sending])
      /\ Len(remote[sending]) \in 0..MaxFull+1 /\ remote' = remote /\ sending' = sending
  <2>1. /\ sending \in DOMAIN remote /\ position <= Len(remote[sending])
        /\ position \in 0..MaxFull+1 /\ remote' = remote /\ sending' = sending
    BY DEF ReadBlock, LoopsOK, TypeOK
  <2>. QED
    BY <2>1, RemoteFacts
<1>2. position' \in 0..MaxFull+1 /\ position' <= Len(remote[sending])
  BY <1>1 DEF ReadBlock
<1>3. sendBuf' \in Packets
  <2>1. CASE UNCHANGED sendBuf
    BY <2>1 DEF TypeOK
  <2>2. CASE position < Len(remote[sending])
    <3>1. remote[sending][position + 1] \in Blocks
      BY <1>1, <2>2, RemoteFacts
    <3>. QED
      BY <2>2, <3>1 DEF ReadBlock, Packets
  <2>. QED
    BY <2>1, <2>2 DEF ReadBlock
<1>6. tries' \in 0..MaxTries /\ spc' \in {"wait", "send"}
  BY DEF TypeOK, ReadBlock
<1>7. UNCHANGED <<clientVars, peer, remote, sending, timedOut, c2s, s2c, lossy>>
  BY DEF ReadBlock
<1>4. TypeOK'
  BY <1>2, <1>3, <1>6, <1>7 DEF TypeOK, clientVars
<1>5. LoopsOK'
  BY <1>1, <1>2 DEF LoopsOK, ReadBlock, clientVars
<1>. QED
  BY <1>4, <1>5

LEMMA TypeSendBlock ==
    ASSUME TypeInvariant, SendBlock
    PROVE  TypeInvariant'
<1>. USE DEF TypeInvariant
<1>1. Append(s2c[peer], sendBuf) \in Seq(Packets)
  BY AppendFacts DEF TypeOK
<1>2. TypeOK'
  BY <1>1 DEF TypeOK, SendBlock, clientVars
<1>3. LoopsOK'
  BY DEF LoopsOK, SendBlock, clientVars
<1>. QED
  BY <1>2, <1>3

LEMMA TriesType ==
    ASSUME TypeInvariant, spc = "listen", NotAcknowledged
    PROVE  /\ tries' \in 0..MaxTries /\ timedOut' \in BOOLEAN /\ spc' \in {"wait", "send"}
           /\ spc' = "send" => tries' < MaxTries
BY Bounds DEF TypeInvariant, TypeOK, LoopsOK, NotAcknowledged

LEMMA TypeReceiveAck ==
    ASSUME TypeInvariant, NEW c \in Clients, ReceiveAck(c)
    PROVE  TypeInvariant'
<1>. USE Bounds DEF TypeInvariant
<1>1. Tail(c2s[c]) \in Seq(Requests \cup {Ack})
  BY TailFacts DEF TypeOK, ReceiveAck
<1>2. /\ tries' \in 0..MaxTries /\ timedOut' \in BOOLEAN /\ spc' \in {"wait", "read", "send"}
      /\ spc' = "send" => tries' < MaxTries
  BY TriesType DEF TypeOK, ReceiveAck
<1>3. TypeOK'
  BY <1>1, <1>2 DEF TypeOK, ReceiveAck, clientVars
<1>4. LoopsOK'
  BY <1>2 DEF LoopsOK, ReceiveAck, clientVars
<1>. QED
  BY <1>3, <1>4

LEMMA TypeReceiveNoAck ==
    ASSUME TypeInvariant, ReceiveNoAck
    PROVE  TypeInvariant'
<1>. USE Bounds DEF TypeInvariant
<1>1. /\ tries' \in 0..MaxTries /\ timedOut' \in BOOLEAN /\ spc' \in {"wait", "send"}
      /\ spc' = "send" => tries' < MaxTries
  BY TriesType DEF ReceiveNoAck
<1>2. TypeOK'
  BY <1>1 DEF TypeOK, ReceiveNoAck, clientVars
<1>3. LoopsOK'
  BY <1>1 DEF LoopsOK, ReceiveNoAck, clientVars
<1>. QED
  BY <1>2, <1>3

LEMMA TypeLoseDatagram ==
    ASSUME TypeInvariant, NEW c \in Clients, LoseDatagram(c)
    PROVE  TypeInvariant'
<1>. USE DEF TypeInvariant
<1>1. /\ c2s[c] # <<>> => Tail(c2s[c]) \in Seq(Requests \cup {Ack})
      /\ s2c[c] # <<>> => Tail(s2c[c]) \in Seq(Packets)
  BY TailFacts DEF TypeOK
<1>2. TypeOK'
  BY <1>1 DEF TypeOK, LoseDatagram, clientVars, serverVars
<1>3. LoopsOK'
  BY DEF LoopsOK, LoseDatagram, clientVars, serverVars
<1>. QED
  BY <1>2, <1>3

LEMMA TypeStep == TypeInvariant /\ [Next]_vars => TypeInvariant'
<1> SUFFICES ASSUME TypeInvariant, [Next]_vars PROVE TypeInvariant'
  OBVIOUS
<1>1. CASE UNCHANGED vars
  BY <1>1 DEF TypeInvariant, TypeOK, LoopsOK, vars, clientVars, serverVars
<1>2. CASE Next
  BY <1>2, TypeTypeCommand, TypeSendRequest, TypeReceiveReply, TypeNoReply,
     TypeReceiveFilePacket, TypeReceiveNothing, TypeLoseDatagram, TypeWaitConnection,
     TypeReadBlock, TypeSendBlock, TypeReceiveAck, TypeReceiveNoAck
  DEF Next, ClientStep, ServerStep, SendFileStep
<1>. QED
  BY <1>1, <1>2

\* The type invariant of get, and the bounds of its three loops, for all constants.
THEOREM TypeCorrect == Spec => []TypeOK
<1>1. TypeInvariant => TypeOK
  BY DEF TypeInvariant
<1>. QED
  BY <1>1, TypeInit, TypeStep, PTL DEF Spec

-----------------------------------------------------------------------------

(* Who takes part in a first get. *)

LEMMA GetInit == Init => GetInvariant
<1> SUFFICES ASSUME Init PROVE GetInvariant
  OBVIOUS
<1>1. ASSUME NEW c \in Clients PROVE Quiet(c)
  BY DEF Init, Quiet
<1>2. ASSUME NEW c \in Clients, NEW n \in Names PROVE ~FirstGet(c, n)
  BY DEF Init, FirstGet
<1>. QED
  BY <1>1, <1>2 DEF GetInvariant

LEMMA QuietStep ==
    ASSUME TypeInvariant, \A d \in Clients : Quiet(d), Next, NEW c \in Clients
    PROVE  Quiet(c)'
<1> SUFFICES ASSUME commands'[c] = 0
             PROVE  /\ cpc'[c] = "prompt" /\ ~gotLast'[c]
                    /\ c2s'[c] = <<>> /\ s2c'[c] = <<>>
                    /\ \A n \in Names : local'[c][n] = <<>>
                    /\ peer' = c => spc' = "wait" /\ position' = 0
  BY DEF Quiet
<1>. USE DEF TypeInvariant
<1>1. ASSUME NEW d \in Clients, NEW r \in Requests, TypeCommand(d, r)
      PROVE  d # c /\ commands[c] = 0
  <2>1. commands \in [Clients -> 0..MaxCommands]
    BY DEF TypeOK
  <2>2. commands' = [commands EXCEPT ![d] = @ + 1]
    BY <1>1 DEF TypeCommand
  <2>3. commands[d] \in Nat /\ commands'[d] = commands[d] + 1
    BY <2>1, <2>2, Bounds
  <2>. QED
    BY <2>1, <2>2, <2>3
<1>2. commands[c] = 0
  <2>1. CASE UNCHANGED commands
    BY <2>1
  <2>. QED
    BY <1>1, <2>1
    DEF Next, ClientStep, ServerStep, SendFileStep, SendRequest, ReceiveReply, NoReply,
        ReceiveFilePacket, ReceiveNothing, LoseDatagram, WaitConnection, ReadBlock,
        SendBlock, ReceiveAck, ReceiveNoAck, clientVars
<1>3. /\ cpc[c] = "prompt" /\ ~gotLast[c]
      /\ c2s[c] = <<>> /\ s2c[c] = <<>>
      /\ \A n \in Names : local[c][n] = <<>>
      /\ peer = c => spc = "wait" /\ position = 0
  BY <1>2 DEF Quiet
<1>4. CASE \E d \in Clients, r \in Requests : TypeCommand(d, r)
  BY <1>1, <1>3, <1>4 DEF TypeCommand, TypeOK, serverVars
<1>5. CASE \E d \in Clients : ClientStep(d)
  <2>1. PICK d \in Clients : ClientStep(d)
    BY <1>5
  <2>2. d # c
    BY <1>3, <2>1 DEF ClientStep, SendRequest, ReceiveReply, NoReply, ReceiveFilePacket,
                      ReceiveNothing
  <2>3. /\ cpc'[c] = cpc[c] /\ gotLast'[c] = gotLast[c] /\ c2s'[c] = c2s[c]
        /\ s2c'[c] = s2c[c] /\ local'[c] = local[c]
        /\ UNCHANGED <<peer, spc, position>>
    <3>1. CASE SendRequest(d) \/ NoReply(d) \/ ReceiveNothing(d)
      BY <2>2, <3>1 DEF SendRequest, NoReply, ReceiveNothing, serverVars, TypeOK
    <3>2. CASE ReceiveReply(d)
      BY <2>2, <3>2 DEF ReceiveReply, BeginReceive, serverVars, TypeOK
    <3>3. CASE ReceiveFilePacket(d)
      BY <2>2, <3>3 DEF ReceiveFilePacket, serverVars, TypeOK
    <3>. QED
      BY <2>1, <3>1, <3>2, <3>3 DEF ClientStep
  <2>. QED
    BY <1>3, <2>3
<1>6. CASE \E d \in Clients : LoseDatagram(d)
  <2>1. PICK d \in Clients : LoseDatagram(d)
    BY <1>6
  <2>2. d # c
    BY <1>3, <2>1 DEF LoseDatagram
  <2>. QED
    BY <1>3, <2>1, <2>2 DEF LoseDatagram, clientVars, serverVars, TypeOK
<1>7. CASE \E d \in Clients : WaitConnection(d)
  <2>1. PICK d \in Clients : WaitConnection(d)
    BY <1>7
  <2>2. d # c
    BY <1>3, <2>1 DEF WaitConnection
  <2>. QED
    BY <1>3, <2>1, <2>2 DEF WaitConnection, OpenFile, clientVars, TypeOK
<1>8. CASE SendFileStep
  <2>1. CASE ReadBlock \/ SendBlock \/ ReceiveNoAck
    BY <1>3, <2>1 DEF ReadBlock, SendBlock, ReceiveNoAck, clientVars, TypeOK
  <2>2. CASE \E d \in Clients : ReceiveAck(d)
    <3>1. PICK d \in Clients : ReceiveAck(d)
      BY <2>2
    <3>2. d # c
      BY <1>3, <3>1 DEF ReceiveAck
    <3>. QED
      BY <1>3, <3>1, <3>2 DEF ReceiveAck, clientVars, TypeOK
  <2>. QED
    BY <1>8, <2>1, <2>2 DEF SendFileStep
<1>. QED
  BY <1>4, <1>5, <1>6, <1>7, <1>8 DEF Next, ServerStep

\* During a first get only its client and the server take steps.
LEMMA FirstGetStep ==
    ASSUME TypeInvariant, \A d \in Clients : Quiet(d), Next,
           NEW c \in Clients, NEW n \in Names, FirstGet(c, n)'
    PROVE  \/ /\ \A d \in Clients : commands[d] = 0
              /\ \E r \in Requests : TypeCommand(c, r)
           \/ /\ FirstGet(c, n)
              /\ \/ ClientStep(c) \/ LoseDatagram(c) \/ WaitConnection(c)
                 \/ ReadBlock \/ SendBlock \/ ReceiveNoAck \/ ReceiveAck(c)
<1>. USE DEF TypeInvariant
<1>1. remote' = remote
  BY DEF Next, ClientStep, ServerStep, SendFileStep, TypeCommand, SendRequest, ReceiveReply,
         NoReply, ReceiveFilePacket, ReceiveNothing, LoseDatagram, WaitConnection,
         ReadBlock, SendBlock, ReceiveAck, ReceiveNoAck, serverVars
<1>4. timedOut' = timedOut \/ NotAcknowledged
  BY DEF Next, ClientStep, ServerStep, SendFileStep, TypeCommand, SendRequest, ReceiveReply,
         NoReply, ReceiveFilePacket, ReceiveNothing, LoseDatagram, WaitConnection,
         ReadBlock, SendBlock, ReceiveAck, ReceiveNoAck, serverVars
<1>5. ~timedOut
  <2>1. ~timedOut'
    BY DEF FirstGet
  <2>2. NotAcknowledged => (timedOut => timedOut')
    BY Zenon DEF NotAcknowledged
  <2>. QED
    BY <1>4, <2>1, <2>2, Zenon
<1>2. CASE \E d \in Clients, r \in Requests : TypeCommand(d, r)
  <2>1. PICK d \in Clients, r \in Requests : TypeCommand(d, r)
    BY <1>2
  <2>2. /\ commands'[d] = commands[d] + 1 /\ commands[d] \in Nat
        /\ \A e \in Clients : e # d => commands'[e] = commands[e]
    BY <2>1, Bounds DEF TypeCommand, TypeOK
  <2>3. d = c
    BY <2>2 DEF FirstGet
  <2>. QED
    BY <2>1, <2>2, <2>3 DEF FirstGet
<1>3. CASE ~(\E d \in Clients, r \in Requests : TypeCommand(d, r))
  <2>1. /\ UNCHANGED <<commands, request>>
        /\ \/ \E d \in Clients : \/ ClientStep(d) \/ LoseDatagram(d)
                                 \/ WaitConnection(d) \/ ReceiveAck(d)
           \/ ReadBlock \/ SendBlock \/ ReceiveNoAck
    BY <1>3 DEF Next, ClientStep, ServerStep, SendFileStep, SendRequest, ReceiveReply,
         NoReply, ReceiveFilePacket, ReceiveNothing, LoseDatagram, WaitConnection,
         ReadBlock, SendBlock, ReceiveAck, ReceiveNoAck, clientVars
  <2>2. FirstGet(c, n)
    BY <1>1, <1>5, <2>1 DEF FirstGet
  <2>3. ASSUME NEW d \in Clients, d # c
        PROVE  ~(ClientStep(d) \/ LoseDatagram(d) \/ WaitConnection(d) \/ ReceiveAck(d))
    <3>1. cpc[d] = "prompt" /\ c2s[d] = <<>> /\ s2c[d] = <<>>
      BY <2>2, <2>3 DEF FirstGet, Quiet
    <3>. QED
      BY <3>1 DEF ClientStep, SendRequest, ReceiveReply, NoReply, ReceiveFilePacket,
                  ReceiveNothing, LoseDatagram, WaitConnection, ReceiveAck
  <2>. QED
    BY <2>1, <2>2, <2>3
<1>. QED
  BY <1>2, <1>3

LEMMA BlockFacts ==
    /\ SendingFile \notin Blocks /\ Nothing \notin Blocks /\ Garbage \notin Blocks
    /\ \A b \in Blocks : b \in FullBlocks => b \notin TinyBlocks
    /\ Ack \notin Requests
    /\ GetRequests \subseteq Requests
BY ConstantsAssumption DEF Blocks, GetRequests

LEMMA GetFacts ==
    ASSUME TypeInvariant, \A d \in Clients : Quiet(d),
           NEW c \in Clients, NEW n \in Names, FirstGet(c, n)
    PROVE  /\ request[c] \in GetRequests /\ request[c].name = n /\ request[c] # Ack
           /\ n \in DOMAIN remote
           /\ remote[n] \in Seq(Blocks) /\ Len(remote[n]) \in Nat
           /\ DOMAIN remote[n] = 1..Len(remote[n])
           /\ \A i \in 1..Len(remote[n]) :
                 remote[n][i] \in Blocks /\ remote[n][i] # SendingFile
           /\ \A i \in 1..Len(remote[n]) - 1 : remote[n][i] \in FullBlocks
           /\ remote[n] # <<>> <=> Len(remote[n]) > 0
           /\ position \in Nat
           /\ c2s[c] \in Seq(Requests \cup {Ack}) /\ s2c[c] \in Seq(Packets)
           /\ local[c][n] \in Seq(Blocks \cup {Garbage})
           /\ peer = c \/ spc = "wait"
<1>1. request[c] \in GetRequests /\ request[c].name = n /\ request[c] # Ack
  BY BlockFacts DEF FirstGet, TypeInvariant, TypeOK, GetRequests
<1>2. peer = c \/ spc = "wait"
  BY DEF FirstGet, Quiet, TypeInvariant, TypeOK
<1>3. n \in DOMAIN remote
  BY DEF FirstGet
<1>4. /\ remote[n] \in Seq(Blocks) /\ Len(remote[n]) \in Nat
      /\ DOMAIN remote[n] = 1..Len(remote[n])
      /\ \A i \in 1..Len(remote[n]) : remote[n][i] \in Blocks
      /\ \A i \in 1..Len(remote[n]) - 1 : remote[n][i] \in FullBlocks
  BY <1>3, RemoteFacts, Bounds DEF TypeInvariant
<1>5. remote[n] # <<>> <=> Len(remote[n]) > 0
  BY <1>4, SeqFacts
<1>6. position \in Nat
  BY Bounds DEF TypeInvariant, TypeOK
<1>7. /\ c2s[c] \in Seq(Requests \cup {Ack}) /\ s2c[c] \in Seq(Packets)
      /\ local[c] \in [Names -> Seq(Blocks \cup {Garbage})]
  BY DEF TypeInvariant, TypeOK
<1>8. \A i \in 1..Len(remote[n]) : remote[n][i] # SendingFile
  BY <1>4, BlockFacts
<1>9. local[c][n] \in Seq(Blocks \cup {Garbage})
  BY <1>7
<1>. QED
  BY <1>1, <1>2, <1>3, <1>4, <1>5, <1>6, <1>7, <1>8, <1>9

-----------------------------------------------------------------------------

(* Each step of a first get. *)

Getting(c, n) ==
    TypeInvariant /\ (\A d \in Clients : Quiet(d)) /\ FirstGet(c, n) /\ TransferOK(c, n)

\* A first get begins.
LEMMA GetTypeCommand ==
    ASSUME TypeInvariant, \A d \in Clients : Quiet(d), \A d \in Clients : commands[d] = 0,
           NEW c \in Clients, NEW n \in Names, NEW r \in Requests, TypeCommand(c, r),
           FirstGet(c, n)'
    PROVE  TransferOK(c, n)'
<1>1. /\ spc' = "wait" /\ position' = 0 /\ remote' = remote
      /\ c2s'[c] = <<>> /\ s2c'[c] = <<>> /\ local'[c][n] = <<>>
      /\ cpc'[c] = "ask" /\ ~gotLast'[c]
  BY DEF Quiet, TypeCommand, TypeInvariant, TypeOK, serverVars
<1>2. Len(remote[n]) \in Nat /\ (remote[n] # <<>> <=> Len(remote[n]) > 0)
  BY <1>1, RemoteFacts, SeqFacts, Bounds DEF FirstGet, TypeInvariant
<1>3. ServerOK(n)'
  BY <1>1, <1>2 DEF ServerOK
<1>4. ToServerOK(c)'
  BY <1>1 DEF ToServerOK
<1>5. CASE remote[n] = <<>>
  <2>1. EmptyTransfer(c, n)'
    BY <1>1 DEF EmptyTransfer
  <2>. QED
    BY <1>1, <1>3, <1>4, <1>5, <2>1 DEF TransferOK
<1>6. CASE remote[n] # <<>>
  <2> DEFINE none == [i \in {} |-> 1]
  <2>1. DOMAIN s2c'[c] = {} /\ DOMAIN local'[c][n] = {} /\ DOMAIN c2s'[c] = {}
        /\ Len(local'[c][n]) = 0
    BY <1>1
  <2>2. /\ none \in [DOMAIN s2c'[c] -> 1..Len(remote[n])+1]
        /\ none \in [DOMAIN local'[c][n] -> DOMAIN remote[n]]
    BY <2>1
  <2>3. ClientOK(c, n, 0)'
    BY <1>1, <2>1 DEF ClientOK, AckTaken
  <2>4. OnTheWay(none, s2c[c], remote[n], 0)'
    BY <1>1, <2>1 DEF OnTheWay, Started
  <2>5. AllOnTheWay(none, s2c[c], 0)'
    BY <1>1, <2>1 DEF AllOnTheWay, Started
  <2>6. /\ Embedded(none, local[c][n], remote[n], 0)'
        /\ AllEmbedded(none, local[c][n], 0)'
    BY <2>1 DEF Embedded, AllEmbedded
  <2>7. Transfer(c, n, 0, none, none)'
    BY <2>3, <2>4, <2>5, <2>6 DEF Transfer
  <2>8. 0 \in 0..Len(remote[n])+1
    BY <1>2
  <2> HIDE DEF none
  <2>. QED
    BY <1>1, <1>3, <1>4, <1>6, <2>2, <2>7, <2>8 DEF TransferOK
<1>. QED
  BY <1>5, <1>6

\* No acknowledgement is taken before the client has stopped asking.
LEMMA AskingFacts ==
    ASSUME NEW c \in Clients, NEW n \in Names, Getting(c, n), cpc[c] \in {"ask", "reply"}
    PROVE  ~AckTaken
<1>1. CASE remote[n] = <<>>
  BY <1>1, GetFacts DEF Getting, TransferOK, ServerOK, AckTaken
<1>2. CASE remote[n] # <<>>
  BY <1>2 DEF Getting, TransferOK, Transfer, ClientOK
<1>. QED
  BY <1>1, <1>2

\* The client asks, asks again, gives up, or polls nothing.
LEMMA GetClientQuietly ==
    ASSUME NEW c \in Clients, NEW n \in Names, Getting(c, n),
           SendRequest(c) \/ NoReply(c) \/ ReceiveNothing(c)
    PROVE  TransferOK(c, n)'
<1>. USE DEF Getting
<1>1. /\ UNCHANGED <<request, local, previous, gotLast, serverVars, s2c, lossy>>
      /\ cpc'[c] \in {"ask", "reply"} => cpc[c] \in {"ask", "reply"}
      /\ cpc'[c] = "receive" => cpc[c] = "receive"
      /\ cpc[c] # "prompt"
      /\ c2s' # c2s =>
            c2s'[c] = Append(c2s[c], request[c]) /\ cpc[c] \in {"ask", "reply"}
  BY DEF SendRequest, NoReply, ReceiveNothing, TypeInvariant, TypeOK
<1>2. UNCHANGED <<spc, peer, remote, sending, position, sendBuf>>
  BY <1>1 DEF serverVars
<1>3. ServerOK(n)'
  BY <1>2 DEF ServerOK, TransferOK, IsPacket
<1>4. /\ \A i \in DOMAIN c2s'[c] :
            (i \in DOMAIN c2s[c] /\ c2s'[c][i] = c2s[c][i]) \/ c2s'[c][i] = request[c]
      /\ c2s' # c2s => \A i \in DOMAIN c2s'[c] : c2s'[c][i] # Ack
  <2>1. CASE UNCHANGED c2s
    BY <2>1
  <2>2. CASE c2s' # c2s
    <3>1. c2s'[c] = Append(c2s[c], request[c]) /\ cpc[c] \in {"ask", "reply"}
      BY <1>1, <2>2
    <3>2. /\ Len(c2s[c]) \in Nat /\ DOMAIN c2s[c] = 1..Len(c2s[c])
          /\ DOMAIN c2s'[c] = 1..Len(c2s[c]) + 1
          /\ \A i \in 1..Len(c2s[c]) : c2s'[c][i] = c2s[c][i]
          /\ c2s'[c][Len(c2s[c]) + 1] = request[c]
      BY <3>1, AppendFacts, SeqFacts DEF TypeInvariant, TypeOK
    <3>3. request[c] # Ack /\ \A i \in DOMAIN c2s[c] : c2s[c][i] # Ack
      BY <3>1, GetFacts DEF TransferOK, ToServerOK
    <3>4. ASSUME NEW i \in DOMAIN c2s'[c]
          PROVE  \/ i \in DOMAIN c2s[c] /\ c2s'[c][i] = c2s[c][i]
                 \/ c2s'[c][i] = request[c]
      BY <3>2
    <3>. QED
      BY <3>3, <3>4
  <2>. QED
    BY <2>1, <2>2
<1>5. ToServerOK(c)'
  <2>1. CASE UNCHANGED c2s
    BY <1>1, <1>2, <2>1 DEF TransferOK, ToServerOK, AckTaken
  <2>2. CASE c2s' # c2s
    <3>1. ~AckTaken'
      BY <1>1, <1>2, <2>2, AskingFacts DEF AckTaken
    <3>2. \A i \in DOMAIN c2s'[c] : c2s'[c][i] \in {request[c], Ack} /\ c2s'[c][i] # Ack
      BY <1>4, <2>2 DEF TransferOK, ToServerOK
    <3>. QED
      BY <1>1, <3>1, <3>2 DEF ToServerOK
  <2>. QED
    BY <2>1, <2>2
<1>6. CASE remote[n] = <<>>
  BY <1>1, <1>2, <1>3, <1>5, <1>6 DEF TransferOK, EmptyTransfer
<1>7. CASE remote[n] # <<>>
  <2>1. PICK taken \in 0..Len(remote[n])+1,
             sent \in [DOMAIN s2c[c] -> 1..Len(remote[n])+1],
             at \in [DOMAIN local[c][n] -> DOMAIN remote[n]] :
                Transfer(c, n, taken, sent, at)
    BY <1>7 DEF TransferOK
  <2>2. ClientOK(c, n, taken)'
    <3>1. taken = 0 => \A i \in DOMAIN c2s'[c] : c2s'[c][i] # Ack
      BY <1>4, <2>1 DEF Transfer, ClientOK
    <3>. QED
      BY <1>1, <1>2, <2>1, <3>1 DEF Transfer, ClientOK, AckTaken
  <2>3. OnTheWay(sent, s2c[c], remote[n], taken)'
    BY <1>1, <1>2, <2>1 DEF Transfer, OnTheWay, Started
  <2>4. (~lossy => AllOnTheWay(sent, s2c[c], taken))'
    BY <1>1, <1>2, <2>1 DEF Transfer, AllOnTheWay, Started
  <2>5. Transfer(c, n, taken, sent, at)'
    BY <1>1, <1>2, <2>1, <2>2, <2>3, <2>4 DEF Transfer
  <2>. QED
    BY <1>1, <1>2, <1>3, <1>5, <1>7, <2>5 DEF TransferOK
<1>. QED
  BY <1>6, <1>7

\* What is left of the acknowledgements and requests of c when one was taken.
LEMMA ToServerTail ==
    ASSUME NEW c \in Clients, c2s[c] \in Seq(Requests \cup {Ack}), c2s[c] # <<>>,
           c2s'[c] = Tail(c2s[c]), ToServerOK(c), UNCHANGED <<request, cpc>>,
           AckTaken' => AckTaken \/ Head(c2s[c]) = Ack
    PROVE  /\ ToServerOK(c)'
           /\ \A i \in DOMAIN c2s'[c] : i + 1 \in DOMAIN c2s[c] /\ c2s'[c][i] = c2s[c][i+1]
           /\ Head(c2s[c]) = c2s[c][1] /\ 1 \in DOMAIN c2s[c]
<1>1. /\ Len(c2s[c]) \in Nat \ {0} /\ DOMAIN c2s[c] = 1..Len(c2s[c])
      /\ DOMAIN c2s'[c] = 1..Len(c2s[c]) - 1 /\ Head(c2s[c]) = c2s[c][1]
      /\ \A i \in 1..Len(c2s[c]) - 1 : c2s'[c][i] = c2s[c][i + 1]
  BY TailFacts
<1>2. \A i \in DOMAIN c2s'[c] : i \in Nat /\ i + 1 \in DOMAIN c2s[c] /\ 1 < i + 1
                                /\ c2s'[c][i] = c2s[c][i+1]
  BY <1>1
<1>3. 1 \in DOMAIN c2s[c]
  BY <1>1
<1>4. \A i \in DOMAIN c2s'[c] : c2s'[c][i] \in {request[c], Ack}
  BY <1>2 DEF ToServerOK
<1>5. \A i, j \in DOMAIN c2s'[c] : i < j /\ c2s'[c][i] = Ack => c2s'[c][j] = Ack
  <2>1. ASSUME NEW i \in DOMAIN c2s'[c], NEW j \in DOMAIN c2s'[c], i < j, c2s'[c][i] = Ack
        PROVE  c2s'[c][j] = Ack
    <3>1. i + 1 < j + 1 /\ c2s[c][i+1] = Ack
      BY <1>2, <2>1
    <3>. QED
      BY <1>2, <3>1 DEF ToServerOK
  <2>. QED
    BY <2>1
<1>6. AckTaken' => \A i \in DOMAIN c2s'[c] : c2s'[c][i] = Ack
  BY <1>1, <1>2, <1>3 DEF ToServerOK
<1>7. cpc'[c] \in {"ask", "reply"} => \A i \in DOMAIN c2s'[c] : c2s'[c][i] # Ack
  BY <1>2 DEF ToServerOK
<1>. QED
  BY <1>1, <1>2, <1>3, <1>4, <1>5, <1>6, <1>7 DEF ToServerOK

\* A step that leaves the client and what is on the way to it alone.
LEMMA GetServerFrame ==
    ASSUME NEW c \in Clients, NEW n \in Names, Getting(c, n),
           UNCHANGED <<clientVars, remote, lossy>>, s2c'[c] = s2c[c],
           \/ c2s'[c] = c2s[c]
           \/ c2s[c] # <<>> /\ c2s'[c] = Tail(c2s[c]),
           AckTaken' => \/ AckTaken
                        \/ /\ c2s[c] # <<>> /\ c2s'[c] = Tail(c2s[c])
                           /\ Head(c2s[c]) = Ack,
           ServerOK(n)', Started' <=> Started,
           position' \in Nat, position <= position',
           (IF spc' = "send" THEN position' ELSE position' + 1)
                <= (IF spc = "send" THEN position ELSE position + 1),
           spc' \in {"wait", "read"} \/ remote[n] # <<>>
    PROVE  TransferOK(c, n)'
<1>. USE DEF Getting
<1>1. UNCHANGED <<cpc, request, local, previous, gotLast>>
  BY DEF clientVars
<1>2. ToServerOK(c)'
  <2>1. CASE c2s'[c] = c2s[c]
    <3>1. AckTaken' => \A i \in DOMAIN c2s[c] : c2s[c][i] = Ack
      <4>1. CASE AckTaken
        BY <4>1 DEF TransferOK, ToServerOK
      <4>2. CASE c2s[c] # <<>> /\ c2s[c] = Tail(c2s[c])
        <5>1. Len(Tail(c2s[c])) = Len(c2s[c]) - 1 /\ Len(c2s[c]) \in Nat
          BY <4>2, GetFacts, TailFacts
        <5>2. Len(c2s[c]) = Len(c2s[c]) - 1
          BY <4>2, <5>1
        <5>. QED
          BY <5>1, <5>2
      <4>. QED
        BY <2>1, <4>1, <4>2
    <3>. QED
      BY <1>1, <2>1, <3>1 DEF TransferOK, ToServerOK
  <2>2. CASE c2s[c] # <<>> /\ c2s'[c] = Tail(c2s[c])
    BY <1>1, <2>2, GetFacts, ToServerTail DEF TransferOK
  <2>. QED
    BY <2>1, <2>2
<1>3. /\ (\A i \in DOMAIN c2s[c] : c2s[c][i] # Ack) =>
            \A i \in DOMAIN c2s'[c] : c2s'[c][i] # Ack
      /\ (\A i \in DOMAIN c2s[c] : c2s[c][i] # Ack) /\ ~AckTaken => ~AckTaken'
  <2>1. CASE c2s'[c] = c2s[c]
    <3>1. CASE c2s[c] # <<>> /\ c2s[c] = Tail(c2s[c])
      <4>1. Len(Tail(c2s[c])) = Len(c2s[c]) - 1 /\ Len(c2s[c]) \in Nat
        BY <3>1, GetFacts, TailFacts
      <4>. QED
        BY <3>1, <4>1
    <3>. QED
      BY <2>1, <3>1
  <2>2. CASE c2s[c] # <<>> /\ c2s'[c] = Tail(c2s[c])
    <3>1. /\ \A i \in DOMAIN c2s'[c] : i + 1 \in DOMAIN c2s[c] /\ c2s'[c][i] = c2s[c][i+1]
          /\ Head(c2s[c]) = c2s[c][1] /\ 1 \in DOMAIN c2s[c]
      BY <1>1, <2>2, GetFacts, ToServerTail DEF TransferOK
    <3>. QED
      BY <3>1
  <2>. QED
    BY <2>1, <2>2
<1>4. CASE remote[n] = <<>>
  BY <1>1, <1>2, <1>4 DEF TransferOK, EmptyTransfer
<1>5. CASE remote[n] # <<>>
  <2>1. PICK taken \in 0..Len(remote[n])+1,
             sent \in [DOMAIN s2c[c] -> 1..Len(remote[n])+1],
             at \in [DOMAIN local[c][n] -> DOMAIN remote[n]] :
                Transfer(c, n, taken, sent, at)
    BY <1>5 DEF TransferOK
  <2>2. Len(remote[n]) \in Nat /\ position \in Nat
    BY GetFacts
  <2>3. ClientOK(c, n, taken)'
    BY <1>1, <1>3, <2>1 DEF Transfer, ClientOK
  <2>4. OnTheWay(sent, s2c[c], remote[n], taken)'
    <3>1. \A i \in DOMAIN s2c[c] : sent[i] <= position' + 1
      BY <2>1, <2>2 DEF Transfer, OnTheWay
    <3>2. taken <= position' + 1
      <4>1. taken \in Nat
        BY <2>2
      <4>2. taken <= position + 1
        BY <2>1 DEF Transfer, OnTheWay
      <4>. QED
        BY <2>2, <4>1, <4>2, Further
    <3>. QED
      BY <2>1, <3>1, <3>2 DEF Transfer, OnTheWay
  <2>5. (~lossy => AllOnTheWay(sent, s2c[c], taken))'
    <3> SUFFICES ASSUME ~lossy PROVE AllOnTheWay(sent, s2c[c], taken)'
      OBVIOUS
    <3>1. AllOnTheWay(sent, s2c[c], taken)
      BY <2>1 DEF Transfer
    <3> DEFINE last == IF s2c[c] = <<>> THEN taken ELSE sent[Len(s2c[c])]
    <3>2. last \in Nat
      <4>1. s2c[c] # <<>> => Len(s2c[c]) \in DOMAIN s2c[c]
        BY GetFacts, SeqFacts
      <4>. QED
        BY <2>2, <4>1
    <3>3. Started' => last >= (IF spc' = "send" THEN position' ELSE position' + 1)
      <4>1. Started => last >= (IF spc = "send" THEN position ELSE position + 1)
        BY <3>1 DEF AllOnTheWay
      <4> HIDE DEF last
      <4>. QED
        BY <2>2, <3>2, <4>1
    <3> HIDE DEF last
    <3>4. Started' => (IF s2c'[c] = <<>> THEN taken ELSE sent[Len(s2c'[c])])
                        >= (IF spc' = "send" THEN position' ELSE position' + 1)
      BY <3>3 DEF last
    <3>. QED
      BY <3>1, <3>4 DEF AllOnTheWay
  <2>6. Transfer(c, n, taken, sent, at)'
    BY <1>1, <2>1, <2>3, <2>4, <2>5 DEF Transfer
  <2>. QED
    BY <1>1, <1>2, <1>5, <2>1, <2>6 DEF TransferOK
<1>. QED
  BY <1>4, <1>5

LEMMA GetReadBlock ==
    ASSUME NEW c \in Clients, NEW n \in Names, Getting(c, n), ReadBlock
    PROVE  TransferOK(c, n)'
<1>. USE DEF Getting
<1>1. /\ spc = "read" /\ sending = n /\ remote' = remote /\ sending' = sending
      /\ position \in Nat /\ position <= Len(remote[n]) /\ Len(remote[n]) \in Nat
      /\ UNCHANGED <<clientVars, lossy, c2s, s2c>>
      /\ remote[n] # <<>> <=> Len(remote[n]) > 0
  BY GetFacts DEF ReadBlock, TransferOK, ServerOK
<1>2. CASE position = Len(remote[n])
  <2>1. spc' = "wait" /\ position' = position
    BY <1>1, <1>2 DEF ReadBlock
  <2>2. ServerOK(n)'
    BY <1>1, <1>2, <2>1 DEF ServerOK
  <2>3. Started
    BY <1>1 DEF Started
  <2>4. CASE remote[n] # <<>>
    <3>1. Started'
      BY <1>1, <1>2, <2>1, <2>4 DEF Started
    <3>2. AckTaken' => AckTaken
      BY <1>1, <2>1 DEF AckTaken
    <3>3. /\ position' \in Nat /\ position <= position'
          /\ (IF spc' = "send" THEN position' ELSE position' + 1)
                <= (IF spc = "send" THEN position ELSE position + 1)
      BY <1>1, <2>1
    <3>. QED
      BY <1>1, <2>1, <2>2, <2>3, <3>1, <3>2, <3>3, GetServerFrame
  <2>5. CASE remote[n] = <<>>
    <3>1. ToServerOK(c)'
      BY <1>1, <2>1 DEF TransferOK, ToServerOK, AckTaken, clientVars
    <3>. QED
      BY <1>1, <2>1, <2>2, <2>5, <3>1 DEF TransferOK, EmptyTransfer, clientVars
  <2>. QED
    BY <2>4, <2>5
<1>3. CASE position < Len(remote[n])
  <2>1. spc' = "send" /\ position' = position + 1
    BY <1>1, <1>3 DEF ReadBlock
  <2>2. IsPacket(sendBuf', position' + 1, remote[n])
    <3> DEFINE b == remote[n][position + 1]
    <3>1. PICK right \in BOOLEAN :
            (b \notin TinyBlocks => right) /\ sendBuf' = [text |-> b, right |-> right]
      BY <1>1, <1>3 DEF ReadBlock
    <3>2. position' + 1 # 1 /\ position' + 1 - 1 = position + 1
      BY <1>1, <2>1
    <3>3. sendBuf'.text = b
      BY <3>1
    <3>4. b \in TinyBlocks \/ sendBuf'.right
      BY <3>1, Zenon
    <3>5. PICK i \in Nat : i = position' + 1
      BY <1>1, <2>1
    <3>6. i > 1 /\ i - 1 = position + 1
      BY <1>1, <2>1, <3>5
    <3>7. remote[n][i - 1] = b
      BY <3>6
    <3> HIDE DEF b
    <3>8. IsPacket(sendBuf', i, remote[n])
      BY <3>3, <3>4, <3>6, <3>7, BlockPacket, Zenon
    <3>. QED
      BY <3>5, <3>8
  <2>3. ServerOK(n)'
    <3>1. position' > 0 /\ position' <= Len(remote[n])
      BY <1>1, <1>3, <2>1
    <3>. QED
      BY <1>1, <2>1, <2>2, <3>1 DEF ServerOK
  <2>4. Started /\ Started'
    BY <1>1, <2>1 DEF Started
  <2>5. AckTaken' => AckTaken
    BY <1>1, <2>1 DEF AckTaken
  <2>6. /\ position' \in Nat /\ position <= position'
        /\ (IF spc' = "send" THEN position' ELSE position' + 1)
                <= (IF spc = "send" THEN position ELSE position + 1)
        /\ remote[n] # <<>>
    BY <1>1, <1>3, <2>1
  <2>. QED
    BY <1>1, <2>3, <2>4, <2>5, <2>6, GetServerFrame
<1>. QED
  BY <1>1, <1>2, <1>3

\* Listening: a wrong datagram, none at all, or an acknowledgement.
LEMMA GetListen ==
    ASSUME NEW c \in Clients, NEW n \in Names, Getting(c, n), ~timedOut',
           ReceiveNoAck \/ ReceiveAck(c)
    PROVE  TransferOK(c, n)'
<1>. USE DEF Getting
<1>1. /\ spc = "listen" /\ sending = n
      /\ UNCHANGED <<clientVars, remote, sending, position, sendBuf, s2c, lossy>>
      /\ position \in Nat /\ position > 0 /\ position <= Len(remote[n])
      /\ IsPacket(sendBuf, position + 1, remote[n])
      /\ Len(remote[n]) \in Nat /\ (remote[n] # <<>> <=> Len(remote[n]) > 0)
  BY GetFacts DEF ReceiveNoAck, ReceiveAck, TransferOK, ServerOK
<1>2. NotAcknowledged => spc' = "send"
  BY DEF NotAcknowledged
<1>3. /\ spc' \in {"send", "read"}
      /\ c2s'[c] = c2s[c] \/ (c2s[c] # <<>> /\ c2s'[c] = Tail(c2s[c]))
      /\ spc' = "read" => /\ c2s[c] # <<>> /\ c2s'[c] = Tail(c2s[c])
                          /\ Head(c2s[c]) = Ack
  BY <1>2 DEF ReceiveNoAck, ReceiveAck, TypeInvariant, TypeOK
<1>4. ServerOK(n)'
  BY <1>1, <1>3 DEF ServerOK, IsPacket
<1>5. Started /\ Started'
  BY <1>1, <1>3 DEF Started
<1>6. AckTaken' => \/ AckTaken
                   \/ /\ c2s[c] # <<>> /\ c2s'[c] = Tail(c2s[c])
                      /\ Head(c2s[c]) = Ack
  BY <1>1, <1>3 DEF AckTaken
<1>7. /\ position' \in Nat /\ position <= position'
      /\ (IF spc' = "send" THEN position' ELSE position' + 1)
                <= (IF spc = "send" THEN position ELSE position + 1)
      /\ remote[n] # <<>>
  BY <1>1, <1>3
<1>. QED
  BY <1>1, <1>3, <1>4, <1>5, <1>6, <1>7, GetServerFrame

LEMMA GetSendBlock ==
    ASSUME NEW c \in Clients, NEW n \in Names, Getting(c, n), SendBlock
    PROVE  TransferOK(c, n)'
<1>. USE DEF Getting
<1>1. /\ spc = "send" /\ spc' = "listen" /\ sending = n
      /\ UNCHANGED <<cpc, request, local, previous, gotLast, remote, sending, position,
                     sendBuf, c2s, lossy>>
      /\ position \in Nat /\ position > 0 /\ position <= Len(remote[n])
      /\ IsPacket(sendBuf, position + 1, remote[n])
      /\ Len(remote[n]) \in Nat /\ remote[n] # <<>>
  BY GetFacts DEF SendBlock, TransferOK, ServerOK, clientVars
<1>2. s2c'[c] = Append(s2c[c], sendBuf)
  BY <1>1, GetFacts DEF SendBlock, TypeInvariant, TypeOK
<1> DEFINE k == Len(s2c[c])
<1>3. /\ k \in Nat /\ DOMAIN s2c[c] = 1..k /\ DOMAIN s2c'[c] = 1..k+1 /\ Len(s2c'[c]) = k+1
      /\ \A i \in 1..k : s2c'[c][i] = s2c[c][i]
      /\ s2c'[c][k+1] = sendBuf
      /\ s2c'[c] # <<>>
      /\ s2c[c] = <<>> <=> k = 0
  <2>1. s2c[c] \in Seq(Packets) /\ sendBuf \in Packets
    BY DEF TypeInvariant, TypeOK
  <2>2. k \in Nat /\ DOMAIN s2c[c] = 1..k /\ (s2c[c] = <<>> <=> k = 0)
    BY <2>1, SeqFacts
  <2>. QED
    BY <1>2, <2>1, <2>2, AppendFacts
<1>4. ServerOK(n)'
  BY <1>1 DEF ServerOK, IsPacket
<1>5. AckTaken' <=> AckTaken
  BY <1>1 DEF AckTaken
<1>6. ToServerOK(c)'
  BY <1>1, <1>5 DEF TransferOK, ToServerOK
<1>7. PICK taken \in 0..Len(remote[n])+1,
           sent \in [1..k -> 1..Len(remote[n])+1],
           at \in [DOMAIN local[c][n] -> DOMAIN remote[n]] :
              Transfer(c, n, taken, sent, at)
  BY <1>1, <1>3 DEF TransferOK
<1>8. PICK further \in [1..k+1 -> 1..Len(remote[n])+1] :
            further[k+1] = position + 1 /\ \A i \in 1..k : further[i] = sent[i]
  <2>1. position + 1 \in 1..Len(remote[n])+1
    BY <1>1
  <2>2. k \in Nat
    BY <1>3
  <2> HIDE DEF k
  <2> DEFINE t == [i \in 1..k+1 |-> IF i = k+1 THEN position + 1 ELSE sent[i]]
  <2>3. t \in [1..k+1 -> 1..Len(remote[n])+1]
    BY <2>1, <2>2
  <2>4. t[k+1] = position + 1 /\ \A i \in 1..k : t[i] = sent[i]
    BY <2>2
  <2> HIDE DEF t
  <2>. QED
    BY <2>3, <2>4
<1> HIDE DEF k
<1>9. \A i \in 1..k+1 : i \in 1..k \/ i = k+1
  BY <1>3
<1>10. ClientOK(c, n, taken)'
  BY <1>1, <1>5, <1>7 DEF Transfer, ClientOK
<1>11. OnTheWay(further, s2c[c], remote[n], taken)'
  <2>1. \A i \in 1..k+1 :
           /\ IsPacket(s2c'[c][i], further[i], remote[n])
           /\ taken <= further[i] /\ further[i] <= position + 1
           /\ further[i] = 1 => taken = 0 /\ i = 1
    <3>1. ASSUME NEW i \in 1..k
          PROVE  /\ IsPacket(s2c'[c][i], further[i], remote[n])
                 /\ taken <= further[i] /\ further[i] <= position + 1
                 /\ further[i] = 1 => taken = 0 /\ i = 1
      BY <1>3, <1>7, <1>8 DEF Transfer, OnTheWay
    <3>2. taken <= position + 1
      BY <1>7 DEF Transfer, OnTheWay
    <3>3. position + 1 # 1
      BY <1>1
    <3>. QED
      BY <1>1, <1>3, <1>8, <1>9, <3>1, <3>2, <3>3
  <2>2. \A i, j \in 1..k+1 : i < j => further[i] <= further[j]
    <3>1. ASSUME NEW i \in 1..k+1, NEW j \in 1..k+1, i < j PROVE further[i] <= further[j]
      <4>1. i \in 1..k
        BY <1>3, <3>1
      <4>2. CASE j = k+1
        BY <1>3, <1>7, <1>8, <4>1, <4>2 DEF Transfer, OnTheWay
      <4>3. CASE j \in 1..k
        BY <1>3, <1>7, <1>8, <3>1, <4>1, <4>3 DEF Transfer, OnTheWay
      <4>. QED
        BY <1>9, <4>2, <4>3
    <3>. QED
      BY <3>1
  <2>3. Started'
    BY <1>1 DEF Started
  <2>4. taken <= position + 1
    BY <1>7 DEF Transfer, OnTheWay
  <2>. QED
    BY <1>1, <1>3, <2>1, <2>2, <2>3, <2>4 DEF OnTheWay
<1>12. (~lossy => AllOnTheWay(further, s2c[c], taken))'
  <2> SUFFICES ASSUME ~lossy PROVE AllOnTheWay(further, s2c[c], taken)'
    BY <1>1
  <2>1. AllOnTheWay(sent, s2c[c], taken) /\ Started
    BY <1>1, <1>7 DEF Transfer, Started
  <2>2. further[1] <= taken + 1
    <3>1. CASE k = 0
      <4>1. taken >= position
        BY <1>1, <1>3, <2>1, <3>1 DEF AllOnTheWay
      <4>. QED
        BY <1>1, <1>7, <1>8, <3>1, <4>1
    <3>2. CASE k # 0
      BY <1>3, <1>8, <2>1, <3>2 DEF AllOnTheWay
    <3>. QED
      BY <3>1, <3>2
  <2>3. \A i \in 1..k+1 : i + 1 \in 1..k+1 => further[i + 1] <= further[i] + 1
    <3>1. ASSUME NEW i \in 1..k+1, i + 1 \in 1..k+1 PROVE further[i + 1] <= further[i] + 1
      <4>1. CASE i + 1 = k + 1
        <5>1. k # 0 /\ i = k /\ i \in 1..k /\ k \in 1..k
          BY <1>3, <3>1, <4>1
        <5>2. sent[k] >= position
          BY <1>1, <1>3, <2>1, <5>1 DEF AllOnTheWay
        <5>3. sent[k] \in Nat /\ further[i] = sent[k] /\ further[i + 1] = position + 1
          BY <1>7, <1>8, <4>1, <5>1
        <5>. QED
          BY <1>1, <5>2, <5>3
      <4>2. CASE i + 1 # k + 1
        <5>1. i \in 1..k /\ i + 1 \in 1..k
          BY <1>3, <3>1, <4>2
        <5>. QED
          BY <1>3, <1>8, <2>1, <5>1 DEF AllOnTheWay
      <4>. QED
        BY <4>1, <4>2
    <3>. QED
      BY <3>1
  <2>4. further[Len(s2c'[c])] >= position + 1
    BY <1>1, <1>3, <1>8
  <2>. QED
    BY <1>1, <1>3, <2>2, <2>3, <2>4 DEF AllOnTheWay
<1>13. Transfer(c, n, taken, further, at)'
  BY <1>1, <1>7, <1>10, <1>11, <1>12 DEF Transfer
<1>. QED
  BY <1>1, <1>3, <1>4, <1>6, <1>7, <1>8, <1>13 DEF TransferOK

\* The next packet of the stream, and what is on the way when it is gone.
LEMMA NextPacket ==
    ASSUME NEW c \in Clients, NEW n \in Names, s2c[c] \in Seq(Packets), s2c[c] # <<>>,
           NEW taken \in 0..Len(remote[n])+1,
           NEW sent \in [DOMAIN s2c[c] -> 1..Len(remote[n])+1],
           OnTheWay(sent, s2c[c], remote[n], taken)
    PROVE  /\ 1 \in DOMAIN s2c[c] /\ Head(s2c[c]) = s2c[c][1]
           /\ sent[1] \in 1..Len(remote[n])+1
           /\ IsPacket(Head(s2c[c]), sent[1], remote[n])
           /\ taken <= sent[1] /\ sent[1] <= position + 1
           /\ sent[1] = 1 => taken = 0
           /\ AllOnTheWay(sent, s2c[c], taken) => sent[1] <= taken + 1
           /\ Started
<1>1. 1 \in DOMAIN s2c[c] /\ Head(s2c[c]) = s2c[c][1]
  BY TailFacts
<1>. QED
  BY <1>1 DEF OnTheWay, AllOnTheWay

LEMMA ToClientTail ==
    ASSUME NEW c \in Clients, NEW n \in Names, s2c[c] \in Seq(Packets), s2c[c] # <<>>,
           Len(remote[n]) \in Nat, position \in Nat,
           NEW taken \in 0..Len(remote[n])+1,
           NEW sent \in [DOMAIN s2c[c] -> 1..Len(remote[n])+1],
           OnTheWay(sent, s2c[c], remote[n], taken),
           s2c'[c] = Tail(s2c[c]), UNCHANGED <<spc, position, remote>>
    PROVE  \E left \in [DOMAIN s2c'[c] -> 1..Len(remote[n])+1] :
              /\ OnTheWay(left, s2c[c], remote[n], taken)'
              /\ OnTheWay(left, s2c[c], remote[n], sent[1])'
              /\ AllOnTheWay(sent, s2c[c], taken) => AllOnTheWay(left, s2c[c], sent[1])'
<1> DEFINE k == Len(s2c[c])
           f == remote[n]
<1>1. /\ k \in Nat \ {0} /\ DOMAIN s2c[c] = 1..k /\ DOMAIN s2c'[c] = 1..k-1
      /\ \A i \in 1..k-1 : s2c'[c][i] = s2c[c][i+1]
      /\ Len(s2c'[c]) = k-1 /\ (s2c'[c] = <<>> <=> k = 1)
  <2>1. s2c'[c] \in Seq(Packets)
    BY TailFacts
  <2>2. /\ k \in Nat \ {0} /\ DOMAIN s2c[c] = 1..k /\ DOMAIN s2c'[c] = 1..k-1
        /\ \A i \in 1..k-1 : s2c'[c][i] = s2c[c][i+1]
        /\ Len(s2c'[c]) = k-1
    BY TailFacts
  <2>3. s2c'[c] # <<>> <=> Len(s2c'[c]) > 0
    BY <2>1, SeqFacts
  <2> HIDE DEF k
  <2>. QED
    BY <2>2, <2>3
<1> HIDE DEF k
<1>2. /\ \A i \in 1..k : /\ IsPacket(s2c[c][i], sent[i], f)
                         /\ taken <= sent[i] /\ sent[i] <= position + 1
                         /\ sent[i] = 1 => taken = 0 /\ i = 1
      /\ \A i, j \in 1..k : i < j => sent[i] <= sent[j]
      /\ taken <= position + 1
      /\ Started
      /\ \A i \in 1..k : sent[i] \in 1..Len(f)+1
  BY <1>1 DEF OnTheWay
<1>3. PICK left : left = [i \in 1..k-1 |-> sent[i+1]]
  OBVIOUS
<1>4. \A i \in 1..k-1 : i \in Nat /\ i + 1 \in 1..k /\ i + 1 # 1 /\ 1 < i + 1
  BY <1>1
<1>5. \A i \in 1..k-1 : left[i] = sent[i+1] /\ sent[i+1] \in 1..Len(f)+1
  BY <1>2, <1>3, <1>4
<1>6. left \in [DOMAIN s2c'[c] -> 1..Len(f)+1]
  BY <1>1, <1>3, <1>5
<1>7. \A i \in 1..k-1 : /\ IsPacket(s2c'[c][i], left[i], f)
                        /\ taken <= left[i] /\ sent[1] <= left[i] /\ left[i] <= position + 1
                        /\ left[i] # 1
  <2>1. ASSUME NEW i \in 1..k-1
        PROVE  /\ IsPacket(s2c'[c][i], left[i], f)
               /\ taken <= left[i] /\ sent[1] <= left[i] /\ left[i] <= position + 1
               /\ left[i] # 1
    <3>1. /\ left[i] = sent[i+1] /\ s2c'[c][i] = s2c[c][i+1] /\ i + 1 \in 1..k
          /\ i + 1 # 1 /\ 1 < i + 1
      BY <1>1, <1>4, <1>5
    <3>2. 1 \in 1..k
      BY <1>1
    <3>. QED
      BY <1>2, <3>1, <3>2
  <2>. QED
    BY <2>1
<1>8. \A i, j \in 1..k-1 : i < j => left[i] <= left[j]
  <2>1. ASSUME NEW i \in 1..k-1, NEW j \in 1..k-1, i < j PROVE left[i] <= left[j]
    <3>1. left[i] = sent[i+1] /\ left[j] = sent[j+1] /\ i+1 \in 1..k /\ j+1 \in 1..k
          /\ i+1 < j+1
      BY <1>4, <1>5, <2>1
    <3>. QED
      BY <1>2, <3>1
  <2>. QED
    BY <2>1
<1>9. 1 \in 1..k /\ sent[1] <= position + 1
  BY <1>1, <1>2
<1>10. Started'
  BY <1>2 DEF Started
<1>11. OnTheWay(left, s2c[c], remote[n], taken)'
  BY <1>1, <1>2, <1>7, <1>8, <1>10 DEF OnTheWay
<1>12. OnTheWay(left, s2c[c], remote[n], sent[1])'
  BY <1>1, <1>2, <1>7, <1>8, <1>9, <1>10 DEF OnTheWay
<1>13. AllOnTheWay(sent, s2c[c], taken) => AllOnTheWay(left, s2c[c], sent[1])'
  <2> SUFFICES ASSUME AllOnTheWay(sent, s2c[c], taken)
               PROVE  AllOnTheWay(left, s2c[c], sent[1])'
    OBVIOUS
  <2>1. /\ \A i \in 1..k : i + 1 \in 1..k => sent[i + 1] <= sent[i] + 1
        /\ sent[k] >= (IF spc = "send" THEN position ELSE position + 1)
    <3>1. sent[Len(s2c[c])] >= (IF spc = "send" THEN position ELSE position + 1)
      BY <1>2 DEF AllOnTheWay
    <3>. QED
      BY <1>1, <3>1 DEF AllOnTheWay, k
  <2>2. s2c'[c] # <<>> => left[1] <= sent[1] + 1
    <3> SUFFICES ASSUME s2c'[c] # <<>> PROVE left[1] <= sent[1] + 1
      OBVIOUS
    <3>1. 1 \in 1..k-1 /\ 1 \in 1..k /\ 1 + 1 \in 1..k
      BY <1>1
    <3>2. left[1] = sent[1 + 1] /\ sent[1 + 1] <= sent[1] + 1
      BY <1>5, <2>1, <3>1
    <3>. QED
      BY <3>2
  <2>3. \A i \in 1..k-1 : i + 1 \in 1..k-1 => left[i + 1] <= left[i] + 1
    <3>1. ASSUME NEW i \in 1..k-1, i + 1 \in 1..k-1 PROVE left[i + 1] <= left[i] + 1
      <4>1. /\ left[i] = sent[i + 1] /\ left[i + 1] = sent[(i + 1) + 1]
            /\ i + 1 \in 1..k /\ (i + 1) + 1 \in 1..k
        BY <1>4, <1>5, <3>1
      <4>. QED
        BY <2>1, <4>1
    <3>. QED
      BY <3>1
  <2>4. (IF s2c'[c] = <<>> THEN sent[1] ELSE left[Len(s2c'[c])]) = sent[k]
    <3>1. CASE k = 1
      BY <1>1, <3>1
    <3>2. CASE k # 1
      <4>1. k-1 \in 1..k-1 /\ (k-1) + 1 = k
        BY <1>1, <3>2
      <4>. QED
        BY <1>1, <1>5, <3>2, <4>1
    <3>. QED
      BY <3>1, <3>2
  <2>. QED
    BY <1>1, <2>1, <2>2, <2>3, <2>4 DEF AllOnTheWay
<1>. QED
  BY <1>6, <1>11, <1>12, <1>13

\* The server takes a request, or an acknowledgement that comes too late.
LEMMA GetWaitConnection ==
    ASSUME NEW c \in Clients, NEW n \in Names, Getting(c, n), WaitConnection(c)
    PROVE  TransferOK(c, n)'
<1>. USE DEF Getting
<1> DEFINE message == Head(c2s[c])
<1>1. /\ spc = "wait" /\ c2s[c] # <<>> /\ c2s'[c] = Tail(c2s[c])
      /\ UNCHANGED <<clientVars, remote, sendBuf, lossy>>
      /\ message = c2s[c][1] /\ 1 \in DOMAIN c2s[c]
  BY GetFacts, TailFacts DEF WaitConnection, TypeInvariant, TypeOK
<1>2. UNCHANGED <<cpc, request, local, previous, gotLast>>
  BY <1>1 DEF clientVars
<1>3. message \in {request[c], Ack} /\ request[c] \in GetRequests /\ request[c] # Ack
  BY <1>1, GetFacts DEF TransferOK, ToServerOK
<1>4. CASE message \notin GetRequests
  <2>1. UNCHANGED <<s2c, spc, sending, position>>
    BY <1>4 DEF WaitConnection
  <2>2. ServerOK(n)' /\ (Started' <=> Started) /\ (AckTaken' => AckTaken)
    BY <1>1, <2>1 DEF TransferOK, ServerOK, Started, AckTaken, IsPacket
  <2>3. position \in Nat
    BY GetFacts
  <2>. QED
    BY <1>1, <2>1, <2>2, <2>3, GetServerFrame
<1>5. CASE message \in GetRequests
  <2>1. message = request[c] /\ message # Ack /\ message.name = n
    BY <1>3, <1>5, GetFacts, BlockFacts
  <2>2. /\ sending' = n /\ position' = 0 /\ spc' = "read"
        /\ s2c'[c] = Append(s2c[c], ReadyToSend)
    BY <1>5, <2>1, GetFacts DEF WaitConnection, OpenFile, TypeInvariant, TypeOK
  <2>3. ReadyToSend \in Packets /\ ReadyToSend.text = SendingFile
    BY DEF ReadyToSend, Packets
  <2>4. Len(remote[n]) \in Nat
    BY GetFacts
  <2>5. ServerOK(n)'
    BY <1>1, <2>2, <2>4 DEF ServerOK
  <2>6. ~AckTaken'
    BY <2>2 DEF AckTaken
  <2>7. /\ ToServerOK(c)'
        /\ \A i \in DOMAIN c2s'[c] : i + 1 \in DOMAIN c2s[c] /\ c2s'[c][i] = c2s[c][i+1]
    BY <1>1, <1>2, <2>6, GetFacts, ToServerTail DEF TransferOK
  <2>8. CASE remote[n] = <<>>
    <3>1. \A i \in DOMAIN s2c[c] : s2c[c][i].text = SendingFile
      BY <2>8 DEF TransferOK, EmptyTransfer
    <3>2. \A i \in DOMAIN s2c'[c] : s2c'[c][i].text = SendingFile
      <4>1. /\ DOMAIN s2c[c] = 1..Len(s2c[c]) /\ Len(s2c[c]) \in Nat
            /\ DOMAIN s2c'[c] = 1..Len(s2c[c]) + 1
            /\ \A i \in 1..Len(s2c[c]) : s2c'[c][i] = s2c[c][i]
            /\ s2c'[c][Len(s2c[c]) + 1] = ReadyToSend
        BY <2>2, <2>3, GetFacts, SeqFacts, AppendFacts
      <4>. QED
        BY <2>3, <3>1, <4>1
    <3>3. EmptyTransfer(c, n)'
      BY <1>2, <2>2, <2>8, <3>2 DEF TransferOK, EmptyTransfer
    <3>. QED
      BY <1>1, <2>5, <2>7, <2>8, <3>3 DEF TransferOK
  <2>9. CASE remote[n] # <<>>
    <3>1. ~AckTaken
      BY <1>1, <2>1 DEF TransferOK, ToServerOK
    <3>2. ~Started
      BY <1>1, <2>4, <2>9, <3>1, GetFacts DEF TransferOK, ServerOK, Started, AckTaken
    <3>3. PICK taken \in 0..Len(remote[n])+1,
               sent \in [DOMAIN s2c[c] -> 1..Len(remote[n])+1],
               at \in [DOMAIN local[c][n] -> DOMAIN remote[n]] :
                  Transfer(c, n, taken, sent, at)
      BY <2>9 DEF TransferOK
    <3>4. taken = 0 /\ s2c[c] = <<>>
      BY <3>2, <3>3 DEF Transfer, OnTheWay
    <3> DEFINE one == [i \in {1} |-> 1]
    <3>5. /\ DOMAIN s2c'[c] = {1} /\ s2c'[c][1] = ReadyToSend /\ Len(s2c'[c]) = 1
          /\ s2c'[c] # <<>>
      BY <2>2, <3>4
    <3>6. one \in [DOMAIN s2c'[c] -> 1..Len(remote[n])+1] /\ one[1] = 1
      BY <2>4, <3>5
    <3> HIDE DEF one
    <3>7. ClientOK(c, n, 0)'
      <4>1. \A i \in DOMAIN c2s'[c] : c2s'[c][i] # Ack
        BY <2>7, <3>3, <3>4 DEF Transfer, ClientOK
      <4>2. ClientOK(c, n, 0)
        BY <3>3, <3>4 DEF Transfer
      <4>. QED
        BY <1>1, <1>2, <2>6, <4>1, <4>2 DEF ClientOK
    <3>8. OnTheWay(one, s2c[c], remote[n], 0)'
      <4>1. Started'
        BY <2>2 DEF Started
      <4>2. IsPacket(s2c'[c][1], 1, remote[n])
        BY <2>3, <3>5 DEF IsPacket
      <4>. QED
        BY <1>1, <2>2, <3>5, <3>6, <4>1, <4>2 DEF OnTheWay
    <3>9. AllOnTheWay(one, s2c[c], 0)'
      BY <2>2, <3>5, <3>6 DEF AllOnTheWay
    <3>10. Transfer(c, n, 0, one, at)'
      BY <1>1, <1>2, <3>3, <3>4, <3>7, <3>8, <3>9 DEF Transfer
    <3>11. 0 \in 0..Len(remote[n])+1
      BY <2>4
    <3>. QED
      BY <1>1, <1>2, <2>5, <2>7, <2>9, <3>6, <3>10, <3>11 DEF TransferOK
  <2>. QED
    BY <2>8, <2>9
<1>. QED
  BY <1>4, <1>5

\* A datagram is lost.
LEMMA GetLoseDatagram ==
    ASSUME NEW c \in Clients, NEW n \in Names, Getting(c, n), LoseDatagram(c)
    PROVE  TransferOK(c, n)'
<1>. USE DEF Getting
<1>1. /\ UNCHANGED <<clientVars, serverVars, lossy>>
      /\ position \in Nat /\ Len(remote[n]) \in Nat
  BY GetFacts DEF LoseDatagram
<1>2. /\ UNCHANGED <<cpc, request, local, previous, gotLast>>
      /\ UNCHANGED <<spc, peer, remote, sending, position, sendBuf>>
  BY <1>1 DEF clientVars, serverVars
<1>3. ServerOK(n)' /\ (Started' <=> Started) /\ (AckTaken' <=> AckTaken)
  BY <1>2 DEF TransferOK, ServerOK, Started, AckTaken, IsPacket
<1>4. lossy
  BY DEF LoseDatagram
<1>5. CASE c2s[c] # <<>> /\ c2s' = [c2s EXCEPT ![c] = Tail(@)] /\ UNCHANGED s2c
  <2>1. c2s'[c] = Tail(c2s[c])
    BY <1>5 DEF TypeInvariant, TypeOK
  <2>2. spc' \in {"wait", "read"} \/ remote[n] # <<>>
    BY <1>2 DEF TransferOK, EmptyTransfer
  <2>. QED
    BY <1>1, <1>2, <1>3, <1>5, <2>1, <2>2, GetServerFrame
<1>6. CASE s2c[c] # <<>> /\ s2c' = [s2c EXCEPT ![c] = Tail(@)] /\ UNCHANGED c2s
  <2>1. s2c'[c] = Tail(s2c[c])
    BY <1>6 DEF TypeInvariant, TypeOK
  <2>2. ToServerOK(c)'
    BY <1>2, <1>3, <1>6 DEF TransferOK, ToServerOK
  <2>3. CASE remote[n] = <<>>
    <3>1. \A i \in DOMAIN s2c'[c] : i + 1 \in DOMAIN s2c[c] /\ s2c'[c][i] = s2c[c][i+1]
      <4>1. /\ Len(s2c[c]) \in Nat \ {0} /\ DOMAIN s2c[c] = 1..Len(s2c[c])
            /\ DOMAIN s2c'[c] = 1..Len(s2c[c]) - 1
            /\ \A i \in 1..Len(s2c[c]) - 1 : s2c'[c][i] = s2c[c][i + 1]
        <5>1. s2c[c] \in Seq(Packets) /\ s2c[c] # <<>>
          BY <1>6, GetFacts
        <5>. QED
          BY <2>1, <5>1, TailFacts
      <4>. QED
        BY <4>1
    <3>2. EmptyTransfer(c, n)'
      BY <1>2, <2>3, <3>1 DEF TransferOK, EmptyTransfer
    <3>. QED
      BY <1>2, <1>3, <2>2, <2>3, <3>2 DEF TransferOK
  <2>4. CASE remote[n] # <<>>
    <3>1. PICK taken \in 0..Len(remote[n])+1,
               sent \in [DOMAIN s2c[c] -> 1..Len(remote[n])+1],
               at \in [DOMAIN local[c][n] -> DOMAIN remote[n]] :
                  Transfer(c, n, taken, sent, at)
      BY <2>4 DEF TransferOK
    <3>2. PICK left \in [DOMAIN s2c'[c] -> 1..Len(remote[n])+1] :
              OnTheWay(left, s2c[c], remote[n], taken)'
      BY <1>1, <1>2, <1>6, <2>1, <3>1, GetFacts, ToClientTail DEF Transfer
    <3>3. ClientOK(c, n, taken)'
      BY <1>2, <1>3, <1>6, <3>1 DEF Transfer, ClientOK
    <3>4. lossy'
      BY <1>1, <1>4
    <3>5. Transfer(c, n, taken, left, at)'
      BY <1>2, <3>1, <3>2, <3>3, <3>4 DEF Transfer
    <3>. QED
      BY <1>2, <1>3, <2>2, <2>4, <3>5 DEF TransferOK
  <2>. QED
    BY <2>3, <2>4
<1>. QED
  BY <1>5, <1>6 DEF LoseDatagram

\* The client takes a datagram as the reply to its request.
LEMMA GetReceiveReply ==
    ASSUME NEW c \in Clients, NEW n \in Names, Getting(c, n), ReceiveReply(c)
    PROVE  TransferOK(c, n)'
<1>. USE DEF Getting
<1> DEFINE m == Head(s2c[c])
<1>1. /\ cpc[c] = "reply" /\ s2c[c] # <<>> /\ s2c'[c] = Tail(s2c[c])
      /\ UNCHANGED <<request, asks, gotLast, serverVars, c2s, lossy>>
      /\ position \in Nat /\ Len(remote[n]) \in Nat /\ request[c].name = n
      /\ s2c[c] \in Seq(Packets)
  BY GetFacts DEF ReceiveReply, TypeInvariant, TypeOK
<1>2. UNCHANGED <<spc, peer, remote, sending, position, sendBuf>>
  BY <1>1 DEF serverVars
<1>3. ServerOK(n)' /\ (Started' <=> Started) /\ (AckTaken' <=> AckTaken)
  BY <1>2 DEF TransferOK, ServerOK, Started, AckTaken, IsPacket
<1>4. \/ /\ m.text = SendingFile /\ cpc'[c] = "receive" /\ previous'[c] = Nothing
         /\ local'[c][n] = <<>>
      \/ /\ m.text # SendingFile /\ cpc'[c] = "prompt"
         /\ UNCHANGED <<local, previous>>
  <2>1. local[c] \in [Names -> Seq(Blocks \cup {Garbage})]
    BY DEF TypeInvariant, TypeOK
  <2>. QED
    BY <1>1, <2>1 DEF ReceiveReply, BeginReceive, TypeInvariant, TypeOK
<1>5. ToServerOK(c)'
  BY <1>1, <1>3, <1>4 DEF TransferOK, ToServerOK
<1>6. CASE remote[n] = <<>>
  <2>1. \A i \in DOMAIN s2c'[c] : i + 1 \in DOMAIN s2c[c] /\ s2c'[c][i] = s2c[c][i+1]
    <3>1. /\ Len(s2c[c]) \in Nat \ {0} /\ DOMAIN s2c[c] = 1..Len(s2c[c])
          /\ DOMAIN s2c'[c] = 1..Len(s2c[c]) - 1
          /\ \A i \in 1..Len(s2c[c]) - 1 : s2c'[c][i] = s2c[c][i + 1]
      BY <1>1, TailFacts
    <3>. QED
      BY <3>1
  <2>2. EmptyTransfer(c, n)'
    BY <1>2, <1>4, <1>6, <2>1 DEF TransferOK, EmptyTransfer
  <2>. QED
    BY <1>2, <1>3, <1>5, <1>6, <2>2 DEF TransferOK
<1>7. CASE remote[n] # <<>>
  <2>1. PICK taken \in 0..Len(remote[n])+1,
             sent \in [DOMAIN s2c[c] -> 1..Len(remote[n])+1],
             at \in [DOMAIN local[c][n] -> DOMAIN remote[n]] :
                Transfer(c, n, taken, sent, at)
    BY <1>7 DEF TransferOK
  <2>2. /\ sent[1] \in 1..Len(remote[n])+1
        /\ IsPacket(m, sent[1], remote[n])
        /\ ~lossy => sent[1] <= taken + 1
    BY <1>1, <2>1, NextPacket DEF Transfer
  <2>3. PICK left \in [DOMAIN s2c'[c] -> 1..Len(remote[n])+1] :
              /\ OnTheWay(left, s2c[c], remote[n], taken)'
              /\ OnTheWay(left, s2c[c], remote[n], sent[1])'
              /\ AllOnTheWay(sent, s2c[c], taken) => AllOnTheWay(left, s2c[c], sent[1])'
    BY <1>1, <1>2, <2>1, ToClientTail DEF Transfer
  <2>4. /\ taken = 0 /\ ~AckTaken /\ \A i \in DOMAIN c2s[c] : c2s[c][i] # Ack
        /\ ~gotLast[c]
    BY <1>1, <2>1 DEF Transfer, ClientOK
  <2>5. m.text = SendingFile <=> sent[1] = 1
    <3>1. CASE sent[1] = 1
      BY <2>2, <3>1 DEF IsPacket
    <3>2. CASE sent[1] # 1
      <4>1. sent[1] - 1 \in 1..Len(remote[n])
        BY <1>1, <2>2, <3>2
      <4>2. m.text = remote[n][sent[1] - 1]
        BY <2>2, <3>2 DEF IsPacket
      <4>. QED
        BY <3>2, <4>1, <4>2, GetFacts
    <3>. QED
      BY <3>1, <3>2
  <2>6. CASE m.text = SendingFile
    <3> DEFINE none == [i \in {} |-> 1]
    <3>1. DOMAIN local'[c][n] = {} /\ Len(local'[c][n]) = 0
      BY <1>4, <2>6
    <3>2. none \in [DOMAIN local'[c][n] -> DOMAIN remote[n]]
      BY <3>1
    <3> HIDE DEF none
    <3>3. ClientOK(c, n, 1)'
      BY <1>1, <1>4, <2>4, <2>6 DEF ClientOK
    <3>4. OnTheWay(left, s2c[c], remote[n], 1)' /\ (~lossy => AllOnTheWay(left, s2c[c], 1)')
      BY <2>1, <2>3, <2>5, <2>6 DEF Transfer
    <3>5. /\ Embedded(none, local[c][n], remote[n], 1)'
          /\ AllEmbedded(none, local[c][n], 1)'
      BY <3>1 DEF Embedded, AllEmbedded
    <3>6. Transfer(c, n, 1, left, none)'
      BY <1>1, <3>3, <3>4, <3>5 DEF Transfer
    <3>7. 1 \in 0..Len(remote[n])+1
      BY <1>1
    <3>. QED
      BY <1>2, <1>3, <1>5, <1>7, <3>2, <3>6, <3>7 DEF TransferOK
  <2>7. CASE m.text # SendingFile
    <3>1. lossy /\ lossy'
      BY <1>1, <2>2, <2>4, <2>5, <2>7
    <3>2. cpc'[c] = "prompt" /\ UNCHANGED <<local, previous>>
      BY <1>4, <2>7
    <3>3. ClientOK(c, n, 0)'
      BY <1>1, <1>3, <2>4, <3>2 DEF ClientOK
    <3>4. Transfer(c, n, 0, left, at)'
      BY <1>2, <2>1, <2>3, <2>4, <3>1, <3>2, <3>3 DEF Transfer
    <3>. QED
      BY <1>2, <1>3, <1>5, <1>7, <2>1, <2>4, <3>2, <3>4 DEF TransferOK
  <2>. QED
    BY <2>6, <2>7
<1>. QED
  BY <1>6, <1>7

\* A packet of a file that is not empty, when the client has begun to receive it.
LEMMA ReceivedBlock ==
    ASSUME NEW c \in Clients, NEW n \in Names, Getting(c, n), ReceiveFilePacket(c),
           remote[n] # <<>>,
           NEW taken \in 0..Len(remote[n])+1,
           NEW sent \in [DOMAIN s2c[c] -> 1..Len(remote[n])+1],
           NEW at \in [DOMAIN local[c][n] -> DOMAIN remote[n]],
           Transfer(c, n, taken, sent, at)
    PROVE  LET m == Head(s2c[c])
               b == remote[n][sent[1] - 1]
           IN  /\ taken > 0 /\ taken <= sent[1] /\ sent[1] - 1 \in 1..Len(remote[n])
               /\ m.text = b /\ b \in Blocks
               /\ \E block \in Blocks \cup {Garbage} :
                     /\ Written(m) = <<block>>
                     /\ block = b \/ (block = Garbage /\ b \in TinyBlocks)
               /\ IsNew(c, m) => taken < sent[1]
               /\ IsLast(m) => sent[1] = Len(remote[n]) + 1
               /\ ~lossy => sent[1] <= taken + 1
               /\ ~lossy /\ NoRepeats(remote[n]) /\ ~IsNew(c, m) => sent[1] = taken
<1>. USE DEF Getting
<1> DEFINE m == Head(s2c[c])
           b == remote[n][sent[1] - 1]
<1>1. /\ cpc[c] = "receive" /\ s2c[c] # <<>> /\ s2c[c] \in Seq(Packets)
      /\ Len(remote[n]) \in Nat
  BY GetFacts DEF ReceiveFilePacket
<1>2. /\ sent[1] \in 1..Len(remote[n])+1 /\ taken <= sent[1]
      /\ IsPacket(m, sent[1], remote[n])
      /\ sent[1] = 1 => taken = 0
      /\ ~lossy => sent[1] <= taken + 1
      /\ m \in Packets
  BY <1>1, NextPacket, TailFacts DEF Transfer
<1>3. /\ taken > 0
      /\ previous[c] = IF taken = 1 THEN Nothing ELSE remote[n][taken - 1]
  BY <1>1 DEF Transfer, ClientOK
<1>4. sent[1] # 1 /\ sent[1] - 1 \in 1..Len(remote[n])
  BY <1>1, <1>2, <1>3
<1>5. m.text = b /\ (b \in TinyBlocks \/ m.right)
  BY <1>2, <1>4, Zenon DEF IsPacket
<1>6. b \in Blocks /\ (sent[1] - 1 # Len(remote[n]) => b \in FullBlocks)
  <2>1. sent[1] - 1 # Len(remote[n]) => sent[1] - 1 \in 1..Len(remote[n]) - 1
    BY <1>1, <1>4
  <2>. QED
    BY <1>4, <2>1, GetFacts
<1>7. \E block \in Blocks \cup {Garbage} :
         /\ Written(m) = <<block>>
         /\ block = b \/ (block = Garbage /\ b \in TinyBlocks)
  <2>1. m.text # SendingFile
    BY <1>5, <1>6, BlockFacts
  <2>2. CASE m.right
    <3>1. Written(m) = <<b>>
      BY <1>5, <2>1, <2>2, Zenon DEF Written
    <3>. QED
      BY <1>6, <3>1
  <2>3. CASE ~m.right
    <3>1. Written(m) = <<Garbage>> /\ b \in TinyBlocks
      BY <1>5, <2>1, <2>3, Zenon DEF Written
    <3>. QED
      BY <3>1
  <2>. QED
    BY <2>2, <2>3
<1>8. IsNew(c, m) => taken < sent[1]
  <2> SUFFICES ASSUME IsNew(c, m), taken = sent[1] PROVE FALSE
    BY <1>2
  <2>1. previous[c] = b
    BY <1>3, <1>4
  <2>. QED
    BY <1>5, <2>1 DEF IsNew
<1>9. IsLast(m) => sent[1] = Len(remote[n]) + 1
  <2>1. IsLast(m) => b \notin FullBlocks
    BY <1>5 DEF IsLast
  <2>. QED
    BY <1>1, <1>2, <1>6, <2>1
<1>10. ~lossy /\ NoRepeats(remote[n]) /\ ~IsNew(c, m) => sent[1] = taken
  <2> SUFFICES ASSUME ~lossy, NoRepeats(remote[n]), ~IsNew(c, m), sent[1] # taken
               PROVE  FALSE
    OBVIOUS
  <2>1. sent[1] = taken + 1
    BY <1>2
  <2>2. b = previous[c] /\ b # Nothing
    BY <1>5, <1>6, BlockFacts DEF IsNew
  <2>3. taken # 1 /\ b = remote[n][taken - 1]
    BY <1>3, <2>2
  <2>4. b = remote[n][taken]
    BY <2>1
  <2>5. taken - 1 \in 1..Len(remote[n])-1 /\ (taken - 1) + 1 = taken
    BY <1>1, <1>3, <1>4, <2>1, <2>3
  <2>. QED
    BY <2>3, <2>4, <2>5 DEF NoRepeats
<1> HIDE DEF m, b
<1>. QED
  BY <1>2, <1>3, <1>4, <1>5, <1>6, <1>7, <1>8, <1>9, <1>10 DEF m, b

\* The file of c grows by one block, which is further on in the file of the server
\* than the blocks so far.
LEMMA EmbeddedGrows ==
    ASSUME NEW c \in Clients, NEW n \in Names, NEW B, local[c][n] \in Seq(B),
           NEW block \in B, local'[c][n] = local[c][n] \o <<block>>,
           NEW taken \in Nat, NEW next \in Nat, taken <= next,
           DOMAIN remote[n] \subseteq Nat, next \in DOMAIN remote[n],
           \/ block = remote[n][next]
           \/ block = Garbage /\ remote[n][next] \in TinyBlocks,
           NEW at \in [DOMAIN local[c][n] -> DOMAIN remote[n]],
           Embedded(at, local[c][n], remote[n], taken)
    PROVE  \E on \in [DOMAIN local'[c][n] -> DOMAIN remote[n]] :
              /\ Embedded(on, local'[c][n], remote[n], next + 1)
              /\ taken = next /\ taken > 0 /\ AllEmbedded(at, local[c][n], taken) =>
                    AllEmbedded(on, local'[c][n], next + 1)
<1> DEFINE got == local[c][n]
           grown == local'[c][n]
           f == remote[n]
           k == Len(got)
<1>1. /\ k \in Nat /\ DOMAIN got = 1..k /\ DOMAIN grown = 1..k+1 /\ Len(grown) = k+1
      /\ \A i \in 1..k : grown[i] = got[i]
      /\ grown[k+1] = block
  BY SeqFacts, AppendFacts
<1> HIDE DEF k
<1>2. PICK on : on = [i \in 1..k+1 |-> IF i = k+1 THEN next ELSE at[i]]
  OBVIOUS
<1>3. \A i \in 1..k+1 : i \in 1..k \/ i = k+1
  BY <1>1
<1>4. on[k+1] = next /\ \A i \in 1..k : i < k+1 /\ on[i] = at[i] /\ at[i] \in DOMAIN f
  BY <1>1, <1>2
<1>5. on \in [DOMAIN grown -> DOMAIN f]
  BY <1>1, <1>2, <1>3, <1>4
<1>6. \A i \in 1..k : /\ at[i] < taken /\ at[i] \in Nat
                      /\ got[i] = f[at[i]] \/ (got[i] = Garbage /\ f[at[i]] \in TinyBlocks)
  BY <1>1, <1>4 DEF Embedded
<1>7. \A i \in 1..k+1 : /\ on[i] < next + 1
                        /\ \/ grown[i] = f[on[i]]
                           \/ grown[i] = Garbage /\ f[on[i]] \in TinyBlocks
  <2>1. ASSUME NEW i \in 1..k
        PROVE  /\ on[i] < next + 1
               /\ \/ grown[i] = f[on[i]]
                  \/ grown[i] = Garbage /\ f[on[i]] \in TinyBlocks
    BY <1>1, <1>4, <1>6
  <2>2. on[k+1] < next + 1
    BY <1>4
  <2>. QED
    BY <1>1, <1>3, <1>4, <2>1, <2>2
<1>8. \A i, j \in 1..k+1 : i < j => on[i] < on[j]
  <2>1. ASSUME NEW i \in 1..k+1, NEW j \in 1..k+1, i < j PROVE on[i] < on[j]
    <3>1. i \in 1..k
      BY <1>1, <2>1
    <3>2. CASE j = k+1
      BY <1>4, <1>6, <3>1, <3>2
    <3>3. CASE j \in 1..k
      BY <1>1, <1>4, <2>1, <3>1, <3>3 DEF Embedded
    <3>. QED
      BY <1>3, <3>2, <3>3
  <2>. QED
    BY <2>1
<1>9. Embedded(on, grown, f, next + 1)
  BY <1>1, <1>7, <1>8 DEF Embedded
<1>10. taken = next /\ taken > 0 /\ AllEmbedded(at, got, taken) =>
          AllEmbedded(on, grown, next + 1)
  <2> SUFFICES ASSUME taken = next, taken > 0, AllEmbedded(at, got, taken)
               PROVE  AllEmbedded(on, grown, next + 1)
    OBVIOUS
  <2>1. Len(got) = taken - 1 /\ \A i \in DOMAIN got : at[i] = i
    BY DEF AllEmbedded
  <2>4. k = taken - 1 /\ \A i \in 1..k : at[i] = i
    BY <1>1, <2>1 DEF k
  <2>2. k + 1 = next
    BY <2>4
  <2>3. \A i \in 1..k+1 : on[i] = i
    BY <1>3, <1>4, <2>4, <2>2
  <2>. QED
    BY <1>1, <2>2, <2>3 DEF AllEmbedded
<1>. QED
  BY <1>5, <1>9, <1>10

\* The client takes a datagram as a packet of the file.
LEMMA GetReceiveFilePacket ==
    ASSUME NEW c \in Clients, NEW n \in Names, Getting(c, n), ReceiveFilePacket(c)
    PROVE  TransferOK(c, n)'
<1>. USE DEF Getting
<1> DEFINE m == Head(s2c[c])
<1>1. /\ cpc[c] = "receive" /\ s2c[c] # <<>> /\ s2c'[c] = Tail(s2c[c])
      /\ UNCHANGED <<request, asks, serverVars, lossy>>
      /\ c2s'[c] = Append(c2s[c], Ack) /\ previous'[c] = m.text
      /\ position \in Nat /\ Len(remote[n]) \in Nat /\ request[c].name = n
      /\ s2c[c] \in Seq(Packets)
  BY GetFacts DEF ReceiveFilePacket, TypeInvariant, TypeOK
<1>2. /\ gotLast'[c] = (IsNew(c, m) /\ IsLast(m))
      /\ cpc'[c] \in {"receive", "prompt"}
      /\ IsNew(c, m) /\ IsLast(m) => cpc'[c] = "prompt"
  BY DEF ReceiveFilePacket, TypeInvariant, TypeOK
<1>3. /\ IsNew(c, m) => local'[c][n] = local[c][n] \o Written(m)
      /\ ~IsNew(c, m) => local'[c][n] = local[c][n]
  <2>1. local[c] \in [Names -> Seq(Blocks \cup {Garbage})]
    BY DEF TypeInvariant, TypeOK
  <2>. QED
    BY <1>1, <2>1 DEF ReceiveFilePacket, TypeInvariant, TypeOK
<1>4. UNCHANGED <<spc, peer, remote, sending, position, sendBuf>>
  BY <1>1 DEF serverVars
<1>5. ServerOK(n)' /\ (Started' <=> Started) /\ (AckTaken' <=> AckTaken)
  BY <1>4 DEF TransferOK, ServerOK, Started, AckTaken, IsPacket
<1>6. ToServerOK(c)'
  <2> DEFINE k == Len(c2s[c])
  <2>1. /\ k \in Nat /\ DOMAIN c2s[c] = 1..k /\ DOMAIN c2s'[c] = 1..k+1
        /\ \A i \in 1..k : c2s'[c][i] = c2s[c][i]
        /\ c2s'[c][k+1] = Ack
    BY <1>1, GetFacts, SeqFacts, AppendFacts
  <2> HIDE DEF k
  <2>2. \A i \in 1..k+1 : i \in 1..k \/ i = k+1
    BY <2>1
  <2>3. \A i, j \in 1..k+1 : i < j /\ c2s'[c][i] = Ack => c2s'[c][j] = Ack
    <3>1. ASSUME NEW i \in 1..k+1, NEW j \in 1..k+1, i < j, c2s'[c][i] = Ack
          PROVE  c2s'[c][j] = Ack
      <4>1. CASE j = k+1
        BY <2>1, <4>1
      <4>2. CASE j \in 1..k
        <5>1. i \in 1..k
          BY <2>1, <3>1, <4>2
        <5>. QED
          BY <2>1, <3>1, <4>2, <5>1 DEF TransferOK, ToServerOK
      <4>. QED
        BY <2>2, <4>1, <4>2
    <3>. QED
      BY <3>1
  <2>4. /\ \A i \in 1..k+1 : c2s'[c][i] \in {request[c], Ack}
        /\ AckTaken => \A i \in 1..k+1 : c2s'[c][i] = Ack
    BY <2>1, <2>2 DEF TransferOK, ToServerOK
  <2>. QED
    BY <1>1, <1>2, <1>5, <2>1, <2>3, <2>4 DEF ToServerOK
<1>7. CASE remote[n] = <<>>
  <2>1. \A i \in DOMAIN s2c'[c] : i + 1 \in DOMAIN s2c[c] /\ s2c'[c][i] = s2c[c][i+1]
    <3>1. /\ Len(s2c[c]) \in Nat \ {0} /\ DOMAIN s2c[c] = 1..Len(s2c[c])
          /\ DOMAIN s2c'[c] = 1..Len(s2c[c]) - 1
          /\ \A i \in 1..Len(s2c[c]) - 1 : s2c'[c][i] = s2c[c][i + 1]
      BY <1>1, TailFacts
    <3>. QED
      BY <3>1
  <2>2. 1 \in DOMAIN s2c[c] /\ m = s2c[c][1]
    BY <1>1, TailFacts
  <2>3. Written(m) = <<>>
    BY <1>7, <2>2 DEF TransferOK, EmptyTransfer, Written
  <2>6. local[c][n] = <<>> /\ <<>> \o <<>> = <<>>
    BY <1>7, EmptySeq DEF TransferOK, EmptyTransfer
  <2>4. local'[c][n] = <<>>
    BY <1>3, <2>3, <2>6
  <2>5. EmptyTransfer(c, n)'
    BY <1>4, <1>7, <2>1, <2>4 DEF TransferOK, EmptyTransfer
  <2>. QED
    BY <1>4, <1>5, <1>6, <1>7, <2>5 DEF TransferOK
<1>8. CASE remote[n] # <<>>
  <2>1. PICK taken \in 0..Len(remote[n])+1,
             sent \in [DOMAIN s2c[c] -> 1..Len(remote[n])+1],
             at \in [DOMAIN local[c][n] -> DOMAIN remote[n]] :
                Transfer(c, n, taken, sent, at)
    BY <1>8 DEF TransferOK
  <2> DEFINE i == sent[1]
             b == remote[n][i - 1]
  <2>2. /\ taken > 0 /\ taken <= i /\ i - 1 \in 1..Len(remote[n])
        /\ m.text = b
        /\ IsNew(c, m) => taken < i
        /\ IsLast(m) => i = Len(remote[n]) + 1
        /\ ~lossy => i <= taken + 1
        /\ ~lossy /\ NoRepeats(remote[n]) /\ ~IsNew(c, m) => i = taken
    BY <1>8, <2>1, ReceivedBlock
  <2>3. PICK block \in Blocks \cup {Garbage} :
           /\ Written(m) = <<block>>
           /\ block = b \/ (block = Garbage /\ b \in TinyBlocks)
    BY <1>8, <2>1, ReceivedBlock
  <2> HIDE DEF m
  <2>4. i \in 1..Len(remote[n])+1 /\ i # 1 /\ i > 0 /\ i # 0 /\ taken \in Nat
    BY <1>1, <2>1, <2>2
  <2>5. PICK left \in [DOMAIN s2c'[c] -> 1..Len(remote[n])+1] :
              /\ OnTheWay(left, s2c[c], remote[n], i)'
              /\ AllOnTheWay(sent, s2c[c], taken) => AllOnTheWay(left, s2c[c], i)'
    BY <1>1, <1>4, <2>1, ToClientTail DEF Transfer
  <2>6. ClientOK(c, n, i)'
    <3>1. gotLast'[c] => i = Len(remote[n]) + 1 /\ cpc'[c] = "prompt"
      BY <1>2, <2>2
    <3>2. cpc'[c] \notin {"ask", "reply"}
      BY <1>2
    <3>. QED
      BY <1>1, <1>4, <2>2, <2>4, <3>1, <3>2 DEF ClientOK
  <2>7. PICK on \in [DOMAIN local'[c][n] -> DOMAIN remote[n]] :
           /\ Embedded(on, local'[c][n], remote[n], i)
           /\ ~lossy /\ NoRepeats(remote[n]) => AllEmbedded(on, local'[c][n], i)
    <3>1. Embedded(at, local[c][n], remote[n], taken)
      BY <2>1 DEF Transfer
    <3>2. ~lossy /\ NoRepeats(remote[n]) => AllEmbedded(at, local[c][n], taken)
      BY <2>1 DEF Transfer
    <3>3. CASE IsNew(c, m)
      <4>1. /\ i - 1 \in Nat /\ taken <= i - 1 /\ (i - 1) + 1 = i
            /\ i - 1 \in DOMAIN remote[n] /\ DOMAIN remote[n] \subseteq Nat
        BY <1>1, <2>2, <2>4, <3>3, GetFacts
      <4>2. local'[c][n] = local[c][n] \o <<block>>
        BY <1>3, <2>3, <3>3
      <4>3. local[c][n] \in Seq(Blocks \cup {Garbage})
        BY GetFacts
      <4>4. \E on \in [DOMAIN local'[c][n] -> DOMAIN remote[n]] :
              /\ Embedded(on, local'[c][n], remote[n], i)
              /\ taken = i - 1 /\ taken > 0 /\ AllEmbedded(at, local[c][n], taken) =>
                    AllEmbedded(on, local'[c][n], i)
        <5>1. PICK next \in Nat : next = i - 1
          BY <4>1
        <5>2. /\ next + 1 = i /\ taken <= next /\ next \in DOMAIN remote[n]
              /\ DOMAIN remote[n] \subseteq Nat
              /\ \/ block = remote[n][next]
                 \/ block = Garbage /\ remote[n][next] \in TinyBlocks
          BY <2>3, <4>1, <5>1
        <5>3. \E on \in [DOMAIN local'[c][n] -> DOMAIN remote[n]] :
                /\ Embedded(on, local'[c][n], remote[n], next + 1)
                /\ taken = next /\ taken > 0 /\ AllEmbedded(at, local[c][n], taken) =>
                      AllEmbedded(on, local'[c][n], next + 1)
          BY <2>4, <3>1, <4>2, <4>3, <5>2, EmbeddedGrows
        <5>. QED
          BY <5>1, <5>2, <5>3
      <4>5. ~lossy => taken = i - 1
        BY <2>2, <2>4, <3>3
      <4>. QED
        BY <2>2, <3>2, <4>4, <4>5
    <3>4. CASE ~IsNew(c, m)
      <4>1. local'[c][n] = local[c][n]
        BY <1>3, <3>4
      <4>2. \A j \in DOMAIN local[c][n] : at[j] < i
        <5>1. ASSUME NEW j \in DOMAIN local[c][n] PROVE at[j] < i
          <6>1. at[j] < taken /\ at[j] \in DOMAIN remote[n]
            BY <2>1, <3>1 DEF Embedded
          <6>2. at[j] \in Nat
            BY <6>1, GetFacts
          <6>. QED
            BY <2>2, <2>4, <6>1, <6>2
        <5>. QED
          BY <5>1
      <4>3. Embedded(at, local[c][n], remote[n], i)
        BY <3>1, <4>2 DEF Embedded
      <4>4. ~lossy /\ NoRepeats(remote[n]) => AllEmbedded(at, local[c][n], i)
        BY <2>2, <3>2, <3>4
      <4>. QED
        BY <2>1, <4>1, <4>3, <4>4
    <3>. QED
      BY <3>3, <3>4
  <2>8. (~lossy => AllOnTheWay(left, s2c[c], i))'
    BY <1>1, <2>1, <2>5 DEF Transfer
  <2>9. PICK next \in 0..Len(remote[n])+1 : next = i
    BY <2>4
  <2>10. Transfer(c, n, next, left, on)'
    BY <1>1, <1>4, <2>5, <2>6, <2>7, <2>8, <2>9 DEF Transfer
  <2>. QED
    BY <1>4, <1>5, <1>6, <1>8, <2>7, <2>10 DEF TransferOK
<1>. QED
  BY <1>7, <1>8

LEMMA GetSame ==
    ASSUME GetInvariant, UNCHANGED vars
    PROVE  GetInvariant'
<1>. USE DEF vars, clientVars, serverVars
<1>1. ASSUME NEW c \in Clients PROVE Quiet(c)'
  BY DEF GetInvariant, Quiet
<1>2. ASSUME NEW c \in Clients, NEW n \in Names, FirstGet(c, n)' PROVE TransferOK(c, n)'
  <2>1. FirstGet(c, n)
    BY <1>2 DEF FirstGet
  <2>2. TransferOK(c, n)
    BY <2>1 DEF GetInvariant
  <2>3. ServerOK(n)' /\ ToServerOK(c)'
    BY <2>2 DEF TransferOK, ServerOK, ToServerOK, IsPacket, AckTaken
  <2>4. CASE remote[n] = <<>>
    BY <2>2, <2>3, <2>4 DEF TransferOK, EmptyTransfer
  <2>5. CASE remote[n] # <<>>
    <3>1. PICK taken \in 0..Len(remote[n])+1,
               sent \in [DOMAIN s2c[c] -> 1..Len(remote[n])+1],
               at \in [DOMAIN local[c][n] -> DOMAIN remote[n]] :
                  Transfer(c, n, taken, sent, at)
      BY <2>2, <2>5 DEF TransferOK
    <3>2. ClientOK(c, n, taken)'
      BY <3>1 DEF Transfer, ClientOK, AckTaken
    <3>3. OnTheWay(sent, s2c[c], remote[n], taken)'
      BY <3>1 DEF Transfer, OnTheWay, Started
    <3>4. (~lossy => AllOnTheWay(sent, s2c[c], taken))'
      BY <3>1 DEF Transfer, AllOnTheWay, Started
    <3>5. Transfer(c, n, taken, sent, at)'
      BY <3>1, <3>2, <3>3, <3>4 DEF Transfer
    <3>. QED
      BY <2>3, <2>5, <3>1, <3>5 DEF TransferOK
  <2>. QED
    BY <2>4, <2>5
<1>. QED
  BY <1>1, <1>2 DEF GetInvariant

LEMMA GetStep ==
    ASSUME TypeInvariant, GetInvariant, [Next]_vars
    PROVE  GetInvariant'
<1>1. CASE UNCHANGED vars
  BY <1>1, GetSame
<1>2. CASE Next
  <2>1. \A d \in Clients : Quiet(d)
    BY DEF GetInvariant
  <2>2. ASSUME NEW c \in Clients PROVE Quiet(c)'
    BY <1>2, <2>1, QuietStep
  <2>3. ASSUME NEW c \in Clients, NEW n \in Names, FirstGet(c, n)' PROVE TransferOK(c, n)'
    <3>1. CASE /\ \A d \in Clients : commands[d] = 0
               /\ \E r \in Requests : TypeCommand(c, r)
      BY <2>1, <2>3, <3>1, GetTypeCommand
    <3>2. CASE FirstGet(c, n) /\ (\/ ClientStep(c) \/ LoseDatagram(c) \/ WaitConnection(c)
                                  \/ ReadBlock \/ SendBlock \/ ReceiveNoAck \/ ReceiveAck(c))
      <4>1. Getting(c, n)
        BY <2>1, <3>2 DEF GetInvariant, Getting
      <4>2. ~timedOut'
        BY <2>3 DEF FirstGet
      <4>. QED
        BY <3>2, <4>1, <4>2, GetClientQuietly, GetReceiveReply, GetReceiveFilePacket,
           GetLoseDatagram, GetWaitConnection, GetReadBlock, GetSendBlock, GetListen
        DEF ClientStep
    <3>. QED
      BY <1>2, <2>1, <2>3, <3>1, <3>2, FirstGetStep
  <2>. QED
    BY <2>2, <2>3 DEF GetInvariant
<1>. QED
  BY <1>1, <1>2

LEMMA GetInvariantHolds == Spec => [](TypeInvariant /\ GetInvariant)
<1>1. Init => TypeInvariant /\ GetInvariant
  BY TypeInit, GetInit
<1>2. (TypeInvariant /\ GetInvariant) /\ [Next]_vars => (TypeInvariant /\ GetInvariant)'
  BY TypeStep, GetStep
<1>. QED
  BY <1>1, <1>2, PTL DEF Spec

-----------------------------------------------------------------------------

(* What the client has. *)

\* On a network that loses datagrams, what the client's first get has written so far
\* is blocks of the server's file in their order, none of them twice.
THEOREM InOrderCorrect == Spec => []ReceivedInOrder
<1>1. TypeInvariant /\ GetInvariant => ReceivedInOrder
  <2> SUFFICES ASSUME TypeInvariant, GetInvariant,
                      NEW c \in Clients, NEW n \in Names, FirstGet(c, n)
               PROVE  \E at \in [DOMAIN local[c][n] -> DOMAIN remote[n]] :
                        /\ \A i, j \in DOMAIN local[c][n] : i < j => at[i] < at[j]
                        /\ \A i \in DOMAIN local[c][n] :
                              \/ local[c][n][i] = remote[n][at[i]]
                              \/ /\ local[c][n][i] = Garbage
                                 /\ remote[n][at[i]] \in TinyBlocks
    BY DEF ReceivedInOrder
  <2>1. TransferOK(c, n)
    BY DEF GetInvariant
  <2>2. CASE remote[n] = <<>>
    <3> DEFINE none == [i \in {} |-> 1]
    <3>1. DOMAIN local[c][n] = {}
      BY <2>1, <2>2 DEF TransferOK, EmptyTransfer
    <3>2. none \in [DOMAIN local[c][n] -> DOMAIN remote[n]]
      BY <3>1
    <3> HIDE DEF none
    <3>. QED
      BY <3>1, <3>2
  <2>3. CASE remote[n] # <<>>
    BY <2>1, <2>3 DEF TransferOK, Transfer, Embedded
  <2>. QED
    BY <2>2, <2>3
<1>. QED
  BY <1>1, GetInvariantHolds, PTL

LEMMA PrefixFact == TypeInvariant /\ GetInvariant => ReceivedIsPrefix
<1> SUFFICES ASSUME TypeInvariant, GetInvariant,
                    NEW c \in Clients, NEW n \in Names,
                    FirstGet(c, n), ~lossy, NoRepeats(remote[n])
             PROVE  SameButTiny(local[c][n], remote[n])
  BY DEF ReceivedIsPrefix
<1>1. TransferOK(c, n)
  BY DEF GetInvariant
<1>2. Len(remote[n]) \in Nat
  BY GetFacts DEF GetInvariant
<1>3. CASE remote[n] = <<>>
  <2>1. DOMAIN local[c][n] = {} /\ Len(local[c][n]) = 0
    BY <1>1, <1>3 DEF TransferOK, EmptyTransfer
  <2>. QED
    BY <1>2, <2>1 DEF SameButTiny
<1>4. CASE remote[n] # <<>>
  <2>1. PICK taken \in 0..Len(remote[n])+1,
             sent \in [DOMAIN s2c[c] -> 1..Len(remote[n])+1],
             at \in [DOMAIN local[c][n] -> DOMAIN remote[n]] :
                Transfer(c, n, taken, sent, at)
    BY <1>1, <1>4 DEF TransferOK
  <2>2. /\ Embedded(at, local[c][n], remote[n], taken)
        /\ AllEmbedded(at, local[c][n], taken)
    BY <2>1 DEF Transfer
  <2>3. Len(local[c][n]) <= Len(remote[n])
    BY <1>2, <2>2 DEF AllEmbedded
  <2>. QED
    BY <2>2, <2>3 DEF Embedded, AllEmbedded, SameButTiny
<1>. QED
  BY <1>3, <1>4

\* On a network that loses nothing it is a prefix of the server's file, whatever late
\* acknowledgements and repeated packets and requests are on the way.
THEOREM PrefixCorrect == Spec => []ReceivedIsPrefix
BY PrefixFact, GetInvariantHolds, PTL

LEMMA WholeFact == TypeInvariant /\ GetInvariant => LastMeansWhole
<1> SUFFICES ASSUME TypeInvariant, GetInvariant,
                    NEW c \in Clients, NEW n \in Names,
                    FirstGet(c, n), ~lossy, NoRepeats(remote[n]), gotLast[c]
             PROVE  Len(local[c][n]) = Len(remote[n])
  BY DEF LastMeansWhole
<1>1. TransferOK(c, n)
  BY DEF GetInvariant
<1>2. Len(remote[n]) \in Nat
  BY GetFacts DEF GetInvariant
<1>3. CASE remote[n] = <<>>
  BY <1>1, <1>3 DEF TransferOK, EmptyTransfer
<1>4. CASE remote[n] # <<>>
  <2>1. PICK taken \in 0..Len(remote[n])+1,
             sent \in [DOMAIN s2c[c] -> 1..Len(remote[n])+1],
             at \in [DOMAIN local[c][n] -> DOMAIN remote[n]] :
                Transfer(c, n, taken, sent, at)
    BY <1>1, <1>4 DEF TransferOK
  <2>2. taken = Len(remote[n]) + 1 /\ AllEmbedded(at, local[c][n], taken)
    BY <2>1 DEF Transfer, ClientOK
  <2>. QED
    BY <1>2, <2>2 DEF AllEmbedded
<1>. QED
  BY <1>3, <1>4

\* Then a client that has taken the last packet for the last has the whole file.
THEOREM WholeCorrect == Spec => []LastMeansWhole
BY WholeFact, GetInvariantHolds, PTL

-----------------------------------------------------------------------------

(* The promise of FileGet. *)

\* Until receiveFile begins the client has nothing.
LEMMA NothingYet ==
    ASSUME TypeInvariant, GetInvariant, NEW c \in Clients, NEW n \in Names,
           FirstGet(c, n), ~lossy, NoRepeats(remote[n]), cpc[c] \in {"ask", "reply"}
    PROVE  local[c][n] = <<>>
<1>1. TransferOK(c, n)
  BY DEF GetInvariant
<1>2. CASE remote[n] = <<>>
  BY <1>1, <1>2 DEF TransferOK, EmptyTransfer
<1>3. CASE remote[n] # <<>>
  <2>1. PICK taken \in 0..Len(remote[n])+1,
             sent \in [DOMAIN s2c[c] -> 1..Len(remote[n])+1],
             at \in [DOMAIN local[c][n] -> DOMAIN remote[n]] :
                Transfer(c, n, taken, sent, at)
    BY <1>1, <1>3 DEF TransferOK
  <2>2. Len(local[c][n]) = 0
    BY <2>1 DEF Transfer, ClientOK, AllEmbedded
  <2>3. local[c][n] \in Seq(Blocks \cup {Garbage})
    BY GetFacts DEF GetInvariant
  <2>. QED
    BY <2>2, <2>3
<1>. QED
  BY <1>2, <1>3

\* What no step changes.
LEMMA FixedStep == Next => remote' = remote /\ lossy' = lossy
BY DEF Next, ClientStep, ServerStep, SendFileStep, TypeCommand, SendRequest, ReceiveReply,
       NoReply, ReceiveFilePacket, ReceiveNothing, LoseDatagram, WaitConnection,
       ReadBlock, SendBlock, ReceiveAck, ReceiveNoAck, serverVars

\* One packet more is one block more: what it is follows from what the client has then.
LEMMA OneBlock ==
    ASSUME NEW got \in Seq(Blocks \cup {Garbage}), NEW more \in Seq(Blocks \cup {Garbage}),
           NEW f \in Seq(Blocks), NEW b \in Blocks \cup {Garbage},
           more = Append(got, b), SameButTiny(more, f)
    PROVE  /\ Len(got) < Len(f)
           /\ b = f[Len(got) + 1] \/ (f[Len(got) + 1] \in TinyBlocks /\ b = Garbage)
<1>1. Len(more) = Len(got) + 1 /\ more[Len(got) + 1] = b /\ Len(got) + 1 \in DOMAIN more
  BY AppendFacts
<1>2. Len(more) <= Len(f) /\ Len(got) \in Nat /\ Len(f) \in Nat
  BY DEF SameButTiny
<1>. QED
  BY <1>1, <1>2 DEF SameButTiny

\* A first get with which nothing goes wrong.
GoingWell(n) == n \in Names /\ FirstGet(User, n) /\ ~lossy /\ NoRepeats(remote[n])

\* What FileGet sees of it, and what the client has.
SeenAs(n) ==
    /\ Wanted = n /\ Promised
    /\ Status = IF cpc[User] # "prompt" THEN "getting"
                ELSE IF gotLast[User] THEN "done" ELSE "failed"
    /\ remote[n] \in Files
    /\ remote[n] \in Seq(Blocks) /\ local[User][n] \in Seq(Blocks \cup {Garbage})
    /\ SameButTiny(local[User][n], remote[n])
    /\ gotLast[User] => Len(local[User][n]) = Len(remote[n])
    /\ cpc[User] \in {"ask", "reply"} => local[User][n] = <<>>

\* Before its first command the client has nothing.
IdleOK ==
    commands[User] = 0 =>
        /\ Status = "idle" /\ ~Promised /\ local[User][Wanted] = <<>>
        /\ \A n \in Names : local[User][n] = <<>>

Seen == IdleOK /\ \A n \in Names : GoingWell(n) => SeenAs(n)

LEMMA SeenHolds == TypeInvariant /\ GetInvariant => Seen
<1> SUFFICES ASSUME TypeInvariant, GetInvariant PROVE Seen
  OBVIOUS
<1>1. IdleOK
  <2>1. Wanted \in Names
    BY UserAssumption DEF TypeInvariant, TypeOK, Requests, Wanted
  <2>. QED
    BY <2>1, UserAssumption DEF GetInvariant, Quiet, Status, Promised, FirstGet, IdleOK
<1>2. ASSUME NEW n \in Names, GoingWell(n) PROVE SeenAs(n)
  <2>1. /\ request[User] = [op |-> "get", name |-> n] /\ commands[User] = 1
        /\ n \in DOMAIN remote
    BY <1>2 DEF GoingWell, FirstGet
  <2>2. Wanted = n
    BY <2>1 DEF Wanted
  <2>3. Promised
    BY <1>2, <2>2 DEF Promised, GoingWell
  <2>4. Status = IF cpc[User] # "prompt" THEN "getting"
                 ELSE IF gotLast[User] THEN "done" ELSE "failed"
    BY <2>1, <2>3 DEF Status
  <2>5. remote[n] \in Files
    BY <2>1, RemoteFacts DEF TypeInvariant
  <2>6. remote[n] \in Seq(Blocks) /\ local[User][n] \in Seq(Blocks \cup {Garbage})
    BY <1>2, UserAssumption, GetFacts DEF GoingWell, GetInvariant
  <2>7. /\ SameButTiny(local[User][n], remote[n])
        /\ gotLast[User] => Len(local[User][n]) = Len(remote[n])
    BY <1>2, UserAssumption, PrefixFact, WholeFact
    DEF GoingWell, ReceivedIsPrefix, LastMeansWhole
  <2>8. cpc[User] \in {"ask", "reply"} => local[User][n] = <<>>
    BY <1>2, UserAssumption, NothingYet DEF GoingWell
  <2>. QED
    BY <2>2, <2>3, <2>4, <2>5, <2>6, <2>7, <2>8 DEF SeenAs
<1>. QED
  BY <1>1, <1>2 DEF Seen

LEMMA RefinesInit == Init => Promise!Init
<1> SUFFICES ASSUME Init PROVE Promise!Init
  OBVIOUS
<1>1. Seen /\ commands[User] = 0
  BY TypeInit, GetInit, SeenHolds, UserAssumption DEF Init
<1>. QED
  BY <1>1 DEF Promise!Init, Seen, IdleOK

\* The first command.
LEMMA RefinesRequest ==
    ASSUME TypeInvariant, Seen, NEW n \in Names, GoingWell(n)', SeenAs(n)',
           commands[User] = 0, NEW r \in Requests, TypeCommand(User, r)
    PROVE  \E f \in Files : Promise!Request(f)
<1>1. cpc'[User] = "ask" /\ local' = local
  BY UserAssumption DEF TypeCommand, TypeInvariant, TypeOK
<1>2. Status = "idle" /\ local'[User][n] = <<>>
  BY <1>1 DEF Seen, IdleOK
<1>3. Status' = "getting"
  BY <1>1 DEF SeenAs
<1>. QED
  BY <1>2, <1>3 DEF Promise!Request, SeenAs

\* A step of the programs that does not touch the client is none of FileGet's.
LEMMA RefinesSame ==
    ASSUME NEW n, SeenAs(n), SeenAs(n)', remote' = remote, UNCHANGED clientVars
    PROVE  UNCHANGED Promise!vars
BY DEF SeenAs, clientVars, Promise!vars

\* One that leaves the client's file alone is no step either, or its return.
LEMMA RefinesReturn ==
    ASSUME NEW n, SeenAs(n), SeenAs(n)', remote' = remote, cpc[User] # "prompt",
           local'[User][n] = local[User][n]
    PROVE  Promise!Return
BY DEF SeenAs, Promise!Return, Promise!Goes, Promise!WholeWhenDone

\* One that appends to it appends the next block.
LEMMA RefinesReceive ==
    ASSUME NEW n, SeenAs(n), SeenAs(n)', remote' = remote, cpc[User] # "prompt",
           NEW b \in Blocks \cup {Garbage}, local'[User][n] = Append(local[User][n], b)
    PROVE  Promise!Receive
<1>1. /\ Len(local[User][n]) < Len(remote[n])
      /\ \/ b = remote[n][Len(local[User][n]) + 1]
         \/ remote[n][Len(local[User][n]) + 1] \in TinyBlocks /\ b = Garbage
  BY OneBlock DEF SeenAs
<1>. QED
  BY <1>1 DEF SeenAs, Promise!Receive, Promise!Goes, Promise!WholeWhenDone

LEMMA OneMore == \A S : \A s \in Seq(S) : \A b \in S : s \o <<b>> = Append(s, b)
OBVIOUS

\* Each step of the client.
LEMMA RefinesClient ==
    ASSUME TypeInvariant, NEW n \in Names, GoingWell(n), SeenAs(n), SeenAs(n)',
           remote' = remote, ClientStep(User)
    PROVE  Promise!Return \/ Promise!Receive
<1>1. request[User].name = n /\ cpc[User] # "prompt"
  BY DEF SeenAs, Wanted, ClientStep, SendRequest, ReceiveReply, NoReply, ReceiveFilePacket,
         ReceiveNothing
<1>2. CASE SendRequest(User) \/ NoReply(User) \/ ReceiveNothing(User)
  <2>1. local' = local
    BY <1>2 DEF SendRequest, NoReply, ReceiveNothing
  <2>. QED
    BY <1>1, <2>1, RefinesReturn
<1>3. CASE ReceiveReply(User)
  <2>1. local'[User][n] \in {local[User][n], <<>>}
    BY <1>1, <1>3, UserAssumption DEF ReceiveReply, BeginReceive, TypeInvariant, TypeOK
  <2>2. local[User][n] = <<>>
    BY <1>3 DEF ReceiveReply, SeenAs
  <2>. QED
    BY <1>1, <2>1, <2>2, RefinesReturn
<1>4. CASE ReceiveFilePacket(User)
  <2> DEFINE m == Head(s2c[User])
  <2>1. m \in Packets
    BY <1>4, UserAssumption DEF ReceiveFilePacket, TypeInvariant, TypeOK
  <2>2. local'[User][n] = local[User][n] \/ local'[User][n] = local[User][n] \o Written(m)
    BY <1>1, <1>4, UserAssumption DEF ReceiveFilePacket, TypeInvariant, TypeOK
  <2>3. \/ Written(m) = <<>>
        \/ \E b \in Blocks \cup {Garbage} : Written(m) = <<b>>
    BY <2>1 DEF Written, Packets
  <2>4. CASE local'[User][n] = local[User][n]
    BY <1>1, <2>4, RefinesReturn
  <2>5. CASE Written(m) = <<>> /\ local'[User][n] = local[User][n] \o Written(m)
    <3>1. local[User][n] \in Seq(Blocks \cup {Garbage})
      BY DEF SeenAs
    <3>2. local[User][n] \o <<>> = local[User][n]
      BY <3>1, EmptySeq
    <3>3. local'[User][n] = local[User][n]
      BY <2>5, <3>2
    <3>. QED
      BY <1>1, <3>3, RefinesReturn
  <2>6. CASE /\ \E b \in Blocks \cup {Garbage} : Written(m) = <<b>>
             /\ local'[User][n] = local[User][n] \o Written(m)
    <3>1. PICK b \in Blocks \cup {Garbage} : Written(m) = <<b>>
      BY <2>6
    <3>2. local[User][n] \in Seq(Blocks \cup {Garbage})
      BY DEF SeenAs
    <3>3. local'[User][n] = Append(local[User][n], b)
      BY <2>6, <3>1, <3>2, OneMore, Zenon
    <3>. QED
      BY <1>1, <3>3, RefinesReceive
  <2>. QED
    BY <2>2, <2>3, <2>4, <2>5, <2>6
<1>. QED
  BY <1>2, <1>3, <1>4 DEF ClientStep

LEMMA CommandsGrow ==
    ASSUME TypeInvariant, Next, commands'[User] = 0
    PROVE  commands[User] = 0
<1>1. CASE \E c \in Clients, r \in Requests : TypeCommand(c, r)
  <2>1. PICK c \in Clients, r \in Requests : TypeCommand(c, r)
    BY <1>1
  <2>2. /\ commands' = [commands EXCEPT ![c] = @ + 1]
        /\ commands \in [Clients -> Nat]
    BY <2>1, Bounds DEF TypeCommand, TypeInvariant, TypeOK
  <2>. QED
    BY <2>2, UserAssumption
<1>2. CASE ~(\E c \in Clients, r \in Requests : TypeCommand(c, r))
  <2>1. commands' = commands
    BY <1>2 DEF Next, ClientStep, ServerStep, SendFileStep, SendRequest, ReceiveReply,
         NoReply, ReceiveFilePacket, ReceiveNothing, LoseDatagram, WaitConnection,
         ReadBlock, SendBlock, ReceiveAck, ReceiveNoAck, clientVars
  <2>. QED
    BY <2>1
<1>. QED
  BY <1>1, <1>2

LEMMA RefinesStep ==
    ASSUME TypeInvariant, GetInvariant, Seen, TypeInvariant', Seen', [Next]_vars
    PROVE  [Promise!Next]_(Promise!vars)
<1>1. CASE UNCHANGED vars
  BY <1>1 DEF vars, clientVars, serverVars, Promise!vars, Status, Promised, FirstGet,
              NoRepeats, Wanted
<1>2. CASE Next
  <2>1. remote' = remote /\ lossy' = lossy
    BY <1>2, FixedStep
  <2>2. CASE commands'[User] = 0
    <3>1. commands[User] = 0
      BY <1>2, <2>2, CommandsGrow
    <3>. QED
      BY <2>2, <3>1 DEF Seen, IdleOK, Promise!vars
  <2>3. CASE commands'[User] # 0 /\ ~Promised'
    <3>1. Status' = "unpromised"
      BY <2>3 DEF Status
    <3>. QED
      BY <3>1 DEF Promise!Next, Promise!NothingPromised
  <2>4. CASE commands'[User] # 0 /\ Promised'
    <3>1. PICK n \in Names : n = Wanted'
      BY UserAssumption DEF TypeInvariant, TypeOK, Requests, Wanted
    <3>2. GoingWell(n)' /\ SeenAs(n)'
      BY <2>4, <3>1 DEF Promised, GoingWell, Seen
    <3>3. FirstGet(User, n)'
      BY <3>2 DEF GoingWell
    <3>4. CASE commands[User] = 0 /\ \E r \in Requests : TypeCommand(User, r)
      BY <3>2, <3>4, RefinesRequest DEF Promise!Next
    <3>5. CASE /\ FirstGet(User, n)
               /\ \/ ClientStep(User) \/ LoseDatagram(User) \/ WaitConnection(User)
                  \/ ReadBlock \/ SendBlock \/ ReceiveNoAck \/ ReceiveAck(User)
      <4>1. GoingWell(n) /\ SeenAs(n)
        BY <2>1, <3>2, <3>5 DEF GoingWell, Seen
      <4>2. CASE ClientStep(User)
        BY <2>1, <3>2, <4>1, <4>2, RefinesClient DEF Promise!Next
      <4>3. CASE ~ClientStep(User)
        <5>1. UNCHANGED clientVars
          BY <3>5, <4>3 DEF LoseDatagram, WaitConnection, ReadBlock, SendBlock, ReceiveNoAck,
                            ReceiveAck
        <5>. QED
          BY <2>1, <3>2, <4>1, <5>1, RefinesSame
      <4>. QED
        BY <4>2, <4>3
    <3>. QED
      BY <1>2, <3>3, <3>4, <3>5, FirstGetStep, UserAssumption DEF GetInvariant
  <2>. QED
    BY <2>2, <2>3, <2>4
<1>. QED
  BY <1>1, <1>2

\* The ftp programs implement FileGet for any of their clients, however many there are
\* and whatever the files and the bounds of the loops.
THEOREM FtpImplementsFileGet == Spec => GetIsAsPromised
<1>1. Init => Promise!Init
  BY RefinesInit
<1>2. /\ TypeInvariant /\ GetInvariant /\ Seen /\ (TypeInvariant /\ GetInvariant /\ Seen)'
      /\ [Next]_vars
      => [Promise!Next]_(Promise!vars)
  BY RefinesStep
<1>3. Spec => [](TypeInvariant /\ GetInvariant /\ Seen)
  BY SeenHolds, GetInvariantHolds, PTL
<1>. QED
  BY <1>1, <1>2, <1>3, PTL DEF Spec, GetIsAsPromised, Promise!Spec

-----------------------------------------------------------------------------
(* What ClientReturns and SendFileReturns rest on: the loops come down. *)

\* The lexicographic order, which has no infinite descent among natural numbers.
Below(a, b) ==
    \E i \in 1..4 : a[i] < b[i] /\ \A j \in 1..i-1 : a[j] = b[j]

\* What a client with a command under way has before it: a reply, requests, whether
\* the next step is one, and polls of receiveFile.
LeftToAsk(c) ==
    <<IF cpc[c] = "receive" THEN 0 ELSE 1,
      MaxAsks - asks[c],
      IF cpc[c] = "ask" THEN 1 ELSE 0,
      MaxPolls - polls[c]>>

\* What sendFile has before it: blocks to read, whether one is to be acknowledged,
\* tries, and whether the next step is one.
InFile == spc \in {"read", "send", "listen"}
LeftToSend ==
    <<Len(remote[sending]) - position,
      IF spc = "read" THEN 0 ELSE 1,
      MaxTries - tries,
      IF spc = "send" THEN 1 ELSE 0>>

\* Every step of a client (sendAndReceieveMessage, receiveFile) brings it to its prompt
\* or leaves less to do, and no step of anybody else gives it more.
AskingComesDown ==
    [][\A c \in Clients :
           cpc[c] # "prompt" =>
               /\ \A i \in 1..4 : LeftToAsk(c)[i] \in Nat
               /\ ClientStep(c) => cpc'[c] = "prompt" \/ Below(LeftToAsk(c)', LeftToAsk(c))
               /\ ~ClientStep(c) => cpc'[c] = cpc[c] /\ LeftToAsk(c)' = LeftToAsk(c)]_vars

\* Every step of sendFile ends it or leaves less to do, and no step of anybody else
\* gives it more.
SendingComesDown ==
    [][InFile =>
           /\ \A i \in 1..4 : LeftToSend[i] \in Nat
           /\ SendFileStep => ~InFile' \/ Below(LeftToSend', LeftToSend)
           /\ ~SendFileStep => InFile' /\ LeftToSend' = LeftToSend]_vars

LEMMA AskTypes ==
    ASSUME TypeInvariant, NEW c \in Clients
    PROVE  /\ MaxAsks \in Nat /\ MaxPolls \in Nat
           /\ asks[c] \in 0..MaxAsks /\ polls[c] \in 0..MaxPolls
           /\ \A i \in 1..4 : LeftToAsk(c)[i] \in Nat
<1>1. /\ MaxAsks \in Nat /\ MaxPolls \in Nat
      /\ asks[c] \in 0..MaxAsks /\ polls[c] \in 0..MaxPolls
  BY Bounds DEF TypeInvariant, TypeOK
<1>. QED
  BY <1>1 DEF LeftToAsk

LEMMA OwnStepComesDown ==
    ASSUME TypeInvariant, NEW c \in Clients, cpc[c] # "prompt", ClientStep(c),
           cpc'[c] # "prompt"
    PROVE  Below(LeftToAsk(c)', LeftToAsk(c))
<1>1. CASE SendRequest(c)
  <2>1. cpc[c] = "ask" /\ cpc'[c] = "reply" /\ asks' = asks
    BY <1>1 DEF SendRequest, TypeInvariant, TypeOK
  <2>2. /\ \A j \in 1..2 : LeftToAsk(c)'[j] = LeftToAsk(c)[j]
        /\ LeftToAsk(c)'[3] < LeftToAsk(c)[3]
    BY <2>1 DEF LeftToAsk
  <2>. QED
    BY <2>2 DEF Below
<1>2. CASE ReceiveReply(c)
  <2>1. cpc[c] = "reply" /\ cpc'[c] = "receive"
    BY <1>2 DEF ReceiveReply, BeginReceive, TypeInvariant, TypeOK
  <2>2. LeftToAsk(c)'[1] < LeftToAsk(c)[1]
    BY <2>1 DEF LeftToAsk
  <2>. QED
    BY <2>2 DEF Below
<1>3. CASE NoReply(c)
  <2>1. cpc[c] = "reply" /\ cpc'[c] = "ask" /\ asks'[c] = asks[c] + 1
    BY <1>3 DEF NoReply, TypeInvariant, TypeOK
  <2>2. LeftToAsk(c)'[1] = LeftToAsk(c)[1] /\ LeftToAsk(c)'[2] < LeftToAsk(c)[2]
    BY <2>1, AskTypes DEF LeftToAsk
  <2>. QED
    BY <2>2 DEF Below
<1>4. CASE ReceiveFilePacket(c) \/ ReceiveNothing(c)
  <2>1. /\ cpc[c] = "receive" /\ cpc'[c] = "receive" /\ polls'[c] = polls[c] + 1
        /\ asks' = asks
    BY <1>4 DEF ReceiveFilePacket, ReceiveNothing, TypeInvariant, TypeOK
  <2>2. /\ \A j \in 1..3 : LeftToAsk(c)'[j] = LeftToAsk(c)[j]
        /\ LeftToAsk(c)'[4] < LeftToAsk(c)[4]
    BY <2>1, AskTypes DEF LeftToAsk
  <2>. QED
    BY <2>2 DEF Below
<1>. QED
  BY <1>1, <1>2, <1>3, <1>4 DEF ClientStep

LEMMA OtherStepLeavesIt ==
    ASSUME TypeInvariant, NEW c \in Clients, cpc[c] # "prompt", [Next]_vars, ~ClientStep(c)
    PROVE  cpc'[c] = cpc[c] /\ LeftToAsk(c)' = LeftToAsk(c)
<1> DEFINE Same == cpc'[c] = cpc[c] /\ asks'[c] = asks[c] /\ polls'[c] = polls[c]
<1>1. CASE UNCHANGED clientVars
  BY <1>1 DEF clientVars, LeftToAsk
<1>2. ASSUME NEW d \in Clients, NEW r \in Requests, TypeCommand(d, r)
      PROVE  Same
  <2>1. d # c
    BY <1>2 DEF TypeCommand
  <2>. QED
    BY <1>2, <2>1 DEF TypeCommand, TypeInvariant, TypeOK
<1>3. ASSUME NEW d \in Clients, ClientStep(d)
      PROVE  Same
  <2>1. d # c
    BY <1>3
  <2>. QED
    BY <1>3, <2>1
    DEF ClientStep, SendRequest, ReceiveReply, BeginReceive, NoReply, ReceiveFilePacket,
        ReceiveNothing, TypeInvariant, TypeOK
<1>4. Same => cpc'[c] = cpc[c] /\ LeftToAsk(c)' = LeftToAsk(c)
  BY DEF LeftToAsk
<1>. QED
  BY <1>1, <1>2, <1>3, <1>4
  DEF Next, vars, LoseDatagram, ServerStep, SendFileStep, WaitConnection, ReadBlock,
      SendBlock, ReceiveAck, ReceiveNoAck, clientVars

\* A client of the ftp server never goes round without coming nearer to its prompt, for
\* any number of clients, tries and polls, whatever the network and the server do.
THEOREM AskingComesDownCorrect == Spec => AskingComesDown
<1>1. TypeInvariant /\ [Next]_vars =>
        [\A c \in Clients :
           cpc[c] # "prompt" =>
               /\ \A i \in 1..4 : LeftToAsk(c)[i] \in Nat
               /\ ClientStep(c) => cpc'[c] = "prompt" \/ Below(LeftToAsk(c)', LeftToAsk(c))
               /\ ~ClientStep(c) => cpc'[c] = cpc[c] /\ LeftToAsk(c)' = LeftToAsk(c)]_vars
  BY AskTypes, OwnStepComesDown, OtherStepLeavesIt
<1>. QED
  BY <1>1, TypeInit, TypeStep, PTL DEF Spec, AskingComesDown

LEMMA SendTypes ==
    ASSUME TypeInvariant, InFile
    PROVE  /\ MaxTries \in Nat /\ tries \in 0..MaxTries
           /\ position \in Nat /\ Len(remote[sending]) \in Nat
           /\ \A i \in 1..4 : LeftToSend[i] \in Nat
<1>1. /\ MaxTries \in Nat /\ tries \in 0..MaxTries /\ position \in Nat
  BY Bounds DEF TypeInvariant, TypeOK
<1>2. sending \in DOMAIN remote /\ position <= Len(remote[sending])
  BY DEF TypeInvariant, LoopsOK, InFile
<1>3. Len(remote[sending]) \in Nat
  BY <1>2, RemoteFacts, Bounds DEF TypeInvariant
<1>. QED
  BY <1>1, <1>2, <1>3 DEF LeftToSend

LEMMA FileStepComesDown ==
    ASSUME TypeInvariant, InFile, SendFileStep, InFile'
    PROVE  Below(LeftToSend', LeftToSend)
<1>1. remote' = remote /\ sending' = sending
  BY DEF SendFileStep, ReadBlock, SendBlock, ReceiveAck, ReceiveNoAck
<1>2. CASE ReadBlock
  <2>1. position' = position + 1
    BY <1>2 DEF ReadBlock, InFile
  <2>2. LeftToSend'[1] < LeftToSend[1]
    BY <1>1, <2>1, SendTypes DEF LeftToSend
  <2>. QED
    BY <2>2 DEF Below
<1>3. CASE SendBlock
  <2>1. spc = "send" /\ spc' = "listen" /\ position' = position /\ tries' = tries
    BY <1>3 DEF SendBlock
  <2>2. /\ \A j \in 1..3 : LeftToSend'[j] = LeftToSend[j]
        /\ LeftToSend'[4] < LeftToSend[4]
    BY <1>1, <2>1 DEF LeftToSend
  <2>. QED
    BY <2>2 DEF Below
<1>4. CASE ReceiveNoAck \/ \E c \in Clients : ReceiveAck(c)
  <2>1. /\ spc = "listen" /\ position' = position
        /\ (spc' = "read" \/ NotAcknowledged)
    BY <1>4 DEF ReceiveNoAck, ReceiveAck
  <2>2. CASE spc' = "read"
    <3>1. LeftToSend'[1] = LeftToSend[1] /\ LeftToSend'[2] < LeftToSend[2]
      BY <1>1, <2>1, <2>2 DEF LeftToSend
    <3>. QED
      BY <3>1 DEF Below
  <2>3. CASE NotAcknowledged
    <3>1. spc' = "send" /\ tries' = tries + 1
      BY <2>3 DEF NotAcknowledged, InFile
    <3>2. /\ \A j \in 1..2 : LeftToSend'[j] = LeftToSend[j]
          /\ LeftToSend'[3] < LeftToSend[3]
      BY <1>1, <2>1, <3>1, SendTypes DEF LeftToSend
    <3>. QED
      BY <3>2 DEF Below
  <2>. QED
    BY <2>1, <2>2, <2>3
<1>. QED
  BY <1>2, <1>3, <1>4 DEF SendFileStep

LEMMA NoFileStepLeavesIt ==
    ASSUME InFile, [Next]_vars, ~SendFileStep
    PROVE  InFile' /\ LeftToSend' = LeftToSend
<1>1. UNCHANGED serverVars
  BY DEF Next, vars, TypeCommand, ClientStep, SendRequest, ReceiveReply, NoReply,
         ReceiveFilePacket, ReceiveNothing, LoseDatagram, ServerStep, WaitConnection, InFile
<1>. QED
  BY <1>1 DEF serverVars, InFile, LeftToSend

\* sendFile never goes round without coming nearer to its return, for any number of
\* clients, blocks and tries, whatever the network and the clients do.
THEOREM SendingComesDownCorrect == Spec => SendingComesDown
<1>1. TypeInvariant /\ [Next]_vars =>
        [InFile =>
           /\ \A i \in 1..4 : LeftToSend[i] \in Nat
           /\ SendFileStep => ~InFile' \/ Below(LeftToSend', LeftToSend)
           /\ ~SendFileStep => InFile' /\ LeftToSend' = LeftToSend]_vars
  BY SendTypes, FileStepComesDown, NoFileStepLeavesIt
<1>. QED
  BY <1>1, TypeInit, TypeStep, PTL DEF Spec, SendingComesDown
=============================================================================
