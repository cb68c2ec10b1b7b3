--------------------------- MODULE FileTransferProofs ---------------------------
(***************************************************************************)
(* Proofs about FileTransfer, for every set of clients, names and blocks,  *)
(* every bound and every base: the type invariant on any network; on a     *)
(* network that keeps the order of datagrams the inductive invariant of    *)
(* FileTransferInvariant and the three safety properties that follow; and  *)
(* on any network, from the weaker invariant that is left there, that      *)
(* nothing acknowledged is missing and that the client's loops come down.  *)
(***************************************************************************)
EXTENDS FileTransferInvariant, CodecProofs, SequenceTheorems

-----------------------------------------------------------------------------
(* Behind NothingMissing, on any network: the first put of a client that is    *)
(* alone, of a file with fewer blocks than there are packet numbers.           *)

Sent(c) == {PutPacket(c, k) : k \in 1..Built(c)}
CommandPacket(c) == Packet(0, Command(name[c]))

\* The server has not taken the command: nothing is acknowledged, and the command
\* is on its way once, or lost.
Unopened(c) ==
    /\ spc = "command"
    /\ s2c[c] = <<>>
    /\ Built(c) = IF cpc[c] = "read" THEN 0 ELSE 1
    /\ \A i \in DOMAIN c2s[c] : c2s[c][i] \in {CommandPacket(c)} \cup Sent(c)
    /\ \A i, j \in DOMAIN c2s[c] :
          c2s[c][i] = CommandPacket(c) /\ c2s[c][j] = CommandPacket(c) => i = j

\* The server has opened the file and holds its first m blocks in order, among
\* others.  The client knows of no more, and prevPacketNum and every acknowledgement
\* on its way are the number of one of them, or 0, or LASTPACKET's.
OpenedWith(c, m) ==
    /\ InOrder(file[c], m, disk[name[c]])
    /\ AckedBlocks(c) <= m
    /\ spc = "receiving" => peer = c /\ inputFile = name[c] /\ prevPacketNum \in 0..m
    /\ \A i \in DOMAIN c2s[c] : c2s[c][i] \in Sent(c)
    /\ \A i \in DOMAIN s2c[c] :
          s2c[c][i] \in 0..m \cup {(Len(file[c]) + 1) % OperationBase}
Opened(c) == \E m \in 0..Len(file[c]) : OpenedWith(c, m)

\* The inductive invariant, beside TypeInvariant.  Proved for every network.
HostileInvariant ==
    \A c \in Clients : /\ IdleOK(c)
                       /\ ClientOK(c)
                       /\ FirstPut(c) => Unopened(c) \/ Opened(c)

-----------------------------------------------------------------------------
(* Facts about the data. *)

\* A file is a sequence of blocks.
LEMMA FilesAreSequences == \A f \in Files : f \in Seq(Blocks)
<1> SUFFICES ASSUME NEW k \in 0..MaxBlocks, NEW f \in [1..k -> Blocks]
             PROVE  f \in Seq(Blocks)
  BY DEF Files
<1>. QED
  BY ConstantsAssumption

\* The bounds of the loops are natural numbers.
LEMMA Bounds == MaxPuts \in Nat /\ NumSends \in Nat /\ NumSends > 0
BY ConstantsAssumption

LEMMA AnyNameType == AnyName \in Names
BY ConstantsAssumption DEF AnyName

\* Packet builds a packet.
LEMMA PacketType ==
    ASSUME NEW n \in Nat, NEW data \in Payloads
    PROVE  Packet(n, data) \in PacketSet
BY ModFacts DEF Packet, PacketSet

LEMMA ZeroType == 0 \in 0..OperationBase-1
BY BaseAssumption

\* Appending to and taking the head off a queue keep its type.
LEMMA QueueTypes ==
    ASSUME NEW S, NEW q \in [Clients -> Seq(S)], NEW c \in Clients
    PROVE  /\ \A e \in S : [q EXCEPT ![c] = Append(@, e)] \in [Clients -> Seq(S)]
           /\ q[c] # <<>> => /\ Head(q[c]) \in S
                             /\ [q EXCEPT ![c] = Tail(@)] \in [Clients -> Seq(S)]
OBVIOUS

LEMMA SwappedType ==
    ASSUME NEW S, NEW q \in Seq(S), NEW i \in 1..Len(q)-1
    PROVE  Swapped(q, i) \in Seq(S)
<1>1. Swapped(q, i) \in [1..Len(q) -> S]
  BY DEF Swapped
<1>. QED
  BY <1>1, SeqDef

-----------------------------------------------------------------------------
(* The type invariant. *)

LEMMA TypeInit == Init => TypeInvariant
<1> SUFFICES ASSUME Init PROVE TypeInvariant
  OBVIOUS
<1>1. <<>> \in Files
  <2>1. <<>> \in [1..0 -> Blocks]
    OBVIOUS
  <2>. QED
    BY <2>1, ConstantsAssumption DEF Files
<1>2. Packet(0, LastPacket) \in PacketSet
  BY PacketType DEF Payloads
<1>3. TypeOK
  BY <1>1, <1>2, AnyNameType, ZeroType, ConstantsAssumption DEF Init, TypeOK
<1>. QED
  BY <1>3 DEF Init, TypeInvariant, ServerOK, LoopsOK

LEMMA TypePut ==
    ASSUME TypeInvariant, NEW c \in Clients, NEW n \in Names, NEW content \in Files,
           Put(c, n, content)
    PROVE  TypeInvariant'
<1> USE DEF TypeInvariant
<1>1. Packet(0, Command(n)) \in PacketSet
  BY PacketType DEF Payloads, Commands
<1>2. c2s' \in [Clients -> Seq(PacketSet)]
  BY <1>1, QueueTypes DEF TypeOK, Put
<1>3. puts' \in [Clients -> 0..MaxPuts]
  <2>1. puts \in [Clients -> 0..MaxPuts] /\ puts[c] < MaxPuts
    BY DEF TypeOK, Put
  <2>2. puts[c] + 1 \in 0..MaxPuts
    BY <2>1, Bounds
  <2>3. puts' = [puts EXCEPT ![c] = puts[c] + 1]
    BY DEF Put
  <2>. QED
    BY <2>1, <2>2, <2>3
<1>4. TypeOK'
  BY <1>1, <1>2, <1>3 DEF TypeOK, Put, serverVars
<1>. QED
  BY SMTT(30), <1>4 DEF TypeOK, ServerOK, LoopsOK, Put, serverVars

LEMMA TypeFormatBuf ==
    ASSUME TypeInvariant, NEW c \in Clients, FormatBuf(c)
    PROVE  TypeInvariant'
<1> USE DEF TypeInvariant
<1> DEFINE data == IF packetNum[c] > Len(file[c]) THEN LastPacket
                                                  ELSE file[c][packetNum[c]]
<1>1. packetNum[c] \in Nat /\ packetNum[c] > 0 /\ file[c] \in Seq(Blocks)
  BY FilesAreSequences DEF TypeOK, LoopsOK, FormatBuf
<1>2. data \in Payloads
  BY <1>1 DEF Payloads
<1>3. Packet(packetNum[c], data) \in PacketSet
  BY <1>1, <1>2, PacketType
<1>4. numSends' \in [Clients -> 0..NumSends] /\ isEOF' \in [Clients -> BOOLEAN]
  <2>1. 0 \in 0..NumSends
    BY Bounds
  <2>. QED
    BY <1>1, <2>1 DEF TypeOK, FormatBuf
<1>5. packetNum' \in [Clients -> Nat] /\ packet' \in [Clients -> PacketSet]
  BY <1>1, <1>3 DEF TypeOK, FormatBuf
<1>6. TypeOK'
  BY <1>4, <1>5 DEF TypeOK, FormatBuf, serverVars
<1>. QED
  BY <1>1, <1>6, Bounds DEF TypeOK, ServerOK, LoopsOK, FormatBuf, serverVars

LEMMA TypeSendPacket ==
    ASSUME TypeInvariant, NEW c \in Clients, SendPacket(c)
    PROVE  TypeInvariant'
<1> USE DEF TypeInvariant
<1>1. c2s' \in [Clients -> Seq(PacketSet)]
  BY QueueTypes DEF TypeOK, SendPacket
<1>2. numListens' \in [Clients -> 0..NumSends]
  <2>1. 0 \in 0..NumSends
    BY Bounds
  <2>. QED
    BY <2>1 DEF TypeOK, SendPacket
<1>3. TypeOK'
  BY <1>1, <1>2 DEF TypeOK, SendPacket, serverVars
<1>. QED
  BY <1>3, Bounds DEF TypeOK, ServerOK, LoopsOK, SendPacket, serverVars

\* What both outcomes of a listen do to the types, whatever was heard.
LEMMA TypeListen ==
    ASSUME TypeInvariant, NEW c \in Clients, cpc[c] = "listen",
           Acknowledged(c) \/ NotAcknowledged(c),
           UNCHANGED <<name, file, packetNum, packet, isEOF, puts, serverVars, c2s>>,
           s2c' \in [Clients -> Seq(0..OperationBase-1)]
    PROVE  TypeInvariant'
<1> USE DEF TypeInvariant
<1>1. numSends[c] + 1 \in 0..NumSends /\ numListens[c] + 1 \in 0..NumSends
  <2>1. /\ numSends[c] \in 0..NumSends /\ numSends[c] < NumSends
        /\ numListens[c] \in 0..NumSends /\ numListens[c] < NumSends
    BY DEF TypeOK, LoopsOK
  <2>. QED
    BY <2>1, Bounds
<1>2. CASE Acknowledged(c)
  <2>1. TypeOK'
    BY <1>1, <1>2 DEF TypeOK, Acknowledged, serverVars
  <2>. QED
    BY SMTT(20), <2>1, <1>1, <1>2 DEF TypeOK, ServerOK, LoopsOK, Acknowledged, serverVars
<1>3. CASE NotAcknowledged(c)
  <2>1. TypeOK'
    BY <1>1, <1>3 DEF TypeOK, NotAcknowledged, serverVars
  <2>2. /\ cpc'[c] \in {"send", "listen"} => numSends'[c] < NumSends
        /\ cpc'[c] = "listen" => numListens'[c] < NumSends
        /\ cpc'[c] # "read"
    BY <1>1, <1>3, Bounds DEF TypeOK, LoopsOK, NotAcknowledged
  <2>. QED
    BY <2>1, <2>2, <1>3 DEF TypeOK, ServerOK, LoopsOK, NotAcknowledged, serverVars
<1>. QED
  BY <1>2, <1>3

LEMMA TypeReceiveAck ==
    ASSUME TypeInvariant, NEW c \in Clients, ReceiveAck(c)
    PROVE  TypeInvariant'
<1>1. s2c' \in [Clients -> Seq(0..OperationBase-1)]
  BY QueueTypes DEF TypeInvariant, TypeOK, ReceiveAck
<1>. QED
  BY <1>1, TypeListen DEF ReceiveAck

LEMMA TypeListenTimeout ==
    ASSUME TypeInvariant, NEW c \in Clients, ListenTimeout(c)
    PROVE  TypeInvariant'
BY TypeListen DEF ListenTimeout, TypeInvariant, TypeOK

LEMMA TypeReceiveCommand ==
    ASSUME TypeInvariant, NEW c \in Clients, ReceiveCommand(c)
    PROVE  TypeInvariant'
<1> USE DEF TypeInvariant
<1> DEFINE data == Head(c2s[c]).data
<1>1. c2s' \in [Clients -> Seq(PacketSet)]
  BY QueueTypes DEF TypeOK, ReceiveCommand
<1>2. CASE data \in Commands /\ OpenFile(data.put)
  <2>1. data.put \in Names
    BY <1>2 DEF Commands, Command
  <2>2. disk' \in [Names -> Seq(Payloads)]
    BY <1>2, <2>1 DEF TypeOK, OpenFile
  <2>3. TypeOK'
    BY <1>1, <1>2, <2>1, <2>2, ZeroType
    DEF TypeOK, ReceiveCommand, OpenFile, clientVars
  <2>. QED
    BY <2>3, ConstantsAssumption
    DEF TypeOK, ServerOK, LoopsOK, ReceiveCommand, clientVars
<1>3. CASE UNCHANGED <<spc, inputFile, disk, prevPacketNum>>
  <2>1. TypeOK'
    BY <1>1, <1>3 DEF TypeOK, ReceiveCommand, clientVars
  <2>. QED
    BY <2>1, ConstantsAssumption
    DEF TypeOK, ServerOK, LoopsOK, ReceiveCommand, clientVars
<1>. QED
  BY <1>2, <1>3 DEF ReceiveCommand

\* Acknowledging a packet keeps the type of the acknowledgement queues.
LEMMA TypeAcknowledge ==
    ASSUME TypeInvariant, spc = "receiving",
           NEW n \in 0..OperationBase-1, SendAcknowledgement(n)
    PROVE  s2c' \in [Clients -> Seq(0..OperationBase-1)]
<1>1. peer \in Clients
  BY DEF TypeInvariant, TypeOK, ServerOK
<1>. QED
  BY <1>1, QueueTypes DEF TypeInvariant, TypeOK, SendAcknowledgement

LEMMA TypeReceivePacket ==
    ASSUME TypeInvariant, NEW c \in Clients, ReceivePacket(c)
    PROVE  TypeInvariant'
<1> USE DEF TypeInvariant
<1> DEFINE p == Head(c2s[c])
<1>1. p \in PacketSet /\ c2s' \in [Clients -> Seq(PacketSet)]
  BY QueueTypes DEF TypeOK, ReceivePacket
<1>2. p.num \in 0..OperationBase-1 /\ p.data \in Payloads
  BY <1>1 DEF PacketSet
<1>3. s2c' \in [Clients -> Seq(0..OperationBase-1)]
  BY <1>2, TypeAcknowledge DEF ReceivePacket
<1>4. spc' \in {"command", "receiving"} /\ prevPacketNum' \in 0..OperationBase-1
  BY <1>2 DEF TypeOK, ReceivePacket
<1>5. disk' \in [Names -> Seq(Payloads)]
  <2>1. disk \in [Names -> Seq(Payloads)] /\ inputFile \in Names
    BY DEF TypeOK
  <2>2. [disk EXCEPT ![inputFile] = Append(@, p.data)] \in [Names -> Seq(Payloads)]
    BY <2>1, <1>2
  <2>. QED
    BY <2>1, <2>2 DEF ReceivePacket
<1>6. TypeOK'
  BY <1>1, <1>3, <1>4, <1>5 DEF TypeOK, ReceivePacket, clientVars
<1>. QED
  BY <1>6 DEF ServerOK, LoopsOK, ReceivePacket, clientVars

LEMMA TypeReceiveBadChecksum ==
    ASSUME TypeInvariant, NEW c \in Clients, ReceiveBadChecksum(c)
    PROVE  TypeInvariant'
<1> USE DEF TypeInvariant
<1>1. c2s' \in [Clients -> Seq(PacketSet)]
  BY QueueTypes DEF TypeOK, ReceiveBadChecksum
<1>2. s2c' \in [Clients -> Seq(0..OperationBase-1)]
  BY ZeroType, TypeAcknowledge DEF ReceiveBadChecksum
<1>3. TypeOK'
  BY <1>1, <1>2, ZeroType DEF TypeOK, ReceiveBadChecksum, clientVars
<1>. QED
  BY <1>3 DEF ServerOK, LoopsOK, ReceiveBadChecksum, clientVars

\* The network changes nothing but the queues.
LEMMA TypeNetwork ==
    ASSUME TypeInvariant, UNCHANGED <<clientVars, serverVars>>,
           c2s' \in [Clients -> Seq(PacketSet)],
           s2c' \in [Clients -> Seq(0..OperationBase-1)]
    PROVE  TypeInvariant'
<1>1. TypeOK'
  BY DEF TypeInvariant, TypeOK, clientVars, serverVars
<1>. QED
  BY <1>1 DEF TypeInvariant, ServerOK, LoopsOK, clientVars, serverVars

LEMMA TypeLoseDatagram ==
    ASSUME TypeInvariant, NEW c \in Clients, LoseDatagram(c)
    PROVE  TypeInvariant'
<1>0. /\ c2s \in [Clients -> Seq(PacketSet)]
      /\ s2c \in [Clients -> Seq(0..OperationBase-1)]
  BY DEF TypeInvariant, TypeOK
<1>1. c2s[c] # <<>> => [c2s EXCEPT ![c] = Tail(@)] \in [Clients -> Seq(PacketSet)]
  BY <1>0, QueueTypes
<1>2. s2c[c] # <<>> =>
        [s2c EXCEPT ![c] = Tail(@)] \in [Clients -> Seq(0..OperationBase-1)]
  BY <1>0, QueueTypes
<1>3. /\ c2s' \in [Clients -> Seq(PacketSet)]
      /\ s2c' \in [Clients -> Seq(0..OperationBase-1)]
  BY <1>0, <1>1, <1>2 DEF LoseDatagram
<1>. QED
  BY <1>3, TypeNetwork DEF LoseDatagram

LEMMA TypeReorder ==
    ASSUME TypeInvariant, NEW c \in Clients, Reorder(c)
    PROVE  TypeInvariant'
<1>0. /\ c2s \in [Clients -> Seq(PacketSet)]
      /\ s2c \in [Clients -> Seq(0..OperationBase-1)]
  BY DEF TypeInvariant, TypeOK
<1>1. \A i \in 1 .. Len(c2s[c])-1 : Swapped(c2s[c], i) \in Seq(PacketSet)
  BY <1>0, SwappedType
<1>2. \A i \in 1 .. Len(s2c[c])-1 : Swapped(s2c[c], i) \in Seq(0..OperationBase-1)
  BY <1>0, SwappedType
<1>3. /\ c2s' \in [Clients -> Seq(PacketSet)]
      /\ s2c' \in [Clients -> Seq(0..OperationBase-1)]
  BY <1>0, <1>1, <1>2 DEF Reorder
<1>. QED
  BY <1>3, TypeNetwork DEF Reorder

LEMMA TypeStep == TypeInvariant /\ [Next]_vars => TypeInvariant'
<1> SUFFICES ASSUME TypeInvariant, [Next]_vars PROVE TypeInvariant'
  OBVIOUS
<1>1. CASE UNCHANGED vars
  BY <1>1 DEF vars, clientVars, serverVars, TypeInvariant, TypeOK, ServerOK, LoopsOK
<1>2. CASE Next
  <2> SUFFICES ASSUME NEW c \in Clients,
                      \/ \E n \in Names, content \in Files : Put(c, n, content)
                      \/ ClientStep(c)
                      \/ ServerStep(c)
                      \/ LoseDatagram(c)
                      \/ Reorder(c)
               PROVE  TypeInvariant'
    BY <1>2 DEF Next
  <2>1. CASE \E n \in Names, content \in Files : Put(c, n, content)
    BY <2>1, TypePut
  <2>2. CASE ClientStep(c)
    BY <2>2, TypeFormatBuf, TypeSendPacket, TypeReceiveAck, TypeListenTimeout
    DEF ClientStep
  <2>3. CASE ServerStep(c)
    BY <2>3, TypeReceiveCommand, TypeReceivePacket, TypeReceiveBadChecksum
    DEF ServerStep
  <2>4. CASE LoseDatagram(c)
    BY <2>4, TypeLoseDatagram
  <2>5. CASE Reorder(c)
    BY <2>5, TypeReorder
  <2>. QED
    BY <2>1, <2>2, <2>3, <2>4, <2>5
<1>. QED
  BY <1>1, <1>2

\* Every variable keeps its type on any network: the loop counters never pass
\* NUMSENDS, no packet carries a number a signed char cannot hold, and the server
\* never acknowledges before it knows a client.
THEOREM TypeCorrect == Spec => []TypeOK
<1>1. Spec => []TypeInvariant
  BY TypeInit, TypeStep, PTL DEF Spec
<1>2. TypeInvariant => TypeOK
  BY DEF TypeInvariant
<1>. QED
  BY <1>1, <1>2, PTL

-----------------------------------------------------------------------------
(* Queues that hold old elements, then new ones. *)

LEMMA HeadTail ==
    ASSUME NEW S, NEW q \in Seq(S), q # <<>>
    PROVE  /\ Head(q) = q[1] /\ 1 \in DOMAIN q
           /\ \A i \in DOMAIN Tail(q) : i + 1 \in DOMAIN q /\ Tail(q)[i] = q[i+1]
           /\ DOMAIN Tail(q) \subseteq Nat \ {0}
OBVIOUS

LEMMA AppendEntries ==
    ASSUME NEW S, NEW q \in Seq(S), NEW e \in S
    PROVE  \A i \in DOMAIN Append(q, e) :
              \/ i \in DOMAIN q /\ Append(q, e)[i] = q[i]
              \/ /\ i = Len(q) + 1 /\ Append(q, e)[i] = e
                 /\ \A j \in DOMAIN q : j < i
OBVIOUS

\* The head is old or new, and the tail is still old elements, then new ones.
LEMMA OldThenNewTail ==
    ASSUME NEW S, NEW q \in Seq(S), q # <<>>, NEW old, NEW new,
           OldThenNew(q, old, new)
    PROVE  Head(q) \in old \cup new /\ OldThenNew(Tail(q), old, new)
<1> USE DEF OldThenNew
<1>1. Head(q) \in old \cup new
  BY HeadTail
<1>2. \A i \in DOMAIN Tail(q) : Tail(q)[i] \in old \cup new
  BY HeadTail
<1>3. ASSUME NEW i \in DOMAIN Tail(q), NEW j \in DOMAIN Tail(q),
             i < j, Tail(q)[i] \in new
      PROVE  Tail(q)[j] \in new
  BY <1>3, HeadTail
<1>. QED
  BY <1>1, <1>2, <1>3

\* Behind a new element everything is new.
LEMMA OldThenNewHead ==
    ASSUME NEW S, NEW q \in Seq(S), q # <<>>, NEW old, NEW new,
           OldThenNew(q, old, new), Head(q) \in new
    PROVE  OldThenNew(Tail(q), new, {})
<1>1. ASSUME NEW i \in DOMAIN Tail(q)
      PROVE  Tail(q)[i] \in new
  <2>1. i + 1 \in DOMAIN q /\ Tail(q)[i] = q[i+1] /\ 1 < i + 1 /\ q[1] \in new
    BY HeadTail
  <2>. QED
    BY <2>1, HeadTail DEF OldThenNew
<1>. QED
  BY <1>1 DEF OldThenNew

LEMMA OldThenNewAppend ==
    ASSUME NEW S, NEW q \in Seq(S), NEW e \in S, NEW old, NEW new,
           OldThenNew(q, old, new),
           e \in new \/ (e \in old /\ new = {})
    PROVE  OldThenNew(Append(q, e), old, new)
<1> USE DEF OldThenNew
<1>1. \A i \in DOMAIN Append(q, e) : Append(q, e)[i] \in old \cup new
  BY AppendEntries
<1>2. ASSUME NEW i \in DOMAIN Append(q, e), NEW j \in DOMAIN Append(q, e),
             i < j, Append(q, e)[i] \in new
      PROVE  Append(q, e)[j] \in new
  <2>1. CASE i \in DOMAIN q /\ j \in DOMAIN q
    BY <1>2, <2>1, AppendEntries
  <2>2. CASE j \notin DOMAIN q
    BY <1>2, <2>2, AppendEntries
  <2>3. CASE i \notin DOMAIN q
    BY <1>2, <2>3, AppendEntries
  <2>. QED
    BY <2>1, <2>2, <2>3
<1>. QED
  BY <1>1, <1>2

\* A queue of old elements only may be seen as waiting for new ones.
LEMMA OldThenNewNext ==
    ASSUME NEW q, NEW old, NEW new, OldThenNew(q, old, {}), old \cap new = {}
    PROVE  OldThenNew(q, old, new)
BY DEF OldThenNew

LEMMA OldThenNewEmpty ==
    ASSUME NEW old, NEW new
    PROVE  OldThenNew(<<>>, old, new)
BY DEF OldThenNew

LEMMA OldThenOneTail ==
    ASSUME NEW S, NEW q \in Seq(S), q # <<>>, NEW old, NEW last,
           OldThenOne(q, old, last)
    PROVE  /\ OldThenOne(Tail(q), old, last)
           /\ Head(q) = IF Tail(q) = <<>> THEN last ELSE old
<1>1. \A i \in DOMAIN Tail(q) : i = Len(Tail(q)) <=> i + 1 = Len(q)
  OBVIOUS
<1>2. Tail(q) = <<>> <=> Len(q) = 1
  <2>1. Tail(q) \in Seq(S) /\ Len(Tail(q)) = Len(q) - 1 /\ Len(q) \in Nat
    BY HeadTailProperties
  <2>2. Tail(q) = <<>> <=> Len(Tail(q)) = 0
    BY <2>1, EmptySeq
  <2>. QED
    BY <2>1, <2>2
<1>. QED
  BY <1>1, <1>2, HeadTail DEF OldThenOne

\* Old acknowledgements, and behind them the one of LASTPACKET.
LEMMA OldThenOneAppend ==
    ASSUME NEW S, NEW q \in Seq(S), NEW old, NEW last \in S,
           OldThenNew(q, {old}, {})
    PROVE  OldThenOne(Append(q, last), old, last)
<1>1. \A i \in DOMAIN q : q[i] = old /\ i # Len(Append(q, last))
  BY DEF OldThenNew
<1>. QED
  BY <1>1, AppendEntries DEF OldThenOne

-----------------------------------------------------------------------------
(* The inductive invariant, on a network that keeps the order. *)

LEMMA StateTypes ==
    ASSUME TypeInvariant, NEW c \in Clients
    PROVE  /\ file[c] \in Seq(Blocks) /\ Len(file[c]) \in Nat
           /\ packetNum[c] \in Nat /\ puts[c] \in Nat
           /\ c2s[c] \in Seq(PacketSet)
           /\ s2c[c] \in Seq(0..OperationBase-1)
           /\ disk[name[c]] \in Seq(Payloads)
           /\ Written(c) \in Nat /\ Built(c) \in Int
           /\ gaveUp[c] \in BOOLEAN /\ isEOF[c] \in BOOLEAN
<1>1. file[c] \in Seq(Blocks) /\ disk[name[c]] \in Seq(Payloads)
  BY FilesAreSequences DEF TypeInvariant, TypeOK
<1>2. packetNum[c] \in Nat /\ puts[c] \in Nat
  BY Bounds DEF TypeInvariant, TypeOK
<1>. QED
  BY SMTT(30), <1>1, <1>2 DEF TypeInvariant, TypeOK, Written, Built

LEMMA PutPacketFacts ==
    ASSUME TypeInvariant, NEW c \in Clients, NEW i \in Nat \ {0}
    PROVE  /\ PutPacket(c, i) \in PacketSet
           /\ PutPacket(c, i).num = i % OperationBase
           /\ PutPacket(c, i).data = IF i > Len(file[c]) THEN LastPacket
                                                         ELSE file[c][i]
           /\ PutPacket(c, i).data \notin Commands
           /\ PutPacket(c, i).data = LastPacket <=> i > Len(file[c])
           /\ PutPacket(c, i) # PutPacket(c, i + 1)
<1> DEFINE data == IF i > Len(file[c]) THEN LastPacket ELSE file[c][i]
<1>1. i <= Len(file[c]) => file[c][i] \in Blocks
  BY StateTypes
<1>2. data \in Payloads /\ data \notin Commands
      /\ (data = LastPacket <=> i > Len(file[c]))
  BY <1>1, StateTypes, ConstantsAssumption DEF Payloads
<1>3. PutPacket(c, i) \in PacketSet
  BY <1>2, PacketType DEF PutPacket
<1>4. PutPacket(c, i).num = i % OperationBase /\ PutPacket(c, i).data = data
  BY DEF PutPacket, Packet
<1>5. PutPacket(c, i + 1).num = (i + 1) % OperationBase
  BY DEF PutPacket, Packet
<1>6. PutPacket(c, i) # PutPacket(c, i + 1)
  BY <1>4, <1>5, SuccessorsDiffer
<1>. QED
  BY <1>2, <1>3, <1>4, <1>6

\* Another client than the one that has put something is not alone.
LEMMA OthersOK ==
    ASSUME NEW c \in Clients, puts'[c] # 0
    PROVE  \A d \in Clients \ {c} : PutOK(d)'
BY DEF PutOK, Clean, Solo

LEMMA PutFormatBuf ==
    ASSUME TypeInvariant, PutInvariant, NEW c \in Clients, FormatBuf(c)
    PROVE  PutInvariant'
<1>1. /\ IdleOK(c) /\ ClientOK(c) /\ PutOK(c)
      /\ cpc[c] = "read" /\ cpc' = [cpc EXCEPT ![c] = "send"]
      /\ packetNum' = [packetNum EXCEPT ![c] = packetNum[c] + 1]
      /\ UNCHANGED <<name, file, numListens, puts, gaveUp, serverVars, c2s, s2c>>
  BY DEF PutInvariant, FormatBuf
<1>2. puts[c] > 0
  BY <1>1, StateTypes DEF IdleOK
<1>3. cpc'[c] = "send" /\ Built(c)' = Built(c) + 1
  BY <1>1, StateTypes DEF TypeInvariant, TypeOK, Built
<1>4. \A d \in Clients : IdleOK(d)'
  BY <1>1, <1>2, StateTypes DEF PutInvariant, IdleOK, TypeInvariant, TypeOK, serverVars
<1>5. \A d \in Clients \ {c} : ClientOK(d)'
  <2> SUFFICES ASSUME NEW d \in Clients \ {c} PROVE ClientOK(d)'
    OBVIOUS
  <2>1. ClientOK(d)
    BY DEF PutInvariant
  <2>2. /\ cpc'[d] = cpc[d] /\ packetNum'[d] = packetNum[d] /\ file'[d] = file[d]
        /\ packet'[d] = packet[d] /\ isEOF'[d] = isEOF[d]
    BY DEF FormatBuf, TypeInvariant, TypeOK
  <2>. QED
    BY <2>1, <2>2 DEF ClientOK, Built, PutPacket
<1>6. ClientOK(c)'
  <2>1. /\ isEOF'[c] = (packetNum[c] > Len(file[c]))
        /\ packet'[c] = PutPacket(c, packetNum[c])
    BY DEF FormatBuf, TypeInvariant, TypeOK, PutPacket
  <2>2. packetNum[c] = Built(c)' /\ file' = file
    BY <1>1, <1>3, StateTypes DEF Built
  <2>3. Built(c) \in 0..Len(file[c])
    BY <1>1 DEF ClientOK
  <2>. QED
    BY <1>3, <2>1, <2>2, <2>3, StateTypes DEF ClientOK, PutPacket
<1>7. PutOK(c)'
  <2> SUFFICES ASSUME Opening(c) \/ Storing(c) \/ Stored(c)
               PROVE  Opening(c)' \/ Storing(c)'
    BY <1>1, <1>2 DEF PutOK, Clean, Solo
  <2>1. CASE Opening(c)
    <3>1. Built(c) = 0 /\ Built(c)' = 1
      BY <1>1, <1>3, <2>1 DEF Opening
    <3>. QED
      BY <1>1, <1>3, <2>1, <3>1 DEF Opening, serverVars
  <2>2. CASE Storing(c)
    <3>1. Built(c) = Written(c) /\ Written(c)' = Written(c)
          /\ Built(c)' = Written(c) + 1 /\ Built(c)' \in Nat \ {0}
      BY <1>1, <1>3, <2>2, StateTypes DEF Storing, Written, serverVars
    <3>2. OldThenNew(c2s[c], OldPackets(c), {})
      BY <2>2, <3>1, StateTypes DEF Storing, NewPackets
    <3>3. OldPackets(c)' = OldPackets(c) /\ NewPackets(c)' = {PutPacket(c, Built(c) + 1)}
      BY <1>1, <1>3, <3>1, StateTypes DEF OldPackets, NewPackets, PutPacket
    <3>4. OldPackets(c) \cap {PutPacket(c, Built(c) + 1)} = {}
      BY <3>1, PutPacketFacts, StateTypes DEF OldPackets
    <3>5. OldThenNew(c2s[c], OldPackets(c)', NewPackets(c)')
      BY <3>2, <3>3, <3>4, OldThenNewNext
    <3>6. OldAcks(c) = {} /\ NewAcks(c)' = {}
      BY <1>1, <3>1, StateTypes DEF OldAcks, NewAcks
    <3>7. OldAcks(c)' = NewAcks(c)
      <4>0. Built(c) \in Int /\ Written(c) \in Nat
        BY StateTypes
      <4>1. Built(c)' - 1 = Built(c) /\ (Built(c)' > 1 <=> Written(c) > 0)
        BY <1>3, <3>1, <4>0
      <4>2. OldAcks(c)' = IF cpc'[c] # "read" /\ Built(c)' > 1
                             THEN {(Built(c)' - 1) % OperationBase} ELSE {}
        BY DEF OldAcks
      <4>3. OldAcks(c)' = IF Built(c)' > 1 THEN {Built(c) % OperationBase} ELSE {}
        BY <1>3, <4>1, <4>2, Zenon
      <4>. QED
        BY <3>1, <4>1, <4>3 DEF NewAcks
    <3>8. OldThenNew(s2c[c], OldAcks(c)', NewAcks(c)')
      BY <2>2, <3>6, <3>7 DEF Storing, OldThenNew
    <3>. QED
      BY <1>1, <1>3, <2>2, <3>1, <3>5, <3>8 DEF Storing, serverVars, Written
  <2>3. CASE Stored(c)
    BY <1>1, <2>3 DEF Stored
  <2>. QED
    BY <2>1, <2>2, <2>3
<1>. QED
  BY <1>2, <1>1, <1>4, <1>5, <1>6, <1>7, OthersOK DEF PutInvariant

LEMMA PutSendPacket ==
    ASSUME TypeInvariant, PutInvariant, NEW c \in Clients, SendPacket(c)
    PROVE  PutInvariant'
<1>1. /\ IdleOK(c) /\ ClientOK(c) /\ PutOK(c)
      /\ cpc[c] = "send" /\ cpc' = [cpc EXCEPT ![c] = "listen"]
      /\ c2s' = [c2s EXCEPT ![c] = Append(c2s[c], packet[c])]
      /\ UNCHANGED <<name, file, packetNum, packet, isEOF, puts, gaveUp,
                     serverVars, s2c>>
  BY DEF PutInvariant, SendPacket
<1>2. puts[c] > 0
  BY <1>1, StateTypes DEF IdleOK
<1>3. cpc'[c] = "listen" /\ Built(c)' = Built(c)
      /\ c2s'[c] = Append(c2s[c], PutPacket(c, Built(c)))
      /\ Built(c) \in 1..Len(file[c])+1 /\ Built(c) \in Nat \ {0}
  BY SMTT(30), <1>1, StateTypes DEF TypeInvariant, TypeOK, Built, ClientOK
<1>4. \A d \in Clients : IdleOK(d)'
  BY <1>1, <1>2, StateTypes DEF PutInvariant, IdleOK, TypeInvariant, TypeOK, serverVars
<1>5. \A d \in Clients : ClientOK(d)'
  BY <1>1 DEF PutInvariant, ClientOK, Built, PutPacket, TypeInvariant, TypeOK
<1>6. \A i : PutPacket(c, i)' = PutPacket(c, i)
  BY <1>1 DEF PutPacket
<1>7. PutOK(c)'
  <2> SUFFICES ASSUME Opening(c) \/ Storing(c) \/ Stored(c)
               PROVE  Opening(c)' \/ Storing(c)' \/ Stored(c)'
    BY <1>1, <1>2 DEF PutOK, Clean, Solo
  <2> DEFINE e == PutPacket(c, Built(c))
  <2>1. /\ e \in PacketSet /\ e.data \notin Commands
        /\ e.data = LastPacket <=> Built(c) > Len(file[c])
    BY <1>3, PutPacketFacts
  <2>2. CASE Opening(c)
    <3>1. Built(c) = 1
      BY <1>1, <2>2 DEF Opening
    <3>2. ASSUME NEW i \in DOMAIN c2s'[c], c2s'[c][i].data \in Commands
          PROVE  /\ c2s'[c][i] = Packet(0, Command(name[c]))
                 /\ \A j \in DOMAIN c2s'[c] : j > i => c2s'[c][j] = PutPacket(c, 1)
      <4>1. i \in DOMAIN c2s[c] /\ c2s'[c][i] = c2s[c][i]
        BY <1>3, <2>1, <3>2, StateTypes, AppendEntries
      <4>2. ASSUME NEW j \in DOMAIN c2s'[c], j > i
            PROVE  c2s'[c][j] = PutPacket(c, 1)
        BY SMTT(30), <1>3, <2>1, <2>2, <3>1, <3>2, <4>1, <4>2, StateTypes, AppendEntries DEF Opening
      <4>. QED
        BY <2>2, <3>2, <4>1, <4>2 DEF Opening
    <3>. QED
      BY <1>1, <1>3, <1>6, <2>2, <3>1, <3>2 DEF Opening, serverVars
  <2>3. CASE Storing(c)
    <3>1. /\ Written(c)' = Written(c)
          /\ OldPackets(c)' = OldPackets(c) /\ NewPackets(c)' = NewPackets(c)
          /\ OldAcks(c)' = OldAcks(c) /\ NewAcks(c)' = NewAcks(c)
      BY <1>1, <1>3, <1>6
      DEF OldPackets, NewPackets, OldAcks, NewAcks, Written, serverVars
    <3>2. e \in NewPackets(c) \/ (e \in OldPackets(c) /\ NewPackets(c) = {})
      BY <1>3, <2>3, StateTypes DEF Storing, NewPackets, OldPackets
    <3>3. OldThenNew(c2s'[c], OldPackets(c), NewPackets(c))
      BY <1>3, <2>1, <2>3, <3>2, StateTypes, OldThenNewAppend DEF Storing
    <3>. QED
      BY <1>1, <1>3, <2>3, <3>1, <3>3 DEF Storing, serverVars, Written
  <2>4. CASE Stored(c)
    <3>1. \A i \in DOMAIN c2s'[c] : c2s'[c][i].data = LastPacket
      BY <1>3, <2>1, <2>4, StateTypes, AppendEntries DEF Stored
    <3>. QED
      BY <1>1, <1>3, <2>4, <3>1 DEF Stored, serverVars
  <2>. QED
    BY <2>2, <2>3, <2>4
<1>. QED
  BY <1>2, <1>1, <1>4, <1>5, <1>7, OthersOK DEF PutInvariant

\* A queue of acknowledgements that is unchanged or has lost its head keeps
\* every shape the stages of a put speak of.
LEMMA FewerAcks ==
    ASSUME TypeInvariant, NEW c \in Clients,
           s2c'[c] = s2c[c] \/ (s2c[c] # <<>> /\ s2c'[c] = Tail(s2c[c]))
    PROVE  /\ s2c[c] = <<>> => s2c'[c] = <<>>
           /\ \A old, new : OldThenNew(s2c[c], old, new) => OldThenNew(s2c'[c], old, new)
           /\ \A old, one : OldThenOne(s2c[c], old, one) => OldThenOne(s2c'[c], old, one)
<1>1. s2c[c] \in Seq(0..OperationBase-1)
  BY StateTypes
<1>. QED
  BY <1>1, OldThenNewTail, OldThenOneTail

\* A listen without the awaited acknowledgement.
LEMMA PutNotAcknowledged ==
    ASSUME TypeInvariant, PutInvariant, NEW c \in Clients,
           cpc[c] = "listen", NotAcknowledged(c),
           UNCHANGED <<name, file, packetNum, packet, isEOF, puts, serverVars, c2s>>,
           \A d \in Clients \ {c} : s2c'[d] = s2c[d],
           s2c'[c] = s2c[c] \/ (s2c[c] # <<>> /\ s2c'[c] = Tail(s2c[c]))
    PROVE  PutInvariant'
<1>1. IdleOK(c) /\ ClientOK(c) /\ PutOK(c)
  BY DEF PutInvariant
<1>2. puts[c] > 0
  BY <1>1, StateTypes DEF IdleOK
<1>3. /\ cpc'[c] \in {"listen", "send", "prompt", "exited"}
      /\ cpc'[c] = "prompt" => gaveUp'[c]
      /\ cpc'[c] = "exited" => ~isEOF[c]
      /\ gaveUp[c] => gaveUp'[c]
      /\ \A d \in Clients \ {c} : cpc'[d] = cpc[d] /\ gaveUp'[d] = gaveUp[d]
  BY DEF NotAcknowledged, TypeInvariant, TypeOK
<1>4. \A d \in Clients : IdleOK(d)'
  BY <1>2, <1>3, StateTypes DEF PutInvariant, IdleOK, serverVars
<1>5. \A d \in Clients \ {c} : ClientOK(d)'
  BY <1>3 DEF PutInvariant, ClientOK, Built, PutPacket
<1>6. ClientOK(c)'
  BY <1>1, <1>3, StateTypes DEF ClientOK, Built, PutPacket
<1>7. PutOK(c)'
  <2> SUFFICES ASSUME Opening(c) \/ Storing(c) \/ Stored(c), cpc'[c] # "prompt"
               PROVE  Opening(c)' \/ Storing(c)' \/ Stored(c)'
    BY <1>1, <1>2, <1>3 DEF PutOK, Clean, Solo
  <2>1. Built(c)' = Built(c) /\ Written(c)' = Written(c)
        /\ \A i : PutPacket(c, i)' = PutPacket(c, i)
    BY DEF Built, Written, PutPacket, serverVars
  <2>2. CASE Opening(c)
    BY <1>3, <2>1, <2>2, FewerAcks DEF Opening, serverVars
  <2>3. CASE Storing(c)
    <3>1. /\ OldPackets(c)' = OldPackets(c) /\ NewPackets(c)' = NewPackets(c)
          /\ OldAcks(c)' = OldAcks(c) /\ NewAcks(c)' = NewAcks(c)
      BY <1>3, <2>1 DEF OldPackets, NewPackets, OldAcks, NewAcks
    <3>2. OldThenNew(s2c'[c], OldAcks(c), NewAcks(c))
      BY <2>3, FewerAcks DEF Storing
    <3>. QED
      BY <1>3, <2>1, <2>3, <3>1, <3>2 DEF Storing, serverVars
  <2>4. CASE Stored(c)
    <3>1. isEOF[c]
      BY <1>1, <2>4, StateTypes DEF Stored, ClientOK
    <3>2. cpc'[c] \in {"send", "listen"}
      BY <1>3, <3>1
    <3>. QED
      BY <2>1, <2>4, <3>2, FewerAcks DEF Stored, serverVars
  <2>. QED
    BY <2>2, <2>3, <2>4
<1>. QED
  BY <1>2, <1>1, <1>4, <1>5, <1>6, <1>7, OthersOK DEF PutInvariant

LEMMA PutListenTimeout ==
    ASSUME TypeInvariant, PutInvariant, NEW c \in Clients, ListenTimeout(c)
    PROVE  PutInvariant'
BY PutNotAcknowledged DEF ListenTimeout

\* The awaited acknowledgement: in Storing it is that of the block stored last,
\* in Stored that of LASTPACKET, and no other of either is behind it.
LEMMA PutReceiveAck ==
    ASSUME TypeInvariant, PutInvariant, NEW c \in Clients, ReceiveAck(c)
    PROVE  PutInvariant'
<1>1. /\ IdleOK(c) /\ ClientOK(c) /\ PutOK(c)
      /\ cpc[c] = "listen" /\ s2c[c] # <<>>
      /\ s2c' = [s2c EXCEPT ![c] = Tail(s2c[c])]
      /\ UNCHANGED <<name, file, packetNum, packet, isEOF, puts, serverVars, c2s>>
  BY DEF PutInvariant, ReceiveAck
<1>2. s2c'[c] = Tail(s2c[c]) /\ \A d \in Clients \ {c} : s2c'[d] = s2c[d]
  BY <1>1 DEF TypeInvariant, TypeOK
<1>3. CASE NotAcknowledged(c)
  BY <1>1, <1>2, <1>3, PutNotAcknowledged
<1>4. CASE MatchesAck(Head(s2c[c]), packetNum[c]) /\ Acknowledged(c)
  <2>1. puts[c] > 0
    BY <1>1, StateTypes DEF IdleOK
  <2>2. /\ cpc'[c] = IF isEOF[c] THEN "prompt" ELSE "read"
        /\ \A d \in Clients \ {c} : cpc'[d] = cpc[d]
        /\ UNCHANGED gaveUp
    BY <1>4 DEF Acknowledged, TypeInvariant, TypeOK
  <2>3. /\ Built(c) \in 1..Len(file[c])+1 /\ Built(c) \in Nat
        /\ isEOF[c] = (Built(c) > Len(file[c]))
    BY <1>1, StateTypes DEF ClientOK
  <2>4. Head(s2c[c]) = Built(c) % OperationBase
    <3>1. Head(s2c[c]) \in 0..OperationBase-1
      <4>1. s2c[c] \in Seq(0..OperationBase-1)
        BY StateTypes
      <4>. QED
        BY <1>1, <4>1, HeadTailProperties
    <3>2. packetNum[c] = Built(c) + 1
      BY StateTypes DEF Built
    <3>. QED
      BY <1>4, <2>3, <3>1, <3>2, AckMatchesSentPacket
  <2>5. (Built(c) - 1) % OperationBase # Built(c) % OperationBase
    <3>1. Built(c) - 1 \in Nat /\ (Built(c) - 1) + 1 = Built(c)
      BY <2>3
    <3>2. (Built(c) - 1) % OperationBase # ((Built(c) - 1) + 1) % OperationBase
      BY <3>1, SuccessorsDiffer
    <3>. QED
      BY <3>1, <3>2
  <2>6. \A d \in Clients : IdleOK(d)'
    BY <1>1, <1>2, <2>1, <2>2, StateTypes DEF PutInvariant, IdleOK, serverVars
  <2>7. \A d \in Clients \ {c} : ClientOK(d)'
    BY <1>1, <2>2 DEF PutInvariant, ClientOK, Built, PutPacket
  <2>8. ClientOK(c)'
    BY <1>1, <2>2, <2>3, StateTypes DEF ClientOK, Built
  <2>9. PutOK(c)'
    <3> SUFFICES ASSUME Opening(c) \/ Storing(c) \/ Stored(c)
                 PROVE  Storing(c)' \/ Stored(c)'
      BY <1>1, <2>1, <2>2 DEF PutOK, Clean, Solo
    <3>1. Built(c)' = Built(c) /\ Written(c)' = Written(c)
          /\ \A i : PutPacket(c, i)' = PutPacket(c, i)
      BY <1>1 DEF Built, Written, PutPacket, serverVars
    <3>2. CASE Opening(c)
      BY <1>1, <3>2 DEF Opening
    <3>3. CASE Storing(c)
      <4>1. Head(s2c[c]) \in OldAcks(c) \cup NewAcks(c)
        BY <1>1, <3>3, StateTypes, OldThenNewTail DEF Storing
      <4>2. Head(s2c[c]) \in NewAcks(c)
        BY <2>4, <2>5, <4>1 DEF OldAcks
      <4>3. Built(c) = Written(c) /\ Built(c) <= Len(file[c])
        BY <3>3, <4>2 DEF NewAcks, Storing
      <4>4. cpc'[c] = "read"
        BY <2>2, <2>3, <4>3, StateTypes
      <4>5. OldThenNew(s2c'[c], NewAcks(c), {})
        BY <1>1, <1>2, <3>3, <4>2, StateTypes, OldThenNewHead DEF Storing
      <4>6. OldAcks(c)' = {} /\ NewAcks(c)' = NewAcks(c)
        BY <3>1, <4>4 DEF OldAcks, NewAcks
      <4>7. OldThenNew(s2c'[c], OldAcks(c)', NewAcks(c)')
        BY <4>5, <4>6 DEF OldThenNew
      <4>8. OldPackets(c)' = OldPackets(c) /\ NewPackets(c)' = NewPackets(c)
        BY <3>1 DEF OldPackets, NewPackets
      <4>. QED
        BY <1>1, <3>1, <3>3, <4>3, <4>4, <4>7, <4>8 DEF Storing, serverVars
    <3>4. CASE Stored(c)
      <4>1. s2c'[c] = <<>>
        <5>1. s2c[c] \in Seq(0..OperationBase-1)
          BY StateTypes
        <5>2. OldThenOne(s2c[c], (Built(c) - 1) % OperationBase,
                                 Built(c) % OperationBase)
          BY <3>4 DEF Stored
        <5>3. Head(s2c[c]) = IF Tail(s2c[c]) = <<>> THEN Built(c) % OperationBase
                                          ELSE (Built(c) - 1) % OperationBase
          BY <1>1, <5>1, <5>2, OldThenOneTail
        <5>. QED
          BY <1>2, <2>4, <2>5, <5>3
      <4>2. cpc'[c] = "prompt"
        BY <2>2, <2>3, <3>4, StateTypes DEF Stored
      <4>. QED
        BY <1>1, <3>1, <3>4, <4>1, <4>2 DEF Stored, serverVars, OldThenOne
    <3>. QED
      BY <3>2, <3>3, <3>4
  <2>. QED
    BY <2>1, <1>1, <2>6, <2>7, <2>8, <2>9, OthersOK DEF PutInvariant
<1>. QED
  BY <1>3, <1>4 DEF ReceiveAck

\* A new put begins where nothing but old copies of LASTPACKET is on the way.
LEMMA PutPut ==
    ASSUME TypeInvariant, PutInvariant,
           NEW c \in Clients, NEW n \in Names, NEW content \in Files,
           Put(c, n, content)
    PROVE  PutInvariant'
<1>1. /\ IdleOK(c) /\ ClientOK(c) /\ PutOK(c)
      /\ cpc[c] = "prompt" /\ cpc' = [cpc EXCEPT ![c] = "read"]
      /\ puts' = [puts EXCEPT ![c] = puts[c] + 1]
      /\ packetNum' = [packetNum EXCEPT ![c] = 1]
      /\ name' = [name EXCEPT ![c] = n]
      /\ c2s' = [c2s EXCEPT ![c] = Append(c2s[c], Packet(0, Command(n)))]
      /\ UNCHANGED <<gaveUp, serverVars, s2c>>
  BY DEF PutInvariant, Put
<1>2. /\ puts'[c] > 0 /\ cpc'[c] = "read" /\ Built(c)' = 0 /\ name'[c] = n
      /\ c2s'[c] = Append(c2s[c], Packet(0, Command(n)))
  BY <1>1, StateTypes DEF TypeInvariant, TypeOK, Built
<1>3. \A d \in Clients : IdleOK(d)'
  BY SMTT(30), <1>1, <1>2, StateTypes DEF PutInvariant, IdleOK, TypeInvariant, TypeOK, serverVars
<1>4. \A d \in Clients \ {c} : ClientOK(d)'
  <2> SUFFICES ASSUME NEW d \in Clients \ {c} PROVE ClientOK(d)'
    OBVIOUS
  <2>1. /\ cpc'[d] = cpc[d] /\ packetNum'[d] = packetNum[d] /\ file'[d] = file[d]
        /\ packet'[d] = packet[d] /\ isEOF'[d] = isEOF[d]
    BY DEF Put, TypeInvariant, TypeOK
  <2>. QED
    BY <2>1 DEF PutInvariant, ClientOK, Built, PutPacket
<1>5. ClientOK(c)'
  <2>1. file'[c] = content /\ Len(content) \in Nat
    BY FilesAreSequences DEF Put, TypeInvariant, TypeOK
  <2>. QED
    BY <1>2, <2>1 DEF ClientOK
<1>6. PutOK(c)'
  <2> SUFFICES ASSUME Clean(c) PROVE Opening(c)'
    BY <1>1, <1>2, StateTypes DEF PutOK, Clean, Solo, TypeInvariant, TypeOK
  <2>1. spc = "command" /\ s2c[c] = <<>> /\ \A i \in DOMAIN c2s[c] : c2s[c][i].data = LastPacket
    <3>1. CASE puts[c] = 0
      <4>1. \A d \in Clients : peer # d
        BY <3>1 DEF PutInvariant, IdleOK, Clean, Solo
      <4>. QED
        BY <1>1, <3>1, <4>1 DEF IdleOK, TypeInvariant, TypeOK, ServerOK
    <3>2. CASE puts[c] > 0
      BY <1>1, <3>2 DEF PutOK, Opening, Storing, Stored
    <3>. QED
      BY <3>1, <3>2, StateTypes
  <2>2. Packet(0, Command(n)) \in PacketSet
    BY PacketType DEF Payloads, Commands
  <2>3. ASSUME NEW i \in DOMAIN c2s'[c], c2s'[c][i].data \in Commands
        PROVE  /\ c2s'[c][i] = Packet(0, Command(n))
               /\ \A j \in DOMAIN c2s'[c] : ~ j > i
    <3>1. i = Len(c2s[c]) + 1 /\ c2s'[c][i] = Packet(0, Command(n))
      BY <1>2, <2>1, <2>2, <2>3, StateTypes, AppendEntries, ConstantsAssumption
    <3>2. DOMAIN c2s'[c] = 1..Len(c2s[c])+1 /\ Len(c2s[c]) \in Nat
      BY <1>2, <2>2, StateTypes
    <3>. QED
      BY <3>1, <3>2
  <2>. QED
    BY <1>1, <1>2, <2>1, <2>3 DEF Opening, serverVars
<1>. QED
  BY <1>2, <1>3, <1>4, <1>5, <1>6, OthersOK DEF PutInvariant

\* What the steps of the server and of the network leave to the client.
LEMMA ClientUnchanged ==
    ASSUME TypeInvariant, UNCHANGED clientVars
    PROVE  /\ \A d \in Clients : ClientOK(d) => ClientOK(d)'
           /\ \A d \in Clients : Clean(d)' = Clean(d) /\ Built(d)' = Built(d)
           /\ \A d \in Clients : \A i : PutPacket(d, i)' = PutPacket(d, i)
BY DEF clientVars, ClientOK, Built, PutPacket, Clean, Solo

LEMMA PutReceiveCommand ==
    ASSUME TypeInvariant, PutInvariant, NEW c \in Clients, ReceiveCommand(c)
    PROVE  PutInvariant'
<1>1. /\ IdleOK(c) /\ ClientOK(c) /\ PutOK(c)
      /\ spc = "command" /\ c2s[c] # <<>> /\ peer' = c
      /\ c2s' = [c2s EXCEPT ![c] = Tail(c2s[c])]
      /\ UNCHANGED <<clientVars, s2c>>
  BY DEF PutInvariant, ReceiveCommand
<1>2. puts[c] > 0 /\ c2s'[c] = Tail(c2s[c])
  BY <1>1, StateTypes DEF IdleOK, TypeInvariant, TypeOK
<1>3. \A d \in Clients : IdleOK(d)'
  BY <1>1, <1>2, StateTypes DEF PutInvariant, IdleOK, TypeInvariant, TypeOK, clientVars
<1>4. \A d \in Clients : ClientOK(d)'
  BY <1>1, ClientUnchanged DEF PutInvariant
<1>5. PutOK(c)'
  <2> SUFFICES ASSUME Clean(c), Opening(c) \/ Stored(c)
               PROVE  Opening(c)' \/ Storing(c)' \/ Stored(c)'
    BY <1>1, <1>2, ClientUnchanged DEF PutOK, Storing, clientVars
  <2> DEFINE h == Head(c2s[c])
  <2>1. h = c2s[c][1] /\ 1 \in DOMAIN c2s[c] /\ c2s[c] \in Seq(PacketSet)
    BY <1>1, StateTypes, HeadTail
  <2>2. Built(c)' = Built(c) /\ \A i : PutPacket(c, i)' = PutPacket(c, i)
    BY <1>1, ClientUnchanged
  <2>3. CASE h.data \in Commands
    <3>1. CASE Opening(c)
      <4>1. h = Packet(0, Command(name[c])) /\ h.data.put = name[c]
        BY <2>1, <2>3, <3>1 DEF Opening, Packet, Command
      <4>2. /\ spc' = "receiving" /\ inputFile' = name[c] /\ prevPacketNum' = 0
            /\ disk' = [disk EXCEPT ![name[c]] = <<>>]
        BY <2>3, <4>1 DEF ReceiveCommand, OpenFile
      <4>3. disk'[name'[c]] = <<>> /\ Written(c)' = 0
        BY <1>1, <4>2 DEF Written, TypeInvariant, TypeOK, clientVars
      <4>4. \A i \in DOMAIN Tail(c2s[c]) :
                Built(c) = 1 /\ Tail(c2s[c])[i] = PutPacket(c, 1)
        <5> SUFFICES ASSUME NEW i \in DOMAIN Tail(c2s[c])
                     PROVE  Built(c) = 1 /\ Tail(c2s[c])[i] = PutPacket(c, 1)
          OBVIOUS
        <5>1. i + 1 \in DOMAIN c2s[c] /\ i + 1 > 1 /\ Tail(c2s[c])[i] = c2s[c][i+1]
          BY <1>1, <2>1, HeadTail
        <5>. QED
          BY <2>1, <2>3, <3>1, <5>1 DEF Opening
      <4>5. /\ OldPackets(c)' = {} /\ OldAcks(c)' = {} /\ NewAcks(c)' = {}
            /\ NewPackets(c)' = IF Built(c) > 0 THEN {PutPacket(c, Built(c))} ELSE {}
        <5>1. Built(c) \in {0, 1} /\ Built(c)' = Built(c)
          BY <2>2, <3>1 DEF Opening
        <5>2. ~(Written(c)' > 0) /\ ~(Built(c)' > 1)
          BY <4>3, <5>1
        <5>3. OldPackets(c)' = {} /\ OldAcks(c)' = {} /\ NewAcks(c)' = {}
          BY <5>2 DEF OldPackets, OldAcks, NewAcks
        <5>4. NewPackets(c)' = IF Built(c)' > Written(c)'
                                 THEN {PutPacket(c, Built(c))'} ELSE {}
          BY DEF NewPackets
        <5>5. PutPacket(c, Built(c))' = PutPacket(c, Built(c))
          BY <1>1, <5>1 DEF PutPacket, clientVars
        <5>. QED
          BY <4>3, <5>1, <5>3, <5>4, <5>5
      <4>6. OldThenNew(c2s'[c], OldPackets(c)', NewPackets(c)')
        BY <1>2, <4>4, <4>5 DEF OldThenNew
      <4>7. OldThenNew(s2c'[c], OldAcks(c)', NewAcks(c)')
        BY <1>1, <3>1, OldThenNewEmpty DEF Opening
      <4>8. prevPacketNum' = Written(c)' % OperationBase
        BY <4>2, <4>3, BaseAssumption
      <4>9. Built(c)' = Written(c)' \/ (Built(c)' = Written(c)' + 1 /\ cpc'[c] # "read")
        BY <1>1, <2>2, <3>1, <4>3 DEF Opening, clientVars
      <4>10. Len(file'[c]) \in Nat
        BY <1>1, StateTypes DEF clientVars
      <4>11. \A i \in 1..Written(c)' : disk'[name'[c]][i] = file'[c][i]
        BY <4>3
      <4>12. Storing(c)'
        BY <1>1, <3>1, <4>2, <4>3, <4>6, <4>7, <4>8, <4>9, <4>10, <4>11
        DEF Storing, Opening, clientVars
      <4>. QED
        BY <4>12
    <3>2. CASE Stored(c)
      BY <2>1, <2>3, <3>2, ConstantsAssumption DEF Stored
    <3>. QED
      BY <3>1, <3>2
  <2>4. CASE h.data \notin Commands
    <3>1. UNCHANGED <<spc, inputFile, disk, prevPacketNum>>
      BY <2>4 DEF ReceiveCommand
    <3>2. \A i \in DOMAIN c2s'[c] : i + 1 \in DOMAIN c2s[c] /\ c2s'[c][i] = c2s[c][i+1]
      BY <1>1, <1>2, <2>1, HeadTail
    <3>3. CASE Opening(c)
      <4>1. ASSUME NEW i \in DOMAIN c2s'[c], c2s'[c][i].data \in Commands,
                   NEW j \in DOMAIN c2s'[c], j > i
            PROVE  Built(c) = 1 /\ c2s'[c][j] = PutPacket(c, 1)
        <5>0. i \in Nat /\ j \in Nat
          BY <1>1, <1>2, <2>1, HeadTail
        <5>1. i + 1 \in DOMAIN c2s[c] /\ j + 1 \in DOMAIN c2s[c] /\ j + 1 > i + 1
          BY <3>2, <4>1, <5>0
        <5>. QED
          BY <3>2, <3>3, <4>1, <5>1 DEF Opening
      <4>2. ASSUME NEW i \in DOMAIN c2s'[c], c2s'[c][i].data \in Commands
            PROVE  c2s'[c][i] = Packet(0, Command(name[c]))
        BY <3>2, <3>3, <4>2 DEF Opening
      <4>3. Opening(c)'
        BY <1>1, <2>2, <3>1, <3>3, <4>1, <4>2 DEF Opening, clientVars
      <4>. QED
        BY <4>3
    <3>4. CASE Stored(c)
      <4>1. Stored(c)'
        BY <1>1, <2>2, <3>1, <3>2, <3>4 DEF Stored, clientVars
      <4>. QED
        BY <4>1
    <3>. QED
      BY <3>3, <3>4
  <2>. QED
    BY <2>3, <2>4
<1>. QED
  BY <1>1, <1>2, <1>3, <1>4, <1>5, OthersOK DEF PutInvariant, clientVars

\* The three outcomes of a datagram while the server writes: an old copy is only
\* acknowledged again, the next block is written, LASTPACKET ends the put.
LEMMA PutReceivePacket ==
    ASSUME TypeInvariant, PutInvariant, NEW c \in Clients, ReceivePacket(c)
    PROVE  PutInvariant'
<1> DEFINE p == Head(c2s[c])
<1>1. /\ IdleOK(c) /\ ClientOK(c) /\ PutOK(c)
      /\ spc = "receiving" /\ c2s[c] # <<>>
      /\ c2s' = [c2s EXCEPT ![c] = Tail(c2s[c])]
      /\ s2c' = [s2c EXCEPT ![peer] = Append(s2c[peer], p.num)]
      /\ UNCHANGED <<clientVars, peer, inputFile>>
  BY DEF PutInvariant, ReceivePacket, SendAcknowledgement
<1>2. puts[c] > 0 /\ c2s'[c] = Tail(c2s[c])
  BY <1>1, StateTypes DEF IdleOK, TypeInvariant, TypeOK
<1>3. \A d \in Clients : IdleOK(d)'
  <2> SUFFICES ASSUME NEW d \in Clients, puts[d] = 0
               PROVE  cpc[d] = "prompt" /\ c2s'[d] = <<>> /\ s2c'[d] = <<>> /\ peer # d
    BY <1>1 DEF IdleOK, clientVars
  <2>1. cpc[d] = "prompt" /\ c2s[d] = <<>> /\ s2c[d] = <<>> /\ peer # d /\ d # c
    BY <1>2 DEF PutInvariant, IdleOK
  <2>. QED
    BY <1>1, <2>1 DEF TypeInvariant, TypeOK
<1>4. \A d \in Clients : ClientOK(d)'
  BY <1>1, ClientUnchanged DEF PutInvariant
<1>5. PutOK(c)'
  <2> SUFFICES ASSUME Clean(c), Storing(c)
               PROVE  Storing(c)' \/ Stored(c)'
    BY <1>1, <1>2, ClientUnchanged DEF PutOK, Opening, Stored, clientVars
  <2> DEFINE w == Written(c)
             b == Built(c)
  <2>1. /\ c2s[c] \in Seq(PacketSet) /\ s2c[c] \in Seq(0..OperationBase-1)
        /\ w \in Nat /\ b \in Nat /\ (b = w \/ b = w + 1)
        /\ w <= Len(file[c]) /\ Len(file[c]) \in Nat
    BY StateTypes DEF Storing
  <2>2. /\ peer = c /\ inputFile = name[c] /\ prevPacketNum = w % OperationBase
        /\ s2c'[c] = Append(s2c[c], p.num)
    BY <1>1 DEF Storing, TypeInvariant, TypeOK
  <2>3. b' = b /\ (\A i : PutPacket(c, i)' = PutPacket(c, i))
        /\ cpc' = cpc /\ name' = name /\ file' = file
    BY <1>1, ClientUnchanged DEF clientVars
  <2>4. /\ p \in OldPackets(c) \cup NewPackets(c)
        /\ OldThenNew(Tail(c2s[c]), OldPackets(c), NewPackets(c))
        /\ p \in NewPackets(c) => OldThenNew(Tail(c2s[c]), NewPackets(c), {})
    BY <1>1, <2>1, OldThenNewTail, OldThenNewHead DEF Storing
  <2>5. OldThenNew(s2c[c], OldAcks(c), NewAcks(c))
    BY DEF Storing
  <2>6. CASE p \in OldPackets(c)
    <3>1. w > 0 /\ p = PutPacket(c, w)
      BY <2>6 DEF OldPackets
    <3>2. p.num = w % OperationBase /\ p.data # LastPacket /\ w % OperationBase \in 0..OperationBase-1
      <4>1. w \in Nat \ {0} /\ w <= Len(file[c])
        BY <2>1, <3>1
      <4>2. /\ PutPacket(c, w).num = w % OperationBase
            /\ PutPacket(c, w).data = LastPacket <=> w > Len(file[c])
        BY <4>1, PutPacketFacts
      <4>3. w % OperationBase \in 0..OperationBase-1
        BY <4>1, ModFacts
      <4>. QED
        BY <2>1, <3>1, <4>1, <4>2, <4>3
    <3>3. UNCHANGED <<spc, disk, prevPacketNum>>
      BY <2>2, <3>2 DEF ReceivePacket, IsUnique
    <3>4. Written(c)' = w
      BY <2>3, <3>3 DEF Written
    <3>5. /\ OldPackets(c)' = OldPackets(c) /\ NewPackets(c)' = NewPackets(c)
          /\ OldAcks(c)' = OldAcks(c) /\ NewAcks(c)' = NewAcks(c)
      BY <2>3, <3>4 DEF OldPackets, NewPackets, OldAcks, NewAcks
    <3>6. p.num \in NewAcks(c) \/ (p.num \in OldAcks(c) /\ NewAcks(c) = {})
      <4>1. CASE b = w
        BY <3>1, <3>2, <4>1 DEF NewAcks
      <4>2. CASE b = w + 1
        <5>1. b - 1 = w /\ b > 1 /\ b # w /\ cpc[c] # "read"
          BY <2>1, <3>1, <4>2 DEF Storing
        <5>. QED
          BY <3>2, <5>1 DEF OldAcks, NewAcks
      <4>. QED
        BY <2>1, <4>1, <4>2
    <3>7. OldThenNew(s2c'[c], OldAcks(c), NewAcks(c))
      BY <2>1, <2>2, <2>5, <3>2, <3>6, OldThenNewAppend
    <3>8. Storing(c)'
      BY <1>1, <1>2, <2>3, <2>4, <3>3, <3>4, <3>5, <3>7 DEF Storing
    <3>. QED
      BY <3>8
  <2>7. CASE p \in NewPackets(c)
    <3>1. b = w + 1 /\ p = PutPacket(c, b) /\ b \in Nat \ {0}
          /\ NewPackets(c) = {PutPacket(c, b)} /\ cpc[c] # "read"
      BY <2>1, <2>7 DEF NewPackets, Storing
    <3>2. /\ p.num = b % OperationBase /\ b % OperationBase \in 0..OperationBase-1
          /\ (p.data = LastPacket <=> b > Len(file[c]))
          /\ p.data = IF b > Len(file[c]) THEN LastPacket ELSE file[c][b]
          /\ p.data \in Payloads
      BY <3>1, PutPacketFacts, ModFacts DEF PacketSet
    <3>3. prevPacketNum # p.num
      BY <2>1, <2>2, <3>1, <3>2, SuccessorsDiffer
    <3>4. NewAcks(c) = {}
      BY <2>1, <3>1 DEF NewAcks
    <3>5. CASE b <= Len(file[c])
      <4>1. /\ spc' = spc /\ prevPacketNum' = b % OperationBase
            /\ disk' = [disk EXCEPT ![name[c]] = Append(disk[name[c]], file[c][b])]
        BY <2>2, <3>2, <3>3, <3>5, <2>1 DEF ReceivePacket, IsUnique
      <4>2. disk[name[c]] \in Seq(Payloads) /\ file[c][b] \in Payloads /\ name[c] \in Names
        <5>1. disk[name[c]] \in Seq(Payloads)
          BY StateTypes
        <5>2. name[c] \in Names
          BY DEF TypeInvariant, TypeOK
        <5>3. p.data = file[c][b]
          BY <3>2, <3>5, <2>1
        <5>. QED
          BY <3>2, <5>1, <5>2, <5>3
      <4>3. disk'[name[c]] = Append(disk[name[c]], file[c][b])
        BY <4>1, <4>2 DEF TypeInvariant, TypeOK
      <4>4. Written(c)' = b /\ b = w + 1
        BY <2>3, <3>1, <4>2, <4>3 DEF Written
      <4>5. \A i \in 1..b : disk'[name[c]][i] = file[c][i]
        BY <3>1, <2>1, <4>2, <4>3 DEF Written, Storing
      <4>6. OldPackets(c)' = NewPackets(c) /\ NewPackets(c)' = {}
        <5>1. OldPackets(c)' = IF Written(c)' > 0 THEN {PutPacket(c, Written(c))'} ELSE {}
          BY DEF OldPackets
        <5>2. PutPacket(c, Written(c))' = PutPacket(c, b)
          BY <2>3, <4>4 DEF PutPacket
        <5>3. NewPackets(c)' = {}
          BY <2>1, <2>3, <4>4 DEF NewPackets
        <5>. QED
          BY <2>1, <3>1, <4>4, <5>1, <5>2, <5>3
      <4>7. OldAcks(c)' = OldAcks(c) /\ NewAcks(c)' = {b % OperationBase}
        BY <2>1, <2>3, <3>1, <4>4 DEF OldAcks, NewAcks
      <4>8. OldAcks(c) \cap {b % OperationBase} = {}
        <5>1. CASE b > 1
          <6>1. b - 1 \in Nat /\ (b - 1) + 1 = b
            BY <2>1, <5>1
          <6>2. (b - 1) % OperationBase # ((b - 1) + 1) % OperationBase
            BY <6>1, SuccessorsDiffer
          <6>. QED
            BY <6>1, <6>2 DEF OldAcks
        <5>2. CASE ~(b > 1)
          BY <5>2 DEF OldAcks
        <5>. QED
          BY <5>1, <5>2
      <4>9. OldThenNew(s2c[c], OldAcks(c), {b % OperationBase})
        BY <2>5, <3>4, <4>8, OldThenNewNext
      <4>10. OldThenNew(s2c'[c], OldAcks(c), {b % OperationBase})
        BY <2>1, <2>2, <3>2, <4>9, OldThenNewAppend
      <4>11. Storing(c)'
        BY <1>1, <1>2, <2>1, <2>2, <2>3, <2>4, <2>7, <3>5, <4>1, <4>4, <4>5, <4>6, <4>7, <4>10
        DEF Storing
      <4>. QED
        BY <4>11
    <3>6. CASE b > Len(file[c])
      <4>1. spc' = "command" /\ UNCHANGED <<disk, prevPacketNum>>
        BY <3>2, <3>6 DEF ReceivePacket
      <4>2. b = Len(file[c]) + 1 /\ w = Len(file[c])
        BY <2>1, <3>1, <3>6
      <4>3. disk[name[c]] = file[c]
        <5>1. disk[name[c]] \in Seq(Payloads) /\ file[c] \in Seq(Payloads)
          BY StateTypes DEF Payloads
        <5>2. Len(disk[name[c]]) = Len(file[c])
              /\ \A i \in 1..Len(file[c]) : disk[name[c]][i] = file[c][i]
          BY <4>2 DEF Written, Storing
        <5>. QED
          BY <5>1, <5>2, SeqEqual
      <4>4. \A i \in DOMAIN c2s'[c] : c2s'[c][i].data = LastPacket
        BY <1>2, <2>4, <2>7, <3>1, <3>2, <3>6 DEF OldThenNew
      <4>5. OldThenNew(s2c[c], {(b - 1) % OperationBase}, {})
        BY <2>5, <3>4 DEF OldThenNew, OldAcks
      <4>6. OldThenOne(s2c'[c], (b - 1) % OperationBase, b % OperationBase)
        BY <2>1, <2>2, <3>2, <4>5, OldThenOneAppend
      <4>7. cpc[c] \in {"send", "listen"}
        BY <1>1, <2>1, <3>1, <3>6 DEF Storing, ClientOK
      <4>8. Stored(c)'
        BY <2>3, <4>1, <4>2, <4>3, <4>4, <4>6, <4>7 DEF Stored
      <4>. QED
        BY <4>8
    <3>. QED
      BY <2>1, <3>5, <3>6
  <2>. QED
    BY <2>4, <2>6, <2>7
<1>. QED
  BY <1>1, <1>2, <1>3, <1>4, <1>5, OthersOK DEF PutInvariant, clientVars

LEMMA PutLoseDatagram ==
    ASSUME TypeInvariant, PutInvariant, NEW c \in Clients, LoseDatagram(c)
    PROVE  PutInvariant'
<1>1. IdleOK(c) /\ ClientOK(c) /\ PutOK(c) /\ UNCHANGED <<clientVars, serverVars>>
  BY DEF PutInvariant, LoseDatagram
<1>2. /\ \/ c2s[c] # <<>> /\ c2s'[c] = Tail(c2s[c]) /\ s2c'[c] = s2c[c]
         \/ s2c[c] # <<>> /\ s2c'[c] = Tail(s2c[c]) /\ c2s'[c] = c2s[c]
      /\ \A d \in Clients \ {c} : c2s'[d] = c2s[d] /\ s2c'[d] = s2c[d]
  BY DEF LoseDatagram, TypeInvariant, TypeOK
<1>3. puts[c] > 0
  BY <1>1, <1>2, StateTypes DEF IdleOK
<1>4. \A d \in Clients : IdleOK(d)'
  BY <1>1, <1>2, <1>3, StateTypes DEF PutInvariant, IdleOK, clientVars, serverVars
<1>5. \A d \in Clients : ClientOK(d)'
  BY <1>1, ClientUnchanged DEF PutInvariant
<1>6. PutOK(c)'
  <2> SUFFICES ASSUME Opening(c) \/ Storing(c) \/ Stored(c)
               PROVE  Opening(c)' \/ Storing(c)' \/ Stored(c)'
    BY <1>1, <1>3, ClientUnchanged DEF PutOK, clientVars
  <2>1. /\ Built(c)' = Built(c) /\ Written(c)' = Written(c)
        /\ \A i : PutPacket(c, i)' = PutPacket(c, i)
        /\ OldPackets(c)' = OldPackets(c) /\ NewPackets(c)' = NewPackets(c)
        /\ OldAcks(c)' = OldAcks(c) /\ NewAcks(c)' = NewAcks(c)
    BY <1>1 DEF Built, Written, PutPacket, OldPackets, NewPackets, OldAcks, NewAcks,
                clientVars, serverVars
  <2>2. c2s[c] \in Seq(PacketSet) /\ s2c[c] \in Seq(0..OperationBase-1)
    BY StateTypes
  <2>3. CASE s2c[c] # <<>> /\ s2c'[c] = Tail(s2c[c]) /\ c2s'[c] = c2s[c]
    <3>1. Opening(c) => Opening(c)'
      BY <1>1, <2>1, <2>3 DEF Opening, clientVars, serverVars
    <3>2. Storing(c) => Storing(c)'
      BY <1>1, <2>1, <2>3, FewerAcks DEF Storing, clientVars, serverVars
    <3>3. Stored(c) => Stored(c)'
      BY <1>1, <2>1, <2>3, FewerAcks DEF Stored, clientVars, serverVars
    <3>. QED
      BY <3>1, <3>2, <3>3
  <2>4. CASE c2s[c] # <<>> /\ c2s'[c] = Tail(c2s[c]) /\ s2c'[c] = s2c[c]
    <3>1. \A i \in DOMAIN c2s'[c] :
              i \in Nat /\ i + 1 \in DOMAIN c2s[c] /\ c2s'[c][i] = c2s[c][i+1]
      BY <2>2, <2>4, HeadTail
    <3>2. Opening(c) => Opening(c)'
      <4> SUFFICES ASSUME Opening(c) PROVE Opening(c)'
        OBVIOUS
      <4>1. ASSUME NEW i \in DOMAIN c2s'[c], c2s'[c][i].data \in Commands,
                   NEW j \in DOMAIN c2s'[c], j > i
            PROVE  Built(c) = 1 /\ c2s'[c][j] = PutPacket(c, 1)
        <5>1. j + 1 > i + 1
          BY <3>1, <4>1
        <5>. QED
          BY <3>1, <4>1, <5>1 DEF Opening
      <4>2. ASSUME NEW i \in DOMAIN c2s'[c], c2s'[c][i].data \in Commands
            PROVE  c2s'[c][i] = Packet(0, Command(name[c]))
        BY <3>1, <4>2 DEF Opening
      <4>. QED
        BY <1>1, <2>1, <2>4, <4>1, <4>2 DEF Opening, clientVars, serverVars
    <3>3. Storing(c) => Storing(c)'
      BY <1>1, <2>1, <2>2, <2>4, OldThenNewTail DEF Storing, clientVars, serverVars
    <3>4. Stored(c) => Stored(c)'
      BY <1>1, <2>1, <2>4, <3>1 DEF Stored, clientVars, serverVars
    <3>. QED
      BY <3>2, <3>3, <3>4
  <2>. QED
    BY <1>2, <2>3, <2>4
<1>. QED
  BY <1>1, <1>3, <1>4, <1>5, <1>6, OthersOK DEF PutInvariant, clientVars

LEMMA PutInit == Init => PutInvariant
<1> SUFFICES ASSUME Init PROVE PutInvariant
  OBVIOUS
<1>1. \A c \in Clients : puts[c] = 0 /\ cpc[c] = "prompt" /\ peer # c
                         /\ c2s[c] = <<>> /\ s2c[c] = <<>>
  BY ConstantsAssumption DEF Init
<1>. QED
  BY <1>1 DEF PutInvariant, IdleOK, ClientOK, PutOK

LEMMA PutStep ==
    ASSUME Fifo, TypeInvariant, PutInvariant, [Next]_vars
    PROVE  PutInvariant'
<1>1. CASE UNCHANGED vars
  <2>1. /\ UNCHANGED <<clientVars, serverVars, c2s, s2c>>
        /\ \A c \in Clients : Written(c)' = Written(c) /\ Built(c)' = Built(c)
        /\ \A c \in Clients : \A i : PutPacket(c, i)' = PutPacket(c, i)
        /\ \A c \in Clients : Clean(c)' = Clean(c)
    BY <1>1 DEF vars, clientVars, serverVars, Written, Built, PutPacket, Clean, Solo
  <2>2. \A c \in Clients :
            /\ OldPackets(c)' = OldPackets(c) /\ NewPackets(c)' = NewPackets(c)
            /\ OldAcks(c)' = OldAcks(c) /\ NewAcks(c)' = NewAcks(c)
    BY <2>1 DEF OldPackets, NewPackets, OldAcks, NewAcks, clientVars
  <2>3. \A c \in Clients : IdleOK(c)' /\ ClientOK(c)'
    BY <2>1, ClientUnchanged DEF PutInvariant, IdleOK, clientVars, serverVars
  <2>4. \A c \in Clients : PutOK(c)'
    <3> SUFFICES ASSUME NEW c \in Clients, Opening(c) \/ Storing(c) \/ Stored(c)
                 PROVE  Opening(c)' \/ Storing(c)' \/ Stored(c)'
      BY <2>1 DEF PutInvariant, PutOK, clientVars
    <3>1. Opening(c) => Opening(c)'
      BY <2>1 DEF Opening, clientVars, serverVars
    <3>2. Storing(c) => Storing(c)'
      BY <2>1, <2>2 DEF Storing, clientVars, serverVars
    <3>3. Stored(c) => Stored(c)'
      BY <2>1 DEF Stored, clientVars, serverVars
    <3>. QED
      BY <3>1, <3>2, <3>3
  <2>. QED
    BY <2>3, <2>4 DEF PutInvariant
<1>2. CASE Next
  <2> SUFFICES ASSUME NEW c \in Clients,
                      \/ \E n \in Names, content \in Files : Put(c, n, content)
                      \/ ClientStep(c)
                      \/ ServerStep(c)
                      \/ LoseDatagram(c)
                      \/ Reorder(c)
               PROVE  PutInvariant'
    BY <1>2 DEF Next
  <2>1. CASE \E n \in Names, content \in Files : Put(c, n, content)
    BY <2>1, PutPut
  <2>2. CASE ClientStep(c)
    BY <2>2, PutFormatBuf, PutSendPacket, PutReceiveAck, PutListenTimeout
    DEF ClientStep
  <2>3. CASE ServerStep(c)
    BY <2>3, PutReceiveCommand, PutReceivePacket
    DEF ServerStep, ReceiveBadChecksum, Fifo
  <2>4. CASE LoseDatagram(c)
    BY <2>4, PutLoseDatagram
  <2>5. CASE Reorder(c)
    BY <2>5 DEF Reorder, Fifo
  <2>. QED
    BY <2>1, <2>2, <2>3, <2>4, <2>5
<1>. QED
  BY <1>1, <1>2

LEMMA InvariantCorrect ==
    ASSUME Fifo
    PROVE  Spec => [](TypeInvariant /\ PutInvariant)
<1>1. Init => TypeInvariant /\ PutInvariant
  BY TypeInit, PutInit
<1>2. TypeInvariant /\ PutInvariant /\ [Next]_vars => TypeInvariant' /\ PutInvariant'
  BY TypeStep, PutStep
<1>. QED
  BY <1>1, <1>2, PTL DEF Spec

-----------------------------------------------------------------------------
(* On any network: the inductive invariant behind NothingMissing. *)

LEMMA SmallMod ==
    /\ \A n \in 0..OperationBase-1 : n % OperationBase = n
    /\ OperationBase % OperationBase = 0
<1>1. ASSUME NEW n \in 0..OperationBase-1
      PROVE  n % OperationBase = n
  <2> DEFINE q == n \div OperationBase
  <2>1. /\ n = (OperationBase * q) + (n % OperationBase) /\ q \in Int
        /\ (n % OperationBase) \in 0..OperationBase-1
    BY ModFacts
  <2>2. q >= 1 => OperationBase * q >= OperationBase
    BY <2>1, BaseAssumption
  <2>3. q <= -1 => OperationBase * q <= -OperationBase
    BY <2>1, BaseAssumption
  <2>4. q = 0 => OperationBase * q = 0
    BY BaseAssumption
  <2>. QED
    BY <2>1, <2>2, <2>3, <2>4, BaseAssumption
<1>2. (OperationBase - 1) + 1 = OperationBase /\ OperationBase - 1 \in 0..OperationBase-1
  BY BaseAssumption
<1>3. ((OperationBase - 1) + 1) % OperationBase = 0
  BY <1>1, <1>2, ModSucc
<1>. QED
  BY <1>1, <1>2, <1>3

\* r consists of elements of q, each taken at most once.
Selection(q, r) ==
    \E f \in [DOMAIN r -> DOMAIN q] :
        \A i, j \in DOMAIN r : r[i] = q[f[i]] /\ (f[i] = f[j] => i = j)

LEMMA SelectionSame == ASSUME NEW q PROVE Selection(q, q)
<1> DEFINE f == [i \in DOMAIN q |-> i]
<1>1. f \in [DOMAIN q -> DOMAIN q]
  OBVIOUS
<1>2. \A i, j \in DOMAIN q : q[i] = q[f[i]] /\ (f[i] = f[j] => i = j)
  OBVIOUS
<1>. QED
  BY <1>1, <1>2 DEF Selection

LEMMA SelectionTail ==
    ASSUME NEW S, NEW q \in Seq(S), q # <<>>
    PROVE  Selection(q, Tail(q))
<1> DEFINE f == [i \in DOMAIN Tail(q) |-> i + 1]
<1>1. f \in [DOMAIN Tail(q) -> DOMAIN q]
  BY HeadTail
<1>2. \A i, j \in DOMAIN Tail(q) : Tail(q)[i] = q[f[i]] /\ (f[i] = f[j] => i = j)
  BY HeadTail
<1> HIDE DEF f
<1>. QED
  BY <1>1, <1>2 DEF Selection

LEMMA SelectionSwapped ==
    ASSUME NEW S, NEW q \in Seq(S), NEW k \in 1..Len(q)-1
    PROVE  Selection(q, Swapped(q, k))
<1> DEFINE f == [i \in 1..Len(q) |-> IF i = k THEN k + 1 ELSE IF i = k + 1 THEN k ELSE i]
           r == Swapped(q, k)
<1>1. DOMAIN r = 1..Len(q) /\ DOMAIN q = 1..Len(q)
  BY DEF Swapped
<1>2. f \in [1..Len(q) -> 1..Len(q)]
  OBVIOUS
<1>3. \A i \in 1..Len(q) : r[i] = q[f[i]]
  BY DEF Swapped
<1>4. \A i, j \in 1..Len(q) : f[i] = f[j] => i = j
  OBVIOUS
<1> HIDE DEF f, r
<1>5. Selection(q, r)
  BY <1>1, <1>2, <1>3, <1>4 DEF Selection
<1>. QED
  BY <1>5 DEF r

\* A file that grows keeps what it holds, and may hold one block more.
LEMMA InOrderAppend ==
    ASSUME NEW S, NEW s \in Seq(S), NEW e \in S, NEW f, NEW m \in Nat,
           InOrder(f, m, s)
    PROVE  /\ InOrder(f, m, Append(s, e))
           /\ e = f[m + 1] => InOrder(f, m + 1, Append(s, e))
<1> DEFINE t == Append(s, e)
<1>1. PICK at \in [1..m -> DOMAIN s] :
          /\ \A i \in 1..m : s[at[i]] = f[i]
          /\ \A i, j \in 1..m : i < j => at[i] < at[j]
  BY DEF InOrder
<1>2. /\ DOMAIN s = 1..Len(s) /\ DOMAIN t = 1..Len(s)+1 /\ Len(s) \in Nat
      /\ \A i \in 1..Len(s) : t[i] = s[i]
      /\ t[Len(s) + 1] = e
  OBVIOUS
<1> HIDE DEF t
<1>3. InOrder(f, m, t)
  <2>1. at \in [1..m -> DOMAIN t]
    BY <1>2
  <2>2. \A i \in 1..m : t[at[i]] = f[i]
    BY <1>1, <1>2
  <2>. QED
    BY <1>1, <2>1, <2>2 DEF InOrder
<1>4. ASSUME e = f[m + 1] PROVE InOrder(f, m + 1, t)
  <2> DEFINE to == [i \in 1..m+1 |-> IF i = m + 1 THEN Len(s) + 1 ELSE at[i]]
  <2>1. \A i \in 1..m+1 : i # m + 1 => i \in 1..m /\ at[i] \in 1..Len(s)
    BY <1>2
  <2>2. to \in [1..m+1 -> DOMAIN t]
    BY <1>2, <2>1
  <2>3. \A i \in 1..m+1 : t[to[i]] = f[i]
    BY <1>1, <1>2, <1>4, <2>1
  <2>4. ASSUME NEW i \in 1..m+1, NEW j \in 1..m+1, i < j
        PROVE  to[i] < to[j]
    <3>1. i # m + 1 /\ i \in 1..m /\ at[i] \in 1..Len(s)
      BY <2>1, <2>4
    <3>2. CASE j = m + 1
      BY <1>2, <3>1, <3>2
    <3>3. CASE j # m + 1
      BY <1>1, <2>1, <2>4, <3>1, <3>3
    <3>. QED
      BY <3>2, <3>3
  <2> HIDE DEF to
  <2>. QED
    BY <2>2, <2>3, <2>4 DEF InOrder
<1>. QED
  BY <1>3, <1>4 DEF t

LEMMA InOrderNone == ASSUME NEW f, NEW s PROVE InOrder(f, 0, s)
<1> DEFINE at == [i \in 1..0 |-> i]
<1>1. at \in [1..0 -> DOMAIN s] /\ 1..0 = {}
  OBVIOUS
<1> HIDE DEF at
<1>. QED
  BY <1>1 DEF InOrder

\* What a larger prefix has in order a smaller one has.
LEMMA InOrderLess ==
    ASSUME NEW f, NEW s, NEW m \in Nat, NEW k \in 0..m, InOrder(f, m, s)
    PROVE  InOrder(f, k, s)
<1>1. PICK at \in [1..m -> DOMAIN s] :
          /\ \A i \in 1..m : s[at[i]] = f[i]
          /\ \A i, j \in 1..m : i < j => at[i] < at[j]
  BY DEF InOrder
<1> DEFINE to == [i \in 1..k |-> at[i]]
<1>2. \A i \in 1..k : i \in 1..m
  OBVIOUS
<1>3. to \in [1..k -> DOMAIN s]
  BY <1>2
<1>4. /\ \A i \in 1..k : s[to[i]] = f[i]
      /\ \A i, j \in 1..k : i < j => to[i] < to[j]
  BY <1>1, <1>2
<1> HIDE DEF to
<1>. QED
  BY <1>3, <1>4 DEF InOrder

\* A command is no packet of the put, and one packet of it is its block.
LEMMA SentFacts ==
    ASSUME TypeInvariant, NEW c \in Clients
    PROVE  /\ \A e \in Sent(c) : e \in PacketSet /\ e.data \notin Commands
           /\ CommandPacket(c) \in PacketSet
           /\ CommandPacket(c).data = Command(name[c])
           /\ CommandPacket(c).data \in Commands /\ CommandPacket(c).data.put = name[c]
           /\ CommandPacket(c) \notin Sent(c)
<1>1. ASSUME NEW e \in Sent(c) PROVE e \in PacketSet /\ e.data \notin Commands
  <2>1. PICK k \in 1..Built(c) : e = PutPacket(c, k)
    BY DEF Sent
  <2>2. k \in Nat \ {0}
    BY StateTypes
  <2>. QED
    BY <2>1, <2>2, PutPacketFacts
<1>2. name[c] \in Names /\ Command(name[c]) \in Commands
  BY DEF TypeInvariant, TypeOK, Commands
<1>3. CommandPacket(c) \in PacketSet
  BY <1>2, PacketType DEF CommandPacket, Payloads
<1>4. CommandPacket(c).data = Command(name[c]) /\ Command(name[c]).put = name[c]
  BY DEF CommandPacket, Packet, Command
<1>. QED
  BY <1>1, <1>2, <1>3, <1>4

\* What every step of client c or of the server reading from c leaves alone: the
\* clients that never put anything, and those that are not alone.
LEMMA HostileFrame ==
    ASSUME TypeInvariant, HostileInvariant, NEW c \in Clients,
           puts'[c] \in Nat \ {0},
           \A d \in Clients \ {c} :
              /\ cpc'[d] = cpc[d] /\ packetNum'[d] = packetNum[d] /\ file'[d] = file[d]
              /\ packet'[d] = packet[d] /\ isEOF'[d] = isEOF[d] /\ puts'[d] = puts[d]
              /\ c2s'[d] = c2s[d]
              /\ puts[d] = 0 => s2c'[d] = s2c[d],
           peer' = peer \/ peer' = c,
           ClientOK(c)',
           FirstPut(c)' => Unopened(c)' \/ Opened(c)'
    PROVE  HostileInvariant'
<1>1. ASSUME NEW d \in Clients PROVE IdleOK(d)'
  <2>1. CASE d = c
    BY <2>1 DEF IdleOK
  <2>2. CASE d # c
    BY <2>2 DEF HostileInvariant, IdleOK
  <2>. QED
    BY <2>1, <2>2
<1>2. ASSUME NEW d \in Clients PROVE ClientOK(d)'
  <2>1. CASE d # c
    BY <2>1 DEF HostileInvariant, ClientOK, Built, PutPacket
  <2>. QED
    BY <2>1
<1>3. ASSUME NEW d \in Clients, d # c PROVE ~FirstPut(d)'
  BY <1>3 DEF FirstPut, Clean, Solo
<1>. QED
  BY <1>1, <1>2, <1>3 DEF HostileInvariant

\* A step that touches no variable of a client leaves these as they are.
LEMMA ClientSame ==
    ASSUME NEW c \in Clients, UNCHANGED clientVars
    PROVE  /\ FirstPut(c)' = FirstPut(c) /\ Built(c)' = Built(c)
           /\ AckedBlocks(c)' = AckedBlocks(c)
           /\ \A k : PutPacket(c, k)' = PutPacket(c, k)
           /\ Sent(c)' = Sent(c) /\ CommandPacket(c)' = CommandPacket(c)
           /\ cpc'[c] = cpc[c] /\ file'[c] = file[c] /\ name'[c] = name[c]
<1>1. \A k : PutPacket(c, k)' = PutPacket(c, k)
  BY DEF PutPacket, clientVars
<1>2. Built(c)' = Built(c)
  BY DEF Built, clientVars
<1>. QED
  BY <1>1, <1>2
  DEF FirstPut, Clean, Solo, InPut, AckedBlocks, Sent, CommandPacket, clientVars

\* Whatever datagrams are lost, read or reordered, the invariant stays.
LEMMA FewerDatagrams ==
    ASSUME NEW c \in Clients,
           Unopened(c) \/ Opened(c),
           UNCHANGED serverVars,
           cpc'[c] = "read" <=> cpc[c] = "read",
           Built(c)' = Built(c), AckedBlocks(c)' = AckedBlocks(c),
           Sent(c)' = Sent(c), CommandPacket(c)' = CommandPacket(c),
           file'[c] = file[c], name'[c] = name[c],
           Selection(c2s[c], c2s'[c]), Selection(s2c[c], s2c'[c]),
           s2c'[c] \in Seq(0..OperationBase-1)
    PROVE  Unopened(c)' \/ Opened(c)'
<1>1. PICK f \in [DOMAIN c2s'[c] -> DOMAIN c2s[c]] :
          \A i, j \in DOMAIN c2s'[c] :
              c2s'[c][i] = c2s[c][f[i]] /\ (f[i] = f[j] => i = j)
  BY DEF Selection
<1>2. PICK g \in [DOMAIN s2c'[c] -> DOMAIN s2c[c]] :
          \A i \in DOMAIN s2c'[c] : s2c'[c][i] = s2c[c][g[i]]
  BY DEF Selection
<1>3. CASE Unopened(c)
  <2>1. s2c'[c] = <<>>
    <3>1. DOMAIN s2c'[c] = {}
      BY <1>2, <1>3 DEF Unopened
    <3>2. PICK q \in Seq(0..OperationBase-1) : q = s2c'[c]
      OBVIOUS
    <3>3. 1 \notin DOMAIN q
      BY <3>1, <3>2
    <3>4. q = <<>>
      BY <3>3
    <3>. QED
      BY <3>2, <3>4
  <2>2. \A i \in DOMAIN c2s'[c] : c2s'[c][i] \in {CommandPacket(c)} \cup Sent(c)
    BY <1>1, <1>3 DEF Unopened
  <2>3. \A i, j \in DOMAIN c2s'[c] :
            c2s'[c][i] = CommandPacket(c) /\ c2s'[c][j] = CommandPacket(c) => i = j
    BY <1>1, <1>3 DEF Unopened
  <2>4. spc' = "command" /\ Built(c)' = IF cpc'[c] = "read" THEN 0 ELSE 1
    BY <1>3 DEF Unopened, serverVars
  <2>. QED
    BY <2>1, <2>2, <2>3, <2>4 DEF Unopened
<1>4. ASSUME NEW m \in 0..Len(file[c]), OpenedWith(c, m)
      PROVE  OpenedWith(c, m)'
  <2>1. \A i \in DOMAIN c2s'[c] : c2s'[c][i] \in Sent(c)
    BY <1>1, <1>4 DEF OpenedWith
  <2>2. \A i \in DOMAIN s2c'[c] :
            s2c'[c][i] \in 0..m \cup {(Len(file[c]) + 1) % OperationBase}
    BY <1>2, <1>4 DEF OpenedWith
  <2>3. UNCHANGED <<spc, peer, inputFile, prevPacketNum, disk>>
    BY DEF serverVars
  <2>. QED
    BY <1>4, <2>1, <2>2, <2>3 DEF OpenedWith
<1>. QED
  BY <1>3, <1>4 DEF Opened

LEMMA HostileInit == Init => HostileInvariant
<1> SUFFICES ASSUME Init PROVE HostileInvariant
  OBVIOUS
<1>1. \A c \in Clients : puts[c] = 0 /\ cpc[c] = "prompt" /\ peer # c
                         /\ c2s[c] = <<>> /\ s2c[c] = <<>>
  BY ConstantsAssumption DEF Init
<1>. QED
  BY <1>1 DEF HostileInvariant, IdleOK, ClientOK, FirstPut

\* The first put of a client that is alone finds the server waiting for a command
\* and both channels empty.
LEMMA HostilePut ==
    ASSUME TypeInvariant, HostileInvariant,
           NEW c \in Clients, NEW n \in Names, NEW content \in Files,
           Put(c, n, content)
    PROVE  HostileInvariant'
<1>1. /\ cpc'[c] = "read" /\ packetNum'[c] = 1 /\ name'[c] = n /\ file'[c] = content
      /\ c2s'[c] = Append(c2s[c], Packet(0, Command(n))) /\ puts'[c] = puts[c] + 1
      /\ UNCHANGED <<gaveUp, serverVars, s2c>>
  BY DEF Put, TypeInvariant, TypeOK
<1>2. \A d \in Clients \ {c} :
          /\ cpc'[d] = cpc[d] /\ packetNum'[d] = packetNum[d] /\ file'[d] = file[d]
          /\ packet'[d] = packet[d] /\ isEOF'[d] = isEOF[d] /\ puts'[d] = puts[d]
          /\ c2s'[d] = c2s[d]
  BY DEF Put, TypeInvariant, TypeOK
<1>3. puts[c] \in Nat /\ puts'[c] \in Nat \ {0}
  BY <1>1, StateTypes
<1>4. Built(c)' = 0 /\ ClientOK(c)'
  BY <1>1, FilesAreSequences DEF Built, ClientOK
<1>5. ASSUME FirstPut(c)' PROVE Unopened(c)'
  <2>1. puts[c] = 0 /\ \A d \in Clients \ {c} : puts[d] = 0
    BY <1>1, <1>2, <1>3, <1>5 DEF FirstPut, Clean, Solo
  <2>2. c2s[c] = <<>> /\ s2c[c] = <<>> /\ \A d \in Clients : peer # d
    BY <2>1 DEF HostileInvariant, IdleOK
  <2>3. spc = "command"
    BY <2>2 DEF TypeInvariant, TypeOK, ServerOK
  <2>4. c2s'[c] = <<CommandPacket(c)'>>
    BY <1>1, <2>2 DEF CommandPacket
  <2>. QED
    BY <1>1, <1>4, <2>2, <2>3, <2>4 DEF Unopened, serverVars
<1>. QED
  BY <1>1, <1>2, <1>3, <1>4, <1>5, HostileFrame DEF serverVars

LEMMA HostileFormatBuf ==
    ASSUME TypeInvariant, HostileInvariant, NEW c \in Clients, FormatBuf(c)
    PROVE  HostileInvariant'
<1>1. /\ cpc[c] = "read" /\ cpc'[c] = "send" /\ packetNum'[c] = packetNum[c] + 1
      /\ isEOF'[c] = (packetNum[c] > Len(file[c]))
      /\ packet'[c] = PutPacket(c, packetNum[c])
      /\ UNCHANGED <<name, file, puts, gaveUp, serverVars, c2s, s2c>>
  BY DEF FormatBuf, TypeInvariant, TypeOK, PutPacket
<1>2. \A d \in Clients \ {c} :
          /\ cpc'[d] = cpc[d] /\ packetNum'[d] = packetNum[d]
          /\ packet'[d] = packet[d] /\ isEOF'[d] = isEOF[d]
  BY DEF FormatBuf, TypeInvariant, TypeOK
<1>3. IdleOK(c) /\ ClientOK(c) /\ (FirstPut(c) => Unopened(c) \/ Opened(c))
  BY DEF HostileInvariant
<1>4. puts'[c] \in Nat \ {0}
  BY <1>1, <1>3, StateTypes DEF IdleOK
<1>5. /\ Built(c) \in 0..Len(file[c]) /\ Built(c)' = Built(c) + 1
      /\ Built(c)' = packetNum[c] /\ packetNum[c] \in Nat
      /\ AckedBlocks(c)' = AckedBlocks(c)
      /\ \A k : PutPacket(c, k)' = PutPacket(c, k)
  BY <1>1, <1>3, StateTypes DEF Built, AckedBlocks, PutPacket, ClientOK
<1>6. ClientOK(c)'
  BY <1>1, <1>5, StateTypes DEF ClientOK
<1>7. Sent(c) \subseteq Sent(c)' /\ CommandPacket(c)' = CommandPacket(c)
  BY <1>1, <1>5, StateTypes DEF Sent, CommandPacket
<1>8. ASSUME FirstPut(c)' PROVE Unopened(c)' \/ Opened(c)'
  <2>1. FirstPut(c)
    BY <1>1, <1>8 DEF FirstPut, Clean, Solo, InPut
  <2>2. Unopened(c) => Unopened(c)'
    BY <1>1, <1>5, <1>7 DEF Unopened, serverVars
  <2>3. ASSUME NEW m \in 0..Len(file[c]), OpenedWith(c, m) PROVE OpenedWith(c, m)'
    BY <1>1, <1>5, <1>7, <2>3 DEF OpenedWith, serverVars
  <2>. QED
    BY <1>1, <1>3, <2>1, <2>2, <2>3 DEF Opened
<1>. QED
  BY <1>1, <1>2, <1>4, <1>6, <1>8, HostileFrame DEF serverVars

LEMMA HostileSendPacket ==
    ASSUME TypeInvariant, HostileInvariant, NEW c \in Clients, SendPacket(c)
    PROVE  HostileInvariant'
<1>1. /\ cpc[c] = "send" /\ cpc'[c] = "listen"
      /\ c2s'[c] = Append(c2s[c], packet[c])
      /\ UNCHANGED <<name, file, packetNum, packet, isEOF, puts, gaveUp, serverVars, s2c>>
  BY DEF SendPacket, TypeInvariant, TypeOK
<1>2. \A d \in Clients \ {c} : cpc'[d] = cpc[d] /\ c2s'[d] = c2s[d]
  BY DEF SendPacket, TypeInvariant, TypeOK
<1>3. IdleOK(c) /\ ClientOK(c) /\ (FirstPut(c) => Unopened(c) \/ Opened(c))
  BY DEF HostileInvariant
<1>4. puts'[c] \in Nat \ {0}
  BY <1>1, <1>3, StateTypes DEF IdleOK
<1>5. /\ Built(c) \in 1..Len(file[c])+1 /\ packet[c] = PutPacket(c, Built(c))
      /\ Built(c)' = Built(c) /\ AckedBlocks(c)' = AckedBlocks(c)
      /\ \A k : PutPacket(c, k)' = PutPacket(c, k)
  BY <1>1, <1>3 DEF Built, AckedBlocks, PutPacket, ClientOK
<1>6. ClientOK(c)'
  BY <1>1, <1>3, <1>5 DEF ClientOK
<1>7. /\ Sent(c)' = Sent(c) /\ CommandPacket(c)' = CommandPacket(c)
      /\ packet[c] \in Sent(c) /\ packet[c] \in PacketSet
      /\ packet[c] # CommandPacket(c)
  <2>1. Sent(c)' = Sent(c) /\ CommandPacket(c)' = CommandPacket(c)
    BY <1>1, <1>5 DEF Sent, CommandPacket
  <2>2. packet[c] \in Sent(c)
    BY <1>5, StateTypes DEF Sent
  <2>. QED
    BY <1>3, <2>1, <2>2, SentFacts
<1>8. \A i \in DOMAIN c2s'[c] : \/ i \in DOMAIN c2s[c] /\ c2s'[c][i] = c2s[c][i]
                                \/ c2s'[c][i] = packet[c]
  BY <1>1, <1>7, StateTypes, AppendEntries
<1>9. ASSUME FirstPut(c)' PROVE Unopened(c)' \/ Opened(c)'
  <2>1. FirstPut(c)
    BY <1>1, <1>9 DEF FirstPut, Clean, Solo, InPut
  <2>2. ASSUME Unopened(c) PROVE Unopened(c)'
    <3>1. \A i \in DOMAIN c2s'[c] : c2s'[c][i] \in {CommandPacket(c)} \cup Sent(c)
      BY <1>7, <1>8, <2>2 DEF Unopened
    <3>2. \A i, j \in DOMAIN c2s'[c] :
              c2s'[c][i] = CommandPacket(c) /\ c2s'[c][j] = CommandPacket(c) => i = j
      BY <1>7, <1>8, <2>2 DEF Unopened
    <3>. QED
      BY <1>1, <1>5, <1>7, <2>2, <3>1, <3>2 DEF Unopened, serverVars
  <2>3. ASSUME NEW m \in 0..Len(file[c]), OpenedWith(c, m) PROVE OpenedWith(c, m)'
    <3>1. \A i \in DOMAIN c2s'[c] : c2s'[c][i] \in Sent(c)
      BY <1>7, <1>8, <2>3 DEF OpenedWith
    <3>. QED
      BY <1>1, <1>5, <1>7, <2>3, <3>1 DEF OpenedWith, serverVars
  <2>. QED
    BY <1>1, <1>3, <2>1, <2>2, <2>3 DEF Opened
<1>. QED
  BY <1>1, <1>2, <1>4, <1>6, <1>9, HostileFrame DEF serverVars

\* A listen without the awaited acknowledgement.
LEMMA HostileNotAcknowledged ==
    ASSUME TypeInvariant, HostileInvariant, NEW c \in Clients,
           cpc[c] = "listen", NotAcknowledged(c),
           UNCHANGED <<name, file, packetNum, packet, isEOF, puts, serverVars, c2s>>,
           \A d \in Clients \ {c} : s2c'[d] = s2c[d],
           s2c'[c] \in Seq(0..OperationBase-1), Selection(s2c[c], s2c'[c])
    PROVE  HostileInvariant'
<1>1. /\ cpc'[c] \in {"listen", "send", "prompt", "exited"}
      /\ cpc'[c] = "exited" => ~isEOF[c]
      /\ gaveUp[c] => gaveUp'[c]
      /\ \A d \in Clients \ {c} : cpc'[d] = cpc[d]
  BY DEF NotAcknowledged, TypeInvariant, TypeOK
<1>2. IdleOK(c) /\ ClientOK(c) /\ (FirstPut(c) => Unopened(c) \/ Opened(c))
  BY DEF HostileInvariant
<1>3. puts'[c] \in Nat \ {0}
  BY <1>2, StateTypes DEF IdleOK
<1>4. /\ Built(c)' = Built(c) /\ \A k : PutPacket(c, k)' = PutPacket(c, k)
      /\ Sent(c)' = Sent(c) /\ CommandPacket(c)' = CommandPacket(c)
  BY DEF Built, PutPacket, Sent, CommandPacket
<1>5. ClientOK(c)'
  BY <1>1, <1>2, <1>4, StateTypes DEF ClientOK
<1>6. ASSUME FirstPut(c)' PROVE Unopened(c)' \/ Opened(c)'
  <2>1. FirstPut(c) /\ cpc'[c] # "read"
    BY <1>1, <1>6 DEF FirstPut, Clean, Solo, InPut
  <2>2. AckedBlocks(c)' = AckedBlocks(c)
    BY <2>1 DEF AckedBlocks
  <2>3. Selection(c2s[c], c2s'[c])
    BY SelectionSame
  <2>. QED
    BY <1>2, <1>4, <2>1, <2>2, <2>3, FewerDatagrams
<1>. QED
  BY <1>1, <1>3, <1>5, <1>6, HostileFrame DEF serverVars

LEMMA HostileListenTimeout ==
    ASSUME TypeInvariant, HostileInvariant, NEW c \in Clients, ListenTimeout(c)
    PROVE  HostileInvariant'
<1>1. s2c'[c] \in Seq(0..OperationBase-1) /\ Selection(s2c[c], s2c'[c])
  BY StateTypes, SelectionSame DEF ListenTimeout
<1>. QED
  BY <1>1, HostileNotAcknowledged DEF ListenTimeout

\* The acknowledgement the client waits for carries the number of the packet it
\* sent last, and while no number comes twice that packet's block is stored.
LEMMA HostileReceiveAck ==
    ASSUME TypeInvariant, HostileInvariant, NEW c \in Clients, ReceiveAck(c)
    PROVE  HostileInvariant'
<1>1. /\ cpc[c] = "listen" /\ s2c[c] # <<>>
      /\ s2c'[c] = Tail(s2c[c]) /\ \A d \in Clients \ {c} : s2c'[d] = s2c[d]
      /\ UNCHANGED <<name, file, packetNum, packet, isEOF, puts, serverVars, c2s>>
  BY DEF ReceiveAck, TypeInvariant, TypeOK
<1>2. s2c[c] \in Seq(0..OperationBase-1)
  BY StateTypes
<1>3. s2c'[c] \in Seq(0..OperationBase-1) /\ Selection(s2c[c], s2c'[c])
  <2>1. Tail(s2c[c]) \in Seq(0..OperationBase-1)
    BY <1>1, <1>2, HeadTailProperties
  <2>2. Selection(s2c[c], Tail(s2c[c]))
    BY <1>1, <1>2, SelectionTail
  <2>. QED
    BY <1>1, <2>1, <2>2
<1>4. CASE NotAcknowledged(c)
  BY <1>1, <1>3, <1>4, HostileNotAcknowledged
<1>5. CASE MatchesAck(Head(s2c[c]), packetNum[c]) /\ Acknowledged(c)
  <2>1. /\ cpc'[c] = IF isEOF[c] THEN "prompt" ELSE "read"
        /\ \A d \in Clients \ {c} : cpc'[d] = cpc[d]
        /\ UNCHANGED gaveUp
    BY <1>5 DEF Acknowledged, TypeInvariant, TypeOK
  <2>2. IdleOK(c) /\ ClientOK(c) /\ (FirstPut(c) => Unopened(c) \/ Opened(c))
    BY DEF HostileInvariant
  <2>3. puts'[c] \in Nat \ {0}
    BY <1>1, <2>2, StateTypes DEF IdleOK
  <2>4. /\ Built(c)' = Built(c) /\ \A k : PutPacket(c, k)' = PutPacket(c, k)
        /\ Sent(c)' = Sent(c) /\ CommandPacket(c)' = CommandPacket(c)
    BY <1>1 DEF Built, PutPacket, Sent, CommandPacket
  <2>5. /\ Built(c) \in 1..Len(file[c])+1 /\ Built(c) \in Nat
        /\ isEOF[c] = (Built(c) > Len(file[c]))
    BY <1>1, <2>2, StateTypes DEF ClientOK
  <2>6. ClientOK(c)'
    BY <1>1, <2>1, <2>4, <2>5, StateTypes DEF ClientOK
  <2>7. ASSUME FirstPut(c)' PROVE Opened(c)'
    <3>1. cpc'[c] = "read" /\ ~isEOF[c]
      BY <2>1, <2>7 DEF FirstPut, InPut
    <3>2. Built(c) \in 1..Len(file[c]) /\ Len(file[c]) < OperationBase
      BY <1>1, <2>5, <2>7, <3>1, StateTypes DEF FirstPut
    <3>3. FirstPut(c)
      BY <1>1, <2>1, <2>7 DEF FirstPut, Clean, Solo, InPut
    <3>4. AckedBlocks(c)' = Built(c)
      BY <1>1, <3>1 DEF AckedBlocks, Built
    <3>5. Head(s2c[c]) = Built(c)
      <4>1. Head(s2c[c]) \in 0..OperationBase-1
        BY <1>1, <1>2, HeadTailProperties
      <4>2. packetNum[c] = Built(c) + 1
        BY StateTypes DEF Built
      <4>3. Head(s2c[c]) = Built(c) % OperationBase
        BY <1>5, <2>5, <4>1, <4>2, AckMatchesSentPacket
      <4>4. Built(c) \in 0..OperationBase-1
        BY <3>2, BaseAssumption, StateTypes
      <4>. QED
        BY <4>3, <4>4, SmallMod
    <3>6. (Len(file[c]) + 1) % OperationBase # Built(c)
      <4>1. CASE Len(file[c]) + 1 = OperationBase
        BY <3>2, <4>1, SmallMod
      <4>2. CASE Len(file[c]) + 1 # OperationBase
        <5>1. Len(file[c]) + 1 \in 0..OperationBase-1
          BY <3>2, <4>2, BaseAssumption, StateTypes
        <5>2. (Len(file[c]) + 1) % OperationBase = Len(file[c]) + 1
          BY <5>1, SmallMod
        <5>. QED
          BY <3>2, <5>2, StateTypes
      <4>. QED
        BY <4>1, <4>2
    <3>7. PICK m \in 0..Len(file[c]) : OpenedWith(c, m)
      BY <1>1, <2>2, <3>3 DEF Unopened, Opened
    <3>8. Built(c) <= m
      <4>1. s2c[c][1] \in 0..m \cup {(Len(file[c]) + 1) % OperationBase}
        BY <1>1, <1>2, <3>7, HeadTail DEF OpenedWith
      <4>. QED
        BY <1>1, <1>2, <3>5, <3>6, <4>1, HeadTail
    <3>9. \A i \in DOMAIN s2c'[c] :
              s2c'[c][i] \in 0..m \cup {(Len(file[c]) + 1) % OperationBase}
      BY <1>1, <1>2, <3>7, HeadTail DEF OpenedWith
    <3>10. OpenedWith(c, m)'
      BY <1>1, <2>4, <3>4, <3>7, <3>8, <3>9 DEF OpenedWith, serverVars
    <3>. QED
      BY <1>1, <3>7, <3>10 DEF Opened
  <2>. QED
    BY <1>1, <2>1, <2>3, <2>6, <2>7, HostileFrame DEF serverVars
<1>. QED
  BY <1>4, <1>5 DEF ReceiveAck

\* Only the put's own command opens the file, and it does so once.
LEMMA HostileReceiveCommand ==
    ASSUME TypeInvariant, HostileInvariant, NEW c \in Clients, ReceiveCommand(c)
    PROVE  HostileInvariant'
<1>1. /\ spc = "command" /\ c2s[c] # <<>> /\ c2s'[c] = Tail(c2s[c]) /\ peer' = c
      /\ \A d \in Clients \ {c} : c2s'[d] = c2s[d]
      /\ UNCHANGED <<clientVars, s2c>>
  BY DEF ReceiveCommand, TypeInvariant, TypeOK
<1>2. IdleOK(c) /\ ClientOK(c) /\ (FirstPut(c) => Unopened(c) \/ Opened(c))
  BY DEF HostileInvariant
<1>3. puts'[c] \in Nat \ {0}
  BY <1>1, <1>2, StateTypes DEF IdleOK, clientVars
<1>4. ClientOK(c)'
  BY <1>1, <1>2, ClientUnchanged
<1>5. c2s[c] \in Seq(PacketSet) /\ Head(c2s[c]) = c2s[c][1] /\ 1 \in DOMAIN c2s[c]
      /\ \A i \in DOMAIN c2s'[c] :
            i \in Nat \ {0} /\ i + 1 \in DOMAIN c2s[c] /\ c2s'[c][i] = c2s[c][i+1]
  BY <1>1, StateTypes, HeadTail
<1>6. ASSUME FirstPut(c)' PROVE Unopened(c)' \/ Opened(c)'
  <2>1. FirstPut(c) /\ Built(c)' = Built(c) /\ AckedBlocks(c)' = AckedBlocks(c)
        /\ Sent(c)' = Sent(c) /\ CommandPacket(c)' = CommandPacket(c)
        /\ cpc'[c] = cpc[c] /\ file'[c] = file[c] /\ name'[c] = name[c]
    BY <1>1, <1>6, ClientSame
  <2>2. CASE Unopened(c) /\ Head(c2s[c]) = CommandPacket(c)
    <3>1. OpenFile(name[c])
      BY <2>2, SentFacts DEF ReceiveCommand
    <3>2. /\ spc' = "receiving" /\ inputFile' = name[c] /\ prevPacketNum' = 0
          /\ disk'[name[c]] = <<>>
      BY <3>1 DEF OpenFile, TypeInvariant, TypeOK
    <3>3. \A i \in DOMAIN c2s'[c] : c2s'[c][i] \in Sent(c)
      <4> SUFFICES ASSUME NEW i \in DOMAIN c2s'[c] PROVE c2s'[c][i] \in Sent(c)
        OBVIOUS
      <4>1. i + 1 # 1 /\ i + 1 \in DOMAIN c2s[c] /\ c2s'[c][i] = c2s[c][i+1]
        BY <1>5
      <4>2. c2s[c][i+1] # CommandPacket(c)
        BY <1>5, <2>2, <4>1 DEF Unopened
      <4>. QED
        BY <2>2, <4>1, <4>2 DEF Unopened
    <3>4. AckedBlocks(c) <= 0
      BY <2>1, <2>2, StateTypes DEF Unopened, AckedBlocks, Built, FirstPut, InPut
    <3>5. InOrder(file[c], 0, disk'[name[c]])
      BY InOrderNone
    <3>6. s2c'[c] = <<>>
      BY <1>1, <2>2 DEF Unopened
    <3>7. OpenedWith(c, 0)'
      BY <1>1, <2>1, <3>2, <3>3, <3>4, <3>5, <3>6 DEF OpenedWith
    <3>. QED
      BY <2>1, <3>7, StateTypes DEF Opened
  <2>3. CASE Head(c2s[c]) \in Sent(c)
    <3>1. UNCHANGED <<spc, inputFile, disk, prevPacketNum>>
      BY <2>3, SentFacts DEF ReceiveCommand
    <3>2. Unopened(c) => Unopened(c)'
      <4> SUFFICES ASSUME Unopened(c) PROVE Unopened(c)'
        OBVIOUS
      <4>1. \A i \in DOMAIN c2s'[c] : c2s'[c][i] \in {CommandPacket(c)} \cup Sent(c)
        BY <1>5 DEF Unopened
      <4>2. \A i, j \in DOMAIN c2s'[c] :
                c2s'[c][i] = CommandPacket(c) /\ c2s'[c][j] = CommandPacket(c) => i = j
        BY <1>5 DEF Unopened
      <4>. QED
        BY <1>1, <2>1, <3>1, <4>1, <4>2 DEF Unopened
    <3>3. ASSUME NEW m \in 0..Len(file[c]), OpenedWith(c, m) PROVE OpenedWith(c, m)'
      <4>1. \A i \in DOMAIN c2s'[c] : c2s'[c][i] \in Sent(c)
        BY <1>5, <3>3 DEF OpenedWith
      <4>. QED
        BY <1>1, <2>1, <3>1, <3>3, <4>1 DEF OpenedWith
    <3>. QED
      BY <1>2, <2>1, <3>2, <3>3 DEF Opened
  <2>. QED
    BY <1>2, <1>5, <2>1, <2>2, <2>3 DEF Unopened, Opened, OpenedWith
<1>. QED
  BY <1>1, <1>3, <1>4, <1>6, HostileFrame DEF clientVars

\* The acknowledgement of what the server reads from c goes to a client that has
\* put something.
LEMMA AckedIsNotIdle ==
    ASSUME TypeInvariant, HostileInvariant, spc = "receiving",
           NEW n \in 0..OperationBase-1, SendAcknowledgement(n)
    PROVE  \A d \in Clients : puts[d] = 0 => s2c'[d] = s2c[d]
BY DEF HostileInvariant, IdleOK, SendAcknowledgement, TypeInvariant, TypeOK

\* An acknowledgement of the client in its first put, behind the others.
LEMMA OneAckMore ==
    ASSUME TypeInvariant, NEW c \in Clients, peer = c,
           NEW n \in 0..OperationBase-1, SendAcknowledgement(n),
           NEW T, n \in T, \A i \in DOMAIN s2c[c] : s2c[c][i] \in T
    PROVE  \A i \in DOMAIN s2c'[c] : s2c'[c][i] \in T
<1>1. s2c'[c] = Append(s2c[c], n)
  BY DEF SendAcknowledgement, TypeInvariant, TypeOK
<1>. QED
  BY <1>1, StateTypes, AppendEntries

\* A packet numbered like the one before is one the server has; the first copy of
\* the next block is written, and a later or an older one does no harm.
LEMMA HostileReceivePacket ==
    ASSUME TypeInvariant, HostileInvariant, NEW c \in Clients, ReceivePacket(c)
    PROVE  HostileInvariant'
<1> DEFINE p == Head(c2s[c])
<1>1. /\ spc = "receiving" /\ c2s[c] # <<>> /\ c2s'[c] = Tail(c2s[c])
      /\ \A d \in Clients \ {c} : c2s'[d] = c2s[d]
      /\ UNCHANGED <<clientVars, peer, inputFile>>
      /\ SendAcknowledgement(p.num)
  BY DEF ReceivePacket, TypeInvariant, TypeOK
<1>2. IdleOK(c) /\ ClientOK(c) /\ (FirstPut(c) => Unopened(c) \/ Opened(c))
  BY DEF HostileInvariant
<1>3. puts'[c] \in Nat \ {0}
  BY <1>1, <1>2, StateTypes DEF IdleOK, clientVars
<1>4. ClientOK(c)'
  BY <1>1, <1>2, ClientUnchanged
<1>5. c2s[c] \in Seq(PacketSet) /\ p = c2s[c][1] /\ 1 \in DOMAIN c2s[c]
      /\ \A i \in DOMAIN c2s'[c] :
            i \in Nat \ {0} /\ i + 1 \in DOMAIN c2s[c] /\ c2s'[c][i] = c2s[c][i+1]
  BY <1>1, StateTypes, HeadTail
<1>6. p \in PacketSet /\ p.num \in 0..OperationBase-1 /\ p.data \in Payloads
  <2>1. p \in PacketSet
    BY <1>5
  <2>. QED
    BY <2>1 DEF PacketSet
<1>7. \A d \in Clients : puts[d] = 0 => s2c'[d] = s2c[d]
  BY <1>1, <1>6, AckedIsNotIdle
<1>8. ASSUME FirstPut(c)' PROVE Opened(c)'
  <2>1. FirstPut(c) /\ Built(c)' = Built(c) /\ AckedBlocks(c)' = AckedBlocks(c)
        /\ Sent(c)' = Sent(c) /\ CommandPacket(c)' = CommandPacket(c)
        /\ cpc'[c] = cpc[c] /\ file'[c] = file[c] /\ name'[c] = name[c]
    BY <1>1, <1>8, ClientSame
  <2>2. Len(file[c]) \in Nat /\ Len(file[c]) < OperationBase /\ Built(c) \in Int
    BY <2>1, StateTypes DEF FirstPut
  <2>3. PICK m \in 0..Len(file[c]) : OpenedWith(c, m)
    BY <1>1, <1>2, <2>1 DEF Unopened, Opened
  <2> DEFINE acks == 0..m \cup {(Len(file[c]) + 1) % OperationBase}
  <2>4. /\ peer = c /\ inputFile = name[c] /\ prevPacketNum \in 0..m
        /\ AckedBlocks(c) <= m /\ InOrder(file[c], m, disk[name[c]])
        /\ \A i \in DOMAIN c2s[c] : c2s[c][i] \in Sent(c)
        /\ \A i \in DOMAIN s2c[c] : s2c[c][i] \in acks
    BY <1>1, <2>3 DEF OpenedWith
  <2>5. \A i \in DOMAIN c2s'[c] : c2s'[c][i] \in Sent(c)
    BY <1>5, <2>4
  <2>6. PICK k \in 1..Built(c) : p = PutPacket(c, k)
    BY <1>5, <2>4 DEF Sent
  <2>7. /\ k \in Nat \ {0} /\ k <= m + 1
        /\ p.num = k % OperationBase
        /\ p.data = IF k > Len(file[c]) THEN LastPacket ELSE file[c][k]
        /\ p.data = LastPacket <=> k > Len(file[c])
    <3>1. k \in Nat \ {0}
      BY <2>2
    <3>2. Built(c) <= m + 1
      BY <2>2, <2>4, StateTypes DEF AckedBlocks, Built
    <3>3. /\ PutPacket(c, k).num = k % OperationBase
          /\ PutPacket(c, k).data = IF k > Len(file[c]) THEN LastPacket ELSE file[c][k]
          /\ PutPacket(c, k).data = LastPacket <=> k > Len(file[c])
      BY <3>1, PutPacketFacts
    <3>4. k <= m + 1
      BY <2>2, <3>2
    <3>. QED
      BY <2>6, <3>1, <3>3, <3>4
  <2>8. CASE k > Len(file[c])
    <3>1. k = Len(file[c]) + 1 /\ p.num \in acks
      BY <2>2, <2>7, <2>8
    <3>2. spc' = "command" /\ UNCHANGED <<disk, prevPacketNum>>
      BY <2>7, <2>8 DEF ReceivePacket
    <3>3. \A i \in DOMAIN s2c'[c] : s2c'[c][i] \in acks
      BY <1>1, <1>6, <2>4, <3>1, OneAckMore
    <3>4. OpenedWith(c, m)'
      BY <2>1, <2>4, <2>5, <3>2, <3>3 DEF OpenedWith
    <3>. QED
      BY <2>1, <3>4 DEF Opened
  <2>9. CASE k <= Len(file[c])
    <3>1. p.num = k
      <4>1. k \in 0..OperationBase-1
        BY <2>2, <2>7, <2>9, BaseAssumption
      <4>. QED
        BY <2>7, <4>1, SmallMod
    <3>2. spc' = "receiving" /\ p.data = file[c][k] /\ p.data # LastPacket
      BY <1>1, <2>7, <2>9 DEF ReceivePacket
    <3>3. /\ \/ disk' = [disk EXCEPT ![name[c]] = Append(disk[name[c]], p.data)]
             \/ k <= m /\ disk' = disk
          /\ prevPacketNum' = k
      BY <2>4, <2>7, <3>1, <3>2 DEF ReceivePacket, IsUnique
    <3>4. disk[name[c]] \in Seq(Payloads) /\ name[c] \in Names
          /\ disk \in [Names -> Seq(Payloads)]
      BY StateTypes DEF TypeInvariant, TypeOK
    <3>5. PICK l \in 0..Len(file[c]) : l = IF k = m + 1 THEN m + 1 ELSE m
      BY <2>2, <2>7, <2>9
    <3>6. m <= l /\ k <= l
      BY <2>7, <3>5
    <3>7. InOrder(file[c], l, disk'[name[c]])
      <4>1. CASE disk' = [disk EXCEPT ![name[c]] = Append(disk[name[c]], p.data)]
        <5>1. disk'[name[c]] = Append(disk[name[c]], p.data)
          BY <3>4, <4>1
        <5>2. /\ InOrder(file[c], m, Append(disk[name[c]], p.data))
              /\ p.data = file[c][m + 1] =>
                   InOrder(file[c], m + 1, Append(disk[name[c]], p.data))
          BY <1>6, <2>4, <3>4, InOrderAppend
        <5>. QED
          BY <3>2, <3>5, <5>1, <5>2
      <4>2. CASE k <= m /\ disk' = disk
        BY <2>4, <2>7, <3>5, <4>2
      <4>. QED
        BY <3>3, <4>1, <4>2
    <3> DEFINE more == 0..l \cup {(Len(file[c]) + 1) % OperationBase}
    <3>8. \A i \in DOMAIN s2c'[c] : s2c'[c][i] \in more
      <4>1. p.num \in more /\ \A i \in DOMAIN s2c[c] : s2c[c][i] \in more
        BY <2>4, <2>7, <3>1, <3>6
      <4> HIDE DEF more
      <4>. QED
        BY <1>1, <1>6, <2>4, <4>1, OneAckMore
    <3>9. AckedBlocks(c) <= l
      BY <2>4, <3>6, StateTypes DEF AckedBlocks
    <3>10. prevPacketNum' \in 0..l /\ peer' = c /\ inputFile' = name[c]
      BY <1>1, <2>4, <2>7, <3>3, <3>6
    <3>11. OpenedWith(c, l)'
      BY <2>1, <2>5, <3>7, <3>8, <3>9, <3>10 DEF OpenedWith
    <3>. QED
      BY <2>1, <3>11 DEF Opened
  <2>. QED
    BY <2>2, <2>7, <2>8, <2>9
<1>. QED
  BY <1>1, <1>3, <1>4, <1>7, <1>8, HostileFrame DEF clientVars

LEMMA HostileReceiveBadChecksum ==
    ASSUME TypeInvariant, HostileInvariant, NEW c \in Clients, ReceiveBadChecksum(c)
    PROVE  HostileInvariant'
<1>1. /\ spc = "receiving" /\ c2s[c] # <<>> /\ c2s'[c] = Tail(c2s[c])
      /\ \A d \in Clients \ {c} : c2s'[d] = c2s[d]
      /\ UNCHANGED <<clientVars, spc, peer, inputFile, disk>>
      /\ SendAcknowledgement(0) /\ prevPacketNum' = 0
  BY DEF ReceiveBadChecksum, TypeInvariant, TypeOK
<1>2. IdleOK(c) /\ ClientOK(c) /\ (FirstPut(c) => Unopened(c) \/ Opened(c))
  BY DEF HostileInvariant
<1>3. puts'[c] \in Nat \ {0}
  BY <1>1, <1>2, StateTypes DEF IdleOK, clientVars
<1>4. ClientOK(c)'
  BY <1>1, <1>2, ClientUnchanged
<1>5. \A i \in DOMAIN c2s'[c] : i + 1 \in DOMAIN c2s[c] /\ c2s'[c][i] = c2s[c][i+1]
  BY <1>1, StateTypes, HeadTail
<1>6. \A d \in Clients : puts[d] = 0 => s2c'[d] = s2c[d]
  BY <1>1, ZeroType, AckedIsNotIdle
<1>7. ASSUME FirstPut(c)' PROVE Opened(c)'
  <2>1. FirstPut(c) /\ AckedBlocks(c)' = AckedBlocks(c) /\ Sent(c)' = Sent(c)
        /\ file'[c] = file[c] /\ name'[c] = name[c]
    BY <1>1, <1>7, ClientSame
  <2>2. PICK m \in 0..Len(file[c]) : OpenedWith(c, m)
    BY <1>1, <1>2, <2>1 DEF Unopened, Opened
  <2> DEFINE acks == 0..m \cup {(Len(file[c]) + 1) % OperationBase}
  <2>3. /\ peer = c /\ 0 \in acks
        /\ \A i \in DOMAIN s2c[c] : s2c[c][i] \in acks
    BY <1>1, <2>2 DEF OpenedWith
  <2>4. \A i \in DOMAIN s2c'[c] : s2c'[c][i] \in acks
    <3> HIDE DEF acks
    <3>. QED
      BY <1>1, <2>3, ZeroType, OneAckMore
  <2>5. \A i \in DOMAIN c2s'[c] : c2s'[c][i] \in Sent(c)
    BY <1>5, <2>2 DEF OpenedWith
  <2>6. OpenedWith(c, m)'
    BY <1>1, <2>1, <2>2, <2>4, <2>5 DEF OpenedWith
  <2>. QED
    BY <2>1, <2>6 DEF Opened
<1>. QED
  BY <1>1, <1>3, <1>4, <1>6, <1>7, HostileFrame DEF clientVars

\* The network takes datagrams away, or changes their order.
LEMMA HostileNetwork ==
    ASSUME TypeInvariant, HostileInvariant, NEW c \in Clients,
           UNCHANGED <<clientVars, serverVars>>, c2s[c] # <<>> \/ s2c[c] # <<>>,
           \A d \in Clients \ {c} : c2s'[d] = c2s[d] /\ s2c'[d] = s2c[d],
           Selection(c2s[c], c2s'[c]), Selection(s2c[c], s2c'[c]),
           s2c'[c] \in Seq(0..OperationBase-1)
    PROVE  HostileInvariant'
<1>1. IdleOK(c) /\ ClientOK(c) /\ (FirstPut(c) => Unopened(c) \/ Opened(c))
  BY DEF HostileInvariant
<1>2. puts'[c] \in Nat \ {0} /\ ClientOK(c)'
  BY <1>1, StateTypes, ClientUnchanged DEF IdleOK, clientVars
<1>3. FirstPut(c)' => Unopened(c)' \/ Opened(c)'
  BY <1>1, ClientSame, FewerDatagrams
<1>. QED
  BY <1>2, <1>3, HostileFrame DEF clientVars, serverVars

LEMMA HostileLoseDatagram ==
    ASSUME TypeInvariant, HostileInvariant, NEW c \in Clients, LoseDatagram(c)
    PROVE  HostileInvariant'
<1>1. /\ UNCHANGED <<clientVars, serverVars>>
      /\ \A d \in Clients \ {c} : c2s'[d] = c2s[d] /\ s2c'[d] = s2c[d]
      /\ \/ c2s[c] # <<>> /\ c2s'[c] = Tail(c2s[c]) /\ s2c'[c] = s2c[c]
         \/ s2c[c] # <<>> /\ s2c'[c] = Tail(s2c[c]) /\ c2s'[c] = c2s[c]
  BY DEF LoseDatagram, TypeInvariant, TypeOK
<1>2. c2s[c] \in Seq(PacketSet) /\ s2c[c] \in Seq(0..OperationBase-1)
  BY StateTypes
<1>3. /\ c2s[c] # <<>> => Selection(c2s[c], Tail(c2s[c]))
      /\ s2c[c] # <<>> => Selection(s2c[c], Tail(s2c[c]))
                          /\ Tail(s2c[c]) \in Seq(0..OperationBase-1)
  BY <1>2, SelectionTail, HeadTailProperties
<1>4. Selection(c2s[c], c2s[c]) /\ Selection(s2c[c], s2c[c])
  BY SelectionSame
<1>5. /\ Selection(c2s[c], c2s'[c]) /\ Selection(s2c[c], s2c'[c])
      /\ s2c'[c] \in Seq(0..OperationBase-1)
  BY <1>1, <1>2, <1>3, <1>4
<1>. QED
  BY <1>1, <1>5, HostileNetwork

LEMMA HostileReorder ==
    ASSUME TypeInvariant, HostileInvariant, NEW c \in Clients, Reorder(c)
    PROVE  HostileInvariant'
<1>1. c2s[c] \in Seq(PacketSet) /\ s2c[c] \in Seq(0..OperationBase-1)
  BY StateTypes
<1>2. UNCHANGED <<clientVars, serverVars>>
      /\ Selection(c2s[c], c2s[c]) /\ Selection(s2c[c], s2c[c])
  BY SelectionSame DEF Reorder
<1>3. CASE /\ \E i \in 1 .. Len(c2s[c])-1 : c2s' = [c2s EXCEPT ![c] = Swapped(@, i)]
           /\ UNCHANGED s2c
  <2>1. PICK i \in 1 .. Len(c2s[c])-1 : c2s' = [c2s EXCEPT ![c] = Swapped(c2s[c], i)]
    BY <1>3
  <2>2. c2s'[c] = Swapped(c2s[c], i) /\ \A d \in Clients \ {c} : c2s'[d] = c2s[d]
    BY <2>1 DEF TypeInvariant, TypeOK
  <2>3. c2s[c] # <<>>
    BY <1>1, <2>1
  <2>4. Selection(c2s[c], c2s'[c])
    BY <1>1, <2>2, SelectionSwapped
  <2>. QED
    BY <1>1, <1>2, <1>3, <2>2, <2>3, <2>4, HostileNetwork
<1>4. CASE /\ \E i \in 1 .. Len(s2c[c])-1 : s2c' = [s2c EXCEPT ![c] = Swapped(@, i)]
           /\ UNCHANGED c2s
  <2>1. PICK i \in 1 .. Len(s2c[c])-1 : s2c' = [s2c EXCEPT ![c] = Swapped(s2c[c], i)]
    BY <1>4
  <2>2. s2c'[c] = Swapped(s2c[c], i) /\ \A d \in Clients \ {c} : s2c'[d] = s2c[d]
    BY <2>1 DEF TypeInvariant, TypeOK
  <2>3. s2c[c] # <<>>
    BY <1>1, <2>1
  <2>4. Selection(s2c[c], s2c'[c]) /\ s2c'[c] \in Seq(0..OperationBase-1)
    BY <1>1, <2>2, SelectionSwapped, SwappedType
  <2>. QED
    BY <1>1, <1>2, <1>4, <2>2, <2>3, <2>4, HostileNetwork
<1>. QED
  BY <1>3, <1>4 DEF Reorder

LEMMA HostileStep == TypeInvariant /\ HostileInvariant /\ [Next]_vars => HostileInvariant'
<1> SUFFICES ASSUME TypeInvariant, HostileInvariant, [Next]_vars PROVE HostileInvariant'
  OBVIOUS
<1>1. CASE UNCHANGED vars
  <2>1. UNCHANGED <<clientVars, serverVars, c2s, s2c>>
    BY <1>1 DEF vars
  <2>2. ASSUME NEW c \in Clients
        PROVE  /\ IdleOK(c)' /\ ClientOK(c)'
               /\ FirstPut(c)' => Unopened(c)' \/ Opened(c)'
    <3>1. IdleOK(c)' /\ ClientOK(c)'
      BY <2>1, ClientUnchanged DEF HostileInvariant, IdleOK, clientVars, serverVars
    <3>2. Unopened(c) => Unopened(c)'
      BY <2>1, ClientSame DEF Unopened, serverVars
    <3>3. \A m : OpenedWith(c, m) => OpenedWith(c, m)'
      BY <2>1, ClientSame DEF OpenedWith, serverVars
    <3>4. Opened(c) => Opened(c)'
      BY <2>1, <3>3, ClientSame DEF Opened
    <3>. QED
      BY <2>1, <3>1, <3>2, <3>4, ClientSame DEF HostileInvariant
  <2>. QED
    BY <2>2 DEF HostileInvariant
<1>2. CASE Next
  <2> SUFFICES ASSUME NEW c \in Clients,
                      \/ \E n \in Names, content \in Files : Put(c, n, content)
                      \/ ClientStep(c)
                      \/ ServerStep(c)
                      \/ LoseDatagram(c)
                      \/ Reorder(c)
               PROVE  HostileInvariant'
    BY <1>2 DEF Next
  <2>1. CASE \E n \in Names, content \in Files : Put(c, n, content)
    BY <2>1, HostilePut
  <2>2. CASE ClientStep(c)
    BY <2>2, HostileFormatBuf, HostileSendPacket, HostileReceiveAck, HostileListenTimeout
    DEF ClientStep
  <2>3. CASE ServerStep(c)
    BY <2>3, HostileReceiveCommand, HostileReceivePacket, HostileReceiveBadChecksum
    DEF ServerStep
  <2>4. CASE LoseDatagram(c)
    BY <2>4, HostileLoseDatagram
  <2>5. CASE Reorder(c)
    BY <2>5, HostileReorder
  <2>. QED
    BY <2>1, <2>2, <2>3, <2>4, <2>5
<1>. QED
  BY <1>1, <1>2

\* The blocks a client in its first put knows to have arrived are stored.
LEMMA KnownIsStored == TypeInvariant /\ HostileInvariant => NothingMissing
<1> SUFFICES ASSUME TypeInvariant, HostileInvariant, NEW c \in Clients, FirstPut(c)
             PROVE  InOrder(file[c], AckedBlocks(c), disk[name[c]])
  BY DEF NothingMissing
<1>1. AckedBlocks(c) \in Nat
  BY StateTypes DEF TypeInvariant, LoopsOK, AckedBlocks, FirstPut, InPut
<1>2. CASE Unopened(c)
  <2>1. AckedBlocks(c) = 0
    BY <1>1, <1>2, StateTypes DEF Unopened, AckedBlocks, Built
  <2>. QED
    BY <2>1, InOrderNone
<1>3. CASE Opened(c)
  <2>1. PICK m \in 0..Len(file[c]) : OpenedWith(c, m)
    BY <1>3 DEF Opened
  <2>2. m \in Nat /\ AckedBlocks(c) \in 0..m /\ InOrder(file[c], m, disk[name[c]])
    BY <1>1, <2>1, StateTypes DEF OpenedWith
  <2>. QED
    BY <2>2, InOrderLess
<1>. QED
  BY <1>2, <1>3 DEF HostileInvariant

\* On any network, one that loses, delays, reorders and damages datagrams included,
\* and whatever the bounds, the number of clients and the base: in the first put of a
\* client that is alone, of a file with fewer blocks than there are packet numbers,
\* every block the client takes as acknowledged (checkIfPacketMatchesAck) is in the
\* server's file, behind the blocks before it.
THEOREM NothingMissingCorrect == Spec => []NothingMissing
<1>1. Init => TypeInvariant /\ HostileInvariant
  BY TypeInit, HostileInit
<1>2. TypeInvariant /\ HostileInvariant /\ [Next]_vars
        => TypeInvariant' /\ HostileInvariant'
  BY TypeStep, HostileStep
<1>3. TypeInvariant /\ HostileInvariant => NothingMissing
  BY KnownIsStored
<1>. QED
  BY <1>1, <1>2, <1>3, PTL DEF Spec

-----------------------------------------------------------------------------
(* What the invariant gives. *)

\* Block by block equal, and no longer: a prefix.
LEMMA PrefixFact ==
    ASSUME NEW S, NEW s \in Seq(S), NEW t \in Seq(S), Len(s) <= Len(t),
           \A i \in 1..Len(s) : s[i] = t[i]
    PROVE  IsPrefix(s, t)
<1>1. /\ SubSeq(s, 1, Len(s)) \in Seq(S) /\ SubSeq(t, 1, Len(s)) \in Seq(S)
      /\ Len(SubSeq(s, 1, Len(s))) = Len(s) /\ Len(SubSeq(t, 1, Len(s))) = Len(s)
      /\ \A i \in 1..Len(s) : /\ SubSeq(s, 1, Len(s))[i] = s[i]
                              /\ SubSeq(t, 1, Len(s))[i] = t[i]
  OBVIOUS
<1>2. SubSeq(s, 1, Len(s)) = SubSeq(t, 1, Len(s))
  BY <1>1, SeqEqual
<1>. QED
  BY <1>2 DEF IsPrefix

\* What the server holds of the put of a clean client, at every stage.
LEMMA HoldsWhatItShould ==
    ASSUME TypeInvariant, PutInvariant
    PROVE  StoredIsPrefix /\ AckedIsStored /\ PutIsComplete
<1>1. StoredIsPrefix
  <2> SUFFICES ASSUME NEW c \in Clients, Clean(c), spc = "receiving"
               PROVE  IsPrefix(disk[inputFile], file[c])
    BY DEF StoredIsPrefix
  <2>1. puts[c] > 0
    <3>1. (\E d \in Clients : puts[d] # 0)
      BY DEF TypeInvariant, TypeOK, ServerOK, PutInvariant, IdleOK
    <3>. QED
      BY <3>1, StateTypes DEF Clean, Solo
  <2>2. Storing(c)
    BY <2>1 DEF PutInvariant, PutOK, Opening, Stored
  <2>3. disk[name[c]] \in Seq(Payloads) /\ file[c] \in Seq(Payloads)
    BY StateTypes DEF Payloads
  <2>. QED
    BY <2>2, <2>3, PrefixFact DEF Storing, Written
<1>2. AckedIsStored
  <2> SUFFICES ASSUME NEW c \in Clients, Clean(c), InPut(c), AckedBlocks(c) > 0
               PROVE  IsPrefix(SubSeq(file[c], 1, AckedBlocks(c)), disk[name[c]])
    BY DEF AckedIsStored
  <2> DEFINE k == AckedBlocks(c)
  <2>1. puts[c] > 0
    BY StateTypes DEF PutInvariant, IdleOK, InPut
  <2>2. disk[name[c]] \in Seq(Payloads) /\ file[c] \in Seq(Payloads)
    BY StateTypes DEF Payloads
  <2>3. k = (IF cpc[c] = "read" THEN Built(c) ELSE Built(c) - 1) /\ k \in Int
    BY StateTypes DEF AckedBlocks, Built
  <2>4. Len(file[c]) \in Nat /\ Built(c) \in Int /\ Written(c) \in Nat
    BY StateTypes
  <2>5. ~Opening(c)
    BY <2>3 DEF Opening, InPut
  <2>6. /\ k <= Len(disk[name[c]]) /\ k <= Len(file[c])
        /\ \A i \in 1..k : disk[name[c]][i] = file[c][i]
    <3>1. CASE Storing(c)
      <4>1. k <= Written(c)
        BY <2>3, <2>4, <3>1 DEF Storing
      <4>. QED
        BY <2>3, <2>4, <3>1, <4>1 DEF Storing, Written
    <3>2. CASE Stored(c)
      BY <2>3, <2>4, <3>2 DEF Stored, InPut
    <3>. QED
      BY <2>1, <2>5, <3>1, <3>2 DEF PutInvariant, PutOK
  <2> DEFINE s == SubSeq(file[c], 1, k)
  <2>7. /\ s \in Seq(Payloads) /\ Len(s) = k
        /\ \A i \in 1..k : s[i] = file[c][i]
    BY <2>2, <2>3, <2>6
  <2> HIDE DEF s
  <2>8. IsPrefix(s, disk[name[c]])
    BY <2>2, <2>3, <2>6, <2>7, PrefixFact
  <2>. QED
    BY <2>8 DEF s
<1>3. PutIsComplete
  BY DEF PutIsComplete, PutInvariant, PutOK, Opening, Storing, Stored
<1>. QED
  BY <1>1, <1>2, <1>3

\* On a network that drops and delays but keeps the order the inductive invariant of
\* put holds, which says what of a block and its acknowledgement is where.
THEOREM PutInvariantCorrect ==
    ASSUME Fifo
    PROVE  Spec => []PutInvariant
BY InvariantCorrect, PTL

\* On a network that drops and delays but keeps the order, whatever the bounds,
\* the number of clients, the files and the base: what the server's receive loop
\* has written is a prefix of the client's file.
THEOREM StoredIsPrefixCorrect ==
    ASSUME Fifo
    PROVE  Spec => []StoredIsPrefix
<1>1. TypeInvariant /\ PutInvariant => StoredIsPrefix
  BY HoldsWhatItShould
<1>. QED
  BY <1>1, InvariantCorrect, PTL

\* On the same network a block whose acknowledgement the client took is stored.
THEOREM AckedIsStoredCorrect ==
    ASSUME Fifo
    PROVE  Spec => []AckedIsStored
<1>1. TypeInvariant /\ PutInvariant => AckedIsStored
  BY HoldsWhatItShould
<1>. QED
  BY <1>1, InvariantCorrect, PTL

\* On the same network a put that brought the client back to its prompt, with its
\* LASTPACKET acknowledged, left the whole file at the server.
THEOREM PutIsCompleteCorrect ==
    ASSUME Fifo
    PROVE  Spec => []PutIsComplete
<1>1. TypeInvariant /\ PutInvariant => PutIsComplete
  BY HoldsWhatItShould
<1>. QED
  BY <1>1, InvariantCorrect, PTL

-----------------------------------------------------------------------------
(* What ClientReturns rests on: the client's loops come down. *)

\* The lexicographic order, which has no infinite descent among natural numbers.
Below(a, b) ==
    \E i \in 1..5 : a[i] < b[i] /\ \A j \in 1..i-1 : a[j] = b[j]

\* What a client in a put has before it: packets to build, whether one is to be
\* acknowledged, sends, whether the next step is one, and listens.
LeftToDo(c) ==
    <<Len(file[c]) + 2 - packetNum[c],
      IF cpc[c] = "read" THEN 0 ELSE 1,
      NumSends - numSends[c],
      IF cpc[c] = "send" THEN 1 ELSE 0,
      NumSends - numListens[c]>>

\* Every step of a client in its loops (client.c, main) ends the put or leaves less to
\* do, and no step of anybody else gives it more.
LoopsComeDown ==
    [][\A c \in Clients :
           InPut(c) =>
               /\ \A i \in 1..5 : LeftToDo(c)[i] \in Nat
               /\ ClientStep(c) => ~InPut(c)' \/ Below(LeftToDo(c)', LeftToDo(c))
               /\ ~ClientStep(c) => InPut(c)' /\ LeftToDo(c)' = LeftToDo(c)]_vars

LEMMA LoopTypes ==
    ASSUME TypeInvariant, HostileInvariant, NEW c \in Clients, InPut(c)
    PROVE  /\ Len(file[c]) \in Nat /\ packetNum[c] \in Nat
           /\ NumSends \in Nat /\ numSends[c] \in Nat /\ numListens[c] \in Nat
           /\ packetNum[c] <= Len(file[c]) + 2
           /\ numSends[c] <= NumSends /\ numListens[c] <= NumSends
           /\ \A i \in 1..5 : LeftToDo(c)[i] \in Nat
<1>1. /\ Len(file[c]) \in Nat /\ packetNum[c] \in Nat
      /\ NumSends \in Nat /\ numSends[c] \in 0..NumSends /\ numListens[c] \in 0..NumSends
  BY StateTypes, Bounds DEF TypeInvariant, TypeOK
<1>2. packetNum[c] <= Len(file[c]) + 2
  BY <1>1 DEF HostileInvariant, ClientOK, InPut, Built
<1>3. /\ Len(file[c]) + 2 - packetNum[c] \in Nat
      /\ NumSends - numSends[c] \in Nat /\ NumSends - numListens[c] \in Nat
  BY <1>1, <1>2
<1>4. \A i \in 1..5 : LeftToDo(c)[i] \in Nat
  <2> TAKE i \in 1..5
  <2>. QED
    BY <1>3 DEF LeftToDo
<1>. QED
  BY <1>1, <1>2, <1>4

LEMMA OwnStepComesDown ==
    ASSUME TypeInvariant, HostileInvariant, NEW c \in Clients, InPut(c),
           ClientStep(c), InPut(c)'
    PROVE  Below(LeftToDo(c)', LeftToDo(c))
<1>0. /\ Len(file[c]) \in Nat /\ packetNum[c] \in Nat
      /\ NumSends \in Nat /\ numSends[c] \in Nat /\ numListens[c] \in Nat
      /\ UNCHANGED file
  BY LoopTypes DEF ClientStep, FormatBuf, SendPacket, ReceiveAck, ListenTimeout
<1>1. CASE FormatBuf(c)
  <2>1. packetNum'[c] = packetNum[c] + 1
    BY <1>1 DEF FormatBuf, TypeInvariant, TypeOK
  <2>2. LeftToDo(c)'[1] < LeftToDo(c)[1]
    BY <1>0, <2>1 DEF LeftToDo
  <2>. QED
    BY <2>2 DEF Below
<1>2. CASE SendPacket(c)
  <2>1. /\ cpc[c] = "send" /\ cpc'[c] = "listen"
        /\ packetNum' = packetNum /\ numSends' = numSends
    BY <1>2 DEF SendPacket, TypeInvariant, TypeOK
  <2>2. /\ \A j \in 1..3 : LeftToDo(c)'[j] = LeftToDo(c)[j]
        /\ LeftToDo(c)'[4] < LeftToDo(c)[4]
    BY <1>0, <2>1 DEF LeftToDo
  <2>. QED
    BY <2>2 DEF Below
<1>3. CASE ReceiveAck(c) \/ ListenTimeout(c)
  <2>1. cpc[c] = "listen" /\ packetNum' = packetNum
        /\ (Acknowledged(c) \/ NotAcknowledged(c))
    BY <1>3 DEF ReceiveAck, ListenTimeout
  <2>2. CASE cpc'[c] = "read"
    <3>1. LeftToDo(c)'[1] = LeftToDo(c)[1] /\ LeftToDo(c)'[2] < LeftToDo(c)[2]
      BY <1>0, <2>1, <2>2 DEF LeftToDo
    <3>. QED
      BY <3>1 DEF Below
  <2>3. CASE cpc'[c] = "send"
    <3>1. numSends'[c] = numSends[c] + 1
      BY <2>1, <2>3 DEF Acknowledged, NotAcknowledged, TypeInvariant, TypeOK
    <3>2. /\ \A j \in 1..2 : LeftToDo(c)'[j] = LeftToDo(c)[j]
          /\ LeftToDo(c)'[3] < LeftToDo(c)[3]
      BY <1>0, <2>1, <2>3, <3>1 DEF LeftToDo
    <3>. QED
      BY <3>2 DEF Below
  <2>4. CASE cpc'[c] = "listen"
    <3>1. numSends'[c] = numSends[c] /\ numListens'[c] = numListens[c] + 1
      BY <2>1, <2>4 DEF Acknowledged, NotAcknowledged, TypeInvariant, TypeOK
    <3>2. /\ \A j \in 1..4 : LeftToDo(c)'[j] = LeftToDo(c)[j]
          /\ LeftToDo(c)'[5] < LeftToDo(c)[5]
      BY <1>0, <2>1, <2>4, <3>1 DEF LeftToDo
    <3>. QED
      BY <3>2 DEF Below
  <2>. QED
    BY <2>2, <2>3, <2>4 DEF InPut
<1>. QED
  BY <1>1, <1>2, <1>3 DEF ClientStep

LEMMA OtherStepLeavesIt ==
    ASSUME TypeInvariant, NEW c \in Clients, InPut(c), [Next]_vars, ~ClientStep(c)
    PROVE  InPut(c)' /\ LeftToDo(c)' = LeftToDo(c)
<1> DEFINE SameLoops ==
        /\ cpc'[c] = cpc[c] /\ file'[c] = file[c] /\ packetNum'[c] = packetNum[c]
        /\ numSends'[c] = numSends[c] /\ numListens'[c] = numListens[c]
<1>1. SameLoops
  <2>1. CASE UNCHANGED clientVars
    BY <2>1 DEF clientVars
  <2>2. ASSUME NEW d \in Clients, NEW n \in Names, NEW content \in Files, Put(d, n, content)
        PROVE  SameLoops
    <3>1. d # c
      BY <2>2 DEF Put, InPut
    <3>. QED
      BY <2>2, <3>1 DEF Put, TypeInvariant, TypeOK
  <2>3. ASSUME NEW d \in Clients, ClientStep(d)
        PROVE  SameLoops
    <3>1. d # c
      BY <2>3
    <3>. QED
      BY <2>3, <3>1
      DEF ClientStep, FormatBuf, SendPacket, ReceiveAck, ListenTimeout, Acknowledged,
          NotAcknowledged, TypeInvariant, TypeOK
  <2>. QED
    BY <2>1, <2>2, <2>3
    DEF Next, vars, clientVars, ServerStep, ReceiveCommand, ReceivePacket, ReceiveBadChecksum,
        LoseDatagram, Reorder
<1>. QED
  BY <1>1 DEF InPut, LeftToDo

\* Whatever the network, a client in a put never goes round without coming nearer to
\* the end of its loops, for any bounds, files and number of clients.
THEOREM LoopsComeDownCorrect == Spec => LoopsComeDown
<1>1. TypeInvariant /\ HostileInvariant /\ [Next]_vars =>
        [\A c \in Clients :
           InPut(c) =>
               /\ \A i \in 1..5 : LeftToDo(c)[i] \in Nat
               /\ ClientStep(c) => ~InPut(c)' \/ Below(LeftToDo(c)', LeftToDo(c))
               /\ ~ClientStep(c) => InPut(c)' /\ LeftToDo(c)' = LeftToDo(c)]_vars
  BY LoopTypes, OwnStepComesDown, OtherStepLeavesIt
<1>2. Init => TypeInvariant /\ HostileInvariant
  BY TypeInit, HostileInit
<1>3. TypeInvariant /\ HostileInvariant /\ [Next]_vars
        => TypeInvariant' /\ HostileInvariant'
  BY TypeStep, HostileStep
<1>. QED
  BY <1>1, <1>2, <1>3, PTL DEF Spec, LoopsComeDown
=============================================================================
