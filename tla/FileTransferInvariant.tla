------------------------- MODULE FileTransferInvariant -------------------------
(***************************************************************************)
(* Why stop-and-wait works here: the inductive invariant behind            *)
(* StoredIsPrefix, AckedIsStored and PutIsComplete, on a network that may  *)
(* drop and delay datagrams but neither reorders nor damages them.         *)
(*                                                                         *)
(* It follows one client c that is alone and has had every LASTPACKET      *)
(* acknowledged (Clean).  Each put of c goes through three stages: the     *)
(* server has not taken its command yet (Opening), is writing its blocks   *)
(* (Storing), or has taken its LASTPACKET (Stored).                        *)
(***************************************************************************)
EXTENDS FileTransfer

\* The network keeps the order of each channel.
Fifo == Faults \subseteq {"loss", "late"}

\* Packet i of the current put, and the highest one built so far.
PutPacket(c, i) ==
    Packet(i, IF i > Len(file[c]) THEN LastPacket ELSE file[c][i])
Built(c) == packetNum[c] - 1

\* A client that never put anything has no part in the system.
IdleOK(c) ==
    puts[c] = 0 =>
        cpc[c] = "prompt" /\ c2s[c] = <<>> /\ s2c[c] = <<>> /\ peer # c

ServerOK == spc = "receiving" => peer # NoClient

\* The client's loop counters and its next packet.
LoopsOK(c) ==
    /\ cpc[c] = "read" => packetNum[c] > 0
    /\ cpc[c] \in {"send", "listen"} => packetNum[c] > 1 /\ numSends[c] < NumSends
    /\ cpc[c] = "listen" => numListens[c] < NumSends

\* The types, inductively.  Proved for every network.
TypeInvariant == TypeOK /\ ServerOK /\ \A c \in Clients : LoopsOK(c)

\* What a client in a put is sending.
ClientOK(c) ==
    /\ cpc[c] = "read" => Built(c) \in 0..Len(file[c])
    /\ cpc[c] \in {"send", "listen"} =>
          /\ Built(c) \in 1..Len(file[c])+1
          /\ packet[c] = PutPacket(c, Built(c))
          /\ isEOF[c] = (Built(c) > Len(file[c]))
    /\ cpc[c] = "exited" => Built(c) \in 1..Len(file[c])

\* Before the server takes the command: no acknowledgement exists, and behind
\* the command (if it is not lost) there are only copies of packet 1.
Opening(c) ==
    /\ spc = "command"
    /\ s2c[c] = <<>>
    /\ cpc[c] \in {"read", "send", "listen", "exited"}
    /\ Built(c) = IF cpc[c] = "read" THEN 0 ELSE 1
    /\ \A i \in DOMAIN c2s[c] :
          c2s[c][i].data \in Commands =>
              /\ c2s[c][i] = Packet(0, Command(name[c]))
              /\ \A j \in DOMAIN c2s[c] :
                    j > i => Built(c) = 1 /\ c2s[c][j] = PutPacket(c, 1)

\* A queue that holds elements of old, and behind them elements of new.
OldThenNew(q, old, new) ==
    /\ \A i \in DOMAIN q : q[i] \in old \cup new
    /\ \A i, j \in DOMAIN q : i < j /\ q[i] \in new => q[j] \in new

\* While it writes: w blocks are stored, in order, and the number of the last
\* of them is remembered.  Packets on the way are old copies of packet w, then
\* copies of packet w+1, if it is built.  Acknowledgements on the way are old
\* ones of the packet before the latest, then those of the latest, if stored.
Written(c) == Len(disk[name[c]])
OldPackets(c) == IF Written(c) > 0 THEN {PutPacket(c, Written(c))} ELSE {}
NewPackets(c) == IF Built(c) > Written(c) THEN {PutPacket(c, Built(c))} ELSE {}
OldAcks(c) ==
    IF cpc[c] # "read" /\ Built(c) > 1 THEN {(Built(c) - 1) % OperationBase} ELSE {}
NewAcks(c) ==
    IF Built(c) = Written(c) /\ Written(c) > 0 THEN {Built(c) % OperationBase} ELSE {}

Storing(c) ==
    /\ spc = "receiving"
    /\ peer = c
    /\ inputFile = name[c]
    /\ cpc[c] \in {"read", "send", "listen", "exited"}
    /\ Written(c) <= Len(file[c])
    /\ \A i \in 1..Written(c) : disk[name[c]][i] = file[c][i]
    /\ prevPacketNum = Written(c) % OperationBase
    /\ \/ Built(c) = Written(c)
       \/ Built(c) = Written(c) + 1 /\ cpc[c] # "read"
    /\ OldThenNew(c2s[c], OldPackets(c), NewPackets(c))
    /\ OldThenNew(s2c[c], OldAcks(c), NewAcks(c))

\* A queue that holds copies of old, and one last element.
OldThenOne(q, old, last) ==
    \A i \in DOMAIN q : q[i] = IF i = Len(q) THEN last ELSE old

\* After LASTPACKET: the file is whole, only copies of LASTPACKET are on the way,
\* and its one acknowledgement is the last one on the way, or gone.
Stored(c) ==
    LET b == Built(c)
    IN  /\ spc = "command"
        /\ disk[name[c]] = file[c]
        /\ b = Len(file[c]) + 1
        /\ cpc[c] \in {"send", "listen", "prompt"}
        /\ cpc[c] = "prompt" => s2c[c] = <<>>
        /\ \A i \in DOMAIN c2s[c] : c2s[c][i].data = LastPacket
        /\ OldThenOne(s2c[c], (b - 1) % OperationBase, b % OperationBase)

PutOK(c) == Clean(c) /\ puts[c] > 0 => Opening(c) \/ Storing(c) \/ Stored(c)

\* The inductive invariant, beside TypeInvariant.  Checked and proved for Fifo.
PutInvariant == \A c \in Clients : IdleOK(c) /\ ClientOK(c) /\ PutOK(c)

=============================================================================
