------------------------------ MODULE FileTransfer ------------------------------
(***************************************************************************)
(* "put" of the UDP File Transfer pair (Self Work/UDP File Transfer): the  *)
(* interactive client programs, the one server, and the datagrams between  *)
(* them.  A block is what one fread returns (at most 1020 bytes); a file   *)
(* is the sequence of its blocks.                                          *)
(*                                                                         *)
(* A packet is [num, data]: the two length digits of its header are        *)
(* recovered exactly (CodecProofs, HeaderRoundTrip), so they are left out. *)
(* All that the server ever sends is an acknowledgement carrying the text  *)
(* ACK, so an acknowledgement is represented by its number.                *)
(***************************************************************************)
EXTENDS Packets, Sequences, SequencesExt

CONSTANTS
    Clients,     \* client processes, each with a socket of its own
    Names,       \* file names a user may type
    Blocks,      \* contents of one fread
    MaxBlocks,   \* bound: blocks in a file
    MaxPuts,     \* bound: put commands typed at one client
    NumSends,    \* NUMSENDS: sends of a packet, and listens after each send
    LastPacket,  \* the text LASTPACKET
    NoClient,    \* the server's client address before any datagram arrived
    Faults       \* what this network does, a subset of FaultKinds

\* "loss":    a datagram may be dropped;
\* "late":    a datagram may outlast the 2 ms a select waits for it;
\* "reorder": datagrams may overtake each other;
\* "badsum":  a datagram may fail its checksum after select announced it.
FaultKinds == {"loss", "late", "reorder", "badsum"}

\* The text of the command datagram "put n".
Command(n) == [put |-> n]
Commands == {Command(n) : n \in Names}

ASSUME ConstantsAssumption ==
    /\ MaxBlocks \in Nat
    /\ MaxPuts \in Nat
    /\ NumSends \in Nat \ {0}
    /\ NoClient \notin Clients
    /\ Names # {}
    /\ LastPacket \notin Blocks \cup Commands  \* no file holds a marker or
    /\ Blocks \cap Commands = {}              \* a command as a block
    /\ Faults \subseteq FaultKinds

AnyName == CHOOSE n \in Names : TRUE      \* for buffers not yet written
Files == UNION {[1..k -> Blocks] : k \in 0..MaxBlocks}
Payloads == Blocks \cup Commands \cup {LastPacket}

VARIABLES
    cpc,            \* client: "prompt", "read", "send", "listen" or "exited"
    name,           \* client: fileName
    file,           \* client: the content of the file it opened
    packetNum,      \* client: number of the next packet
    packet,         \* client: the packet being sent
    isEOF,          \* client: isEOF
    numSends,       \* client: numSends
    numListens,     \* client: numListens
    puts,           \* history: put commands typed so far
    gaveUp,         \* history: this client has left a put whose LASTPACKET
                    \*          was never acknowledged, as if it had succeeded
    spc,            \* server: "command" or "receiving"
    peer,           \* server: client, the address acknowledgements go to
    inputFile,      \* server: inputFile
    prevPacketNum,  \* server: prevPacketNum
    disk,           \* server: the content of each file, in blocks
    c2s,            \* datagrams from each client to the server
    s2c             \* acknowledgements to each client's socket

clientVars == <<cpc, name, file, packetNum, packet, isEOF, numSends,
                numListens, puts, gaveUp>>
serverVars == <<spc, peer, inputFile, prevPacketNum, disk>>
vars == <<clientVars, serverVars, c2s, s2c>>

\* A broken variant, for mutation runs: the number is not reduced.
PacketUnreduced(n, data) == [num |-> n, data |-> data]

Packet(n, data) == [num |-> n % OperationBase, data |-> data]
PacketSet == [num : 0..OperationBase-1, data : Payloads]

TypeOK ==
    /\ cpc \in [Clients -> {"prompt", "read", "send", "listen", "exited"}]
    /\ name \in [Clients -> Names]
    /\ file \in [Clients -> Files]
    /\ packetNum \in [Clients -> Nat]
    /\ packet \in [Clients -> PacketSet]
    /\ isEOF \in [Clients -> BOOLEAN]
    /\ numSends \in [Clients -> 0..NumSends]
    /\ numListens \in [Clients -> 0..NumSends]
    /\ puts \in [Clients -> 0..MaxPuts]
    /\ gaveUp \in [Clients -> BOOLEAN]
    /\ spc \in {"command", "receiving"}
    /\ peer \in Clients \cup {NoClient}
    /\ inputFile \in Names
    /\ prevPacketNum \in 0..OperationBase-1
    /\ disk \in [Names -> Seq(Payloads)]
    /\ c2s \in [Clients -> Seq(PacketSet)]
    /\ s2c \in [Clients -> Seq(0..OperationBase-1)]

Init ==
    /\ cpc = [c \in Clients |-> "prompt"]
    /\ name = [c \in Clients |-> AnyName]
    /\ file = [c \in Clients |-> <<>>]
    /\ packetNum = [c \in Clients |-> 0]
    /\ packet = [c \in Clients |-> Packet(0, LastPacket)]
    /\ isEOF = [c \in Clients |-> FALSE]
    /\ numSends = [c \in Clients |-> 0]
    /\ numListens = [c \in Clients |-> 0]
    /\ puts = [c \in Clients |-> 0]
    /\ gaveUp = [c \in Clients |-> FALSE]
    /\ spc = "command"
    /\ peer = NoClient
    /\ inputFile = AnyName
    /\ prevPacketNum = 0
    /\ disk = [n \in Names |-> <<>>]
    /\ c2s = [c \in Clients |-> <<>>]
    /\ s2c = [c \in Clients |-> <<>>]

-----------------------------------------------------------------------------
(* The client program. *)

\* The user types "put n" and the file exists: the command packet is built and
\* sent once.  Any other line, and a missing file, only bring the prompt back.
Put(c, n, content) ==
    /\ cpc[c] = "prompt"
    /\ puts[c] < MaxPuts
    /\ puts' = [puts EXCEPT ![c] = @ + 1]
    /\ name' = [name EXCEPT ![c] = n]
    /\ file' = [file EXCEPT ![c] = content]
    /\ packet' = [packet EXCEPT ![c] = Packet(0, Command(n))]
    /\ packetNum' = [packetNum EXCEPT ![c] = 1]
    /\ c2s' = [c2s EXCEPT ![c] = Append(@, Packet(0, Command(n)))]
    /\ isEOF' = [isEOF EXCEPT ![c] = FALSE]
    /\ cpc' = [cpc EXCEPT ![c] = "read"]
    /\ UNCHANGED <<numSends, numListens, gaveUp, serverVars, s2c>>

\* fread and formatBuf.  Every packet after the command holds one block, so
\* the next block of the file is block packetNum, and past it LASTPACKET.
FormatBuf(c) ==
    LET atEnd == packetNum[c] > Len(file[c])
        data  == IF atEnd THEN LastPacket ELSE file[c][packetNum[c]]
    IN  /\ cpc[c] = "read"
        /\ isEOF' = [isEOF EXCEPT ![c] = atEnd]
        /\ packet' = [packet EXCEPT ![c] = Packet(packetNum[c], data)]
        /\ packetNum' = [packetNum EXCEPT ![c] = @ + 1]
        /\ numSends' = [numSends EXCEPT ![c] = 0]
        /\ cpc' = [cpc EXCEPT ![c] = "send"]
        /\ UNCHANGED <<name, file, numListens, puts, gaveUp, serverVars,
                       c2s, s2c>>

\* One round of the numSends loop: sendto, then listen from zero.
SendPacket(c) ==
    /\ cpc[c] = "send"
    /\ c2s' = [c2s EXCEPT ![c] = Append(@, packet[c])]
    /\ numListens' = [numListens EXCEPT ![c] = 0]
    /\ cpc' = [cpc EXCEPT ![c] = "listen"]
    /\ UNCHANGED <<name, file, packetNum, packet, isEOF, numSends, puts,
                   gaveUp, serverVars, s2c>>

\* hasSent = 1: both loops end; the next fread, or the prompt after LASTPACKET.
Acknowledged(c) ==
    /\ cpc' = [cpc EXCEPT ![c] = IF isEOF[c] THEN "prompt" ELSE "read"]
    /\ numListens' = [numListens EXCEPT ![c] = @ + 1]
    /\ numSends' = [numSends EXCEPT ![c] = @ + 1]
    /\ UNCHANGED gaveUp

\* A broken variant: a listen that hears nothing is not counted.
NotAcknowledgedUncounted(c) == UNCHANGED <<numListens, numSends, cpc, gaveUp>>

\* A listen without the awaited acknowledgement.  The last listen of the last
\* send ends the program (return 1), or, at end of file, only the put.
NotAcknowledged(c) ==
    LET lastListen == numListens[c] + 1 = NumSends
        lastSend   == lastListen /\ numSends[c] + 1 = NumSends
    IN  /\ numListens' = [numListens EXCEPT ![c] = @ + 1]
        /\ numSends' = [numSends EXCEPT ![c] = IF lastListen THEN @ + 1 ELSE @]
        /\ cpc' = [cpc EXCEPT ![c] = IF ~lastListen THEN "listen"
                                     ELSE IF ~lastSend THEN "send"
                                     ELSE IF isEOF[c] THEN "prompt"
                                     ELSE "exited"]
        /\ gaveUp' = [gaveUp EXCEPT ![c] = @ \/ (lastSend /\ isEOF[c])]

\* select reports a datagram and recvfrom reads it.
ReceiveAck(c) ==
    /\ cpc[c] = "listen"
    /\ s2c[c] # <<>>
    /\ s2c' = [s2c EXCEPT ![c] = Tail(@)]
    /\ \/ MatchesAck(Head(s2c[c]), packetNum[c]) /\ Acknowledged(c)
       \/ ~MatchesAck(Head(s2c[c]), packetNum[c]) /\ NotAcknowledged(c)
    /\ UNCHANGED <<name, file, packetNum, packet, isEOF, puts, serverVars, c2s>>

\* select returns 0.  Unless datagrams can be late, it does so only when
\* nothing this client waits for is on its way.
ListenTimeout(c) ==
    /\ cpc[c] = "listen"
    /\ "late" \in Faults \/ (c2s[c] = <<>> /\ s2c[c] = <<>>)
    /\ NotAcknowledged(c)
    /\ UNCHANGED <<name, file, packetNum, packet, isEOF, puts, serverVars,
                   c2s, s2c>>

ClientStep(c) ==
    FormatBuf(c) \/ SendPacket(c) \/ ReceiveAck(c) \/ ListenTimeout(c)

-----------------------------------------------------------------------------
(* The server program. *)

\* Broken variants of OpenFile: mode "a", and prevPacketNum left as it was.
OpenFileToAppend(n) ==
    /\ spc' = "receiving"
    /\ inputFile' = n
    /\ prevPacketNum' = 0
    /\ UNCHANGED disk
OpenFileKeepNum(n) ==
    /\ spc' = "receiving"
    /\ inputFile' = n
    /\ disk' = [disk EXCEPT ![n] = <<>>]
    /\ UNCHANGED prevPacketNum

\* A put command: fopen(inputFile, "w"), and the receive loop begins.
OpenFile(n) ==
    /\ spc' = "receiving"
    /\ inputFile' = n
    /\ disk' = [disk EXCEPT ![n] = <<>>]
    /\ prevPacketNum' = 0

\* receiveCommandFromClient: anything but a put is dropped, yet its sender is
\* from now on the client.
ReceiveCommand(c) ==
    /\ spc = "command"
    /\ c2s[c] # <<>>
    /\ c2s' = [c2s EXCEPT ![c] = Tail(@)]
    /\ peer' = c
    /\ LET data == Head(c2s[c]).data
       IN  \/ data \in Commands /\ OpenFile(data.put)
           \/ data \notin Commands /\ UNCHANGED <<spc, inputFile, disk, prevPacketNum>>
    /\ UNCHANGED <<clientVars, s2c>>

\* The acknowledgement of packet number n, sent to the address the command
\* came from (receivePacketFromClient has only a copy of it).
SendAcknowledgement(n) == s2c' = [s2c EXCEPT ![peer] = Append(@, n)]

\* A broken variant: every packet counts as new.
AlwaysUnique(p) == TRUE

\* "The new packet is different from the old one": the numbers differ.
IsUnique(p) == prevPacketNum # p.num

\* The receive loop on one datagram: acknowledge, then leave at LASTPACKET, or
\* write the data unless the number repeats the previous one.
ReceivePacket(c) ==
    /\ spc = "receiving"
    /\ c2s[c] # <<>>
    /\ c2s' = [c2s EXCEPT ![c] = Tail(@)]
    /\ LET p == Head(c2s[c])
       IN  /\ SendAcknowledgement(p.num)
           /\ \/ /\ p.data = LastPacket
                 /\ spc' = "command"
                 /\ UNCHANGED <<disk, prevPacketNum>>
              \/ /\ p.data # LastPacket
                 /\ IsUnique(p)
                 /\ disk' = [disk EXCEPT ![inputFile] = Append(@, p.data)]
                 /\ prevPacketNum' = p.num
                 /\ UNCHANGED spc
              \/ /\ p.data # LastPacket
                 /\ ~IsUnique(p)
                 /\ UNCHANGED <<spc, disk, prevPacketNum>>
    /\ UNCHANGED <<clientVars, peer, inputFile>>

\* The same loop when recvfrom fails after select: the zeroed buffer is
\* acknowledged and handled as packet 0 with no data.
ReceiveBadChecksum(c) ==
    /\ "badsum" \in Faults
    /\ spc = "receiving"
    /\ c2s[c] # <<>>
    /\ c2s' = [c2s EXCEPT ![c] = Tail(@)]
    /\ SendAcknowledgement(0)
    /\ prevPacketNum' = 0
    /\ UNCHANGED <<clientVars, spc, peer, inputFile, disk>>

ServerStep(c) == ReceiveCommand(c) \/ ReceivePacket(c) \/ ReceiveBadChecksum(c)

-----------------------------------------------------------------------------
(* The network. *)

\* A datagram is dropped, or a client's recvfrom fails its checksum (the
\* listen loop's continue).  Dropping it when its turn comes is the same to
\* the programs as dropping it on the way.
LoseDatagram(c) ==
    /\ "loss" \in Faults
    /\ \/ c2s[c] # <<>> /\ c2s' = [c2s EXCEPT ![c] = Tail(@)] /\ UNCHANGED s2c
       \/ s2c[c] # <<>> /\ s2c' = [s2c EXCEPT ![c] = Tail(@)] /\ UNCHANGED c2s
    /\ UNCHANGED <<clientVars, serverVars>>

Swapped(q, i) == [q EXCEPT ![i] = q[i+1], ![i+1] = q[i]]

Reorder(c) ==
    /\ "reorder" \in Faults
    /\ \/ /\ \E i \in 1 .. Len(c2s[c])-1 : c2s' = [c2s EXCEPT ![c] = Swapped(@, i)]
          /\ UNCHANGED s2c
       \/ /\ \E i \in 1 .. Len(s2c[c])-1 : s2c' = [s2c EXCEPT ![c] = Swapped(@, i)]
          /\ UNCHANGED c2s
    /\ UNCHANGED <<clientVars, serverVars>>

-----------------------------------------------------------------------------

Next ==
    \E c \in Clients :
        \/ \E n \in Names, content \in Files : Put(c, n, content)
        \/ ClientStep(c)
        \/ ServerStep(c)
        \/ LoseDatagram(c)
        \/ Reorder(c)

Spec == Init /\ [][Next]_vars

\* The programs keep running: a client that is not waiting for its user takes
\* its next step, and the server takes the datagrams that have arrived.
FairSpec ==
    /\ Spec
    /\ \A c \in Clients : WF_vars(ClientStep(c)) /\ WF_vars(ServerStep(c))

-----------------------------------------------------------------------------
(* Properties. *)

\* No other client has ever sent anything, and none of c's puts ended at
\* LASTPACKET without an acknowledgement.
Solo(c) == \A d \in Clients \ {c} : puts[d] = 0
Clean(c) == Solo(c) /\ ~gaveUp[c]

InPut(c) == cpc[c] \in {"read", "send", "listen"}

\* How many blocks of the current put the client knows to have arrived.
AckedBlocks(c) == IF cpc[c] = "read" THEN packetNum[c] - 1 ELSE packetNum[c] - 2

\* While the server writes a put, what it has written is a prefix of the
\* client's file: no block lost, repeated or out of order (the prevPacketNum
\* test of the receive loop), whatever is dropped or late.
StoredIsPrefix ==
    \A c \in Clients :
        Clean(c) /\ spc = "receiving" => IsPrefix(disk[inputFile], file[c])

\* Every block whose acknowledgement the client accepted
\* (checkIfPacketMatchesAck) is in the server's file, in its place.
AckedIsStored ==
    \A c \in Clients :
        Clean(c) /\ InPut(c) /\ AckedBlocks(c) > 0 =>
            IsPrefix(SubSeq(file[c], 1, AckedBlocks(c)), disk[name[c]])

\* When a client is back at its prompt after a put, the server holds exactly
\* the file it sent.
PutIsComplete ==
    \A c \in Clients :
        Clean(c) /\ cpc[c] = "prompt" /\ puts[c] > 0 => disk[name[c]] = file[c]

\* The first m elements of f are among those of s, in the order they have in f.
InOrder(f, m, s) ==
    \E at \in [1..m -> DOMAIN s] :
        /\ \A i \in 1..m : s[at[i]] = f[i]
        /\ \A i, j \in 1..m : i < j => at[i] < at[j]

\* In the first put of a client, of a file so short that no packet number comes
\* twice, every acknowledged block has reached the server's file, and in the order of
\* the file, whatever the network does and even if others were written twice.
FirstPut(c) ==
    Clean(c) /\ InPut(c) /\ puts[c] = 1 /\ Len(file[c]) < OperationBase
NothingMissing ==
    \A c \in Clients :
        FirstPut(c) => InOrder(file[c], AckedBlocks(c), disk[name[c]])

\* An acknowledgement the client accepts answers the packet it sent (client.c,
\* checkIfPacketMatchesAck), also in a put after one it left unacknowledged.
AckIsForThisPacket ==
    \A c \in Clients :
        Solo(c) /\ InPut(c) /\ AckedBlocks(c) > 0 =>
            Len(disk[name[c]]) >= AckedBlocks(c)

\* A client never hangs in its loops: it comes back to the prompt or exits.
ClientReturns == \A c \in Clients : InPut(c) ~> ~InPut(c)

=============================================================================
