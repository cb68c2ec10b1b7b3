--------------------------------- MODULE FtpGet ---------------------------------
(***************************************************************************)
(* "get" of the primitive ftp (FTP Server/Main Assignment): interactive    *)
(* clients, one server, and the datagrams between them.                    *)
(*                                                                         *)
(* A block is what one fread of the server returns: a full block is 1019   *)
(* bytes, a short one 10 to 1018 bytes and a tiny one 1 to 9 bytes, whose  *)
(* length the trailer does not tell (FtpTrailer).  Files hold text:        *)
(* strcat would cut a block at a zero byte.                                *)
(*                                                                         *)
(* Both sides sleep 300 us and then poll their socket once, so a poll may  *)
(* always come too early, also for a datagram that is on its way.          *)
(***************************************************************************)
EXTENDS Naturals, Sequences, SequencesExt

CONSTANTS
    Clients,         \* client processes, each with a socket of its own
    Names,           \* file names a user may type, NoFiletoSend among them
    FullBlocks, ShortBlocks, TinyBlocks,
    MaxFull,         \* bound: full blocks in a file
    MaxCommands,     \* bound: commands typed at one client
    MaxAsks,         \* 3 in the code: sends of a command
    MaxTries,        \* 100 in the code: sends of a packet
    MaxPolls,        \* 1000 in the code: polls while a file is received
    SendingFile,     \* the text Sending_File
    Ack,             \* the text 1234567890
    Nothing,         \* a zeroed buffer
    Garbage          \* what is written of a packet whose length is misread

Blocks == FullBlocks \cup ShortBlocks \cup TinyBlocks

\* To the server: a command with its file name, or an acknowledgement.  A get is
\* told from the others (ls, exit, put, delete), and ls and exit carry the name
\* NoFiletoSend.
Requests == [op : {"get", "other"}, name : Names]
GetRequests == {r \in Requests : r.op = "get"}

ASSUME ConstantsAssumption ==
    /\ MaxFull \in Nat
    /\ MaxCommands \in Nat
    /\ {MaxAsks, MaxTries, MaxPolls} \subseteq Nat \ {0}
    /\ FullBlocks \cap (ShortBlocks \cup TinyBlocks) = {}
    /\ ShortBlocks \cap TinyBlocks = {}
    /\ {SendingFile, Nothing, Garbage} \cap Blocks = {}
    /\ SendingFile # Nothing
    /\ Ack \notin Requests
    /\ Clients # {} /\ Names # {}

\* A file: full blocks, then at most one smaller block.
Files ==
    LET full == UNION {[1..k -> FullBlocks] : k \in 0..MaxFull}
    IN  full \cup {Append(f, b) : f \in full, b \in ShortBlocks \cup TinyBlocks}

\* To a client: a text and whether its trailer tells its length.
Packets == [text : Blocks \cup {SendingFile}, right : BOOLEAN]

VARIABLES
    cpc,            \* client: "prompt", "ask", "reply" or "receive"
    request,        \* client: messageToSend
    asks,           \* client: i of sendAndReceieveMessage
    local,          \* client: the content of each file in its directory
    previous,       \* client: previousMessageReceived
    gotLast,        \* client: allPacketsReceieved
    polls,          \* client: i of receiveFile
    commands,       \* history: commands typed so far
    spc,            \* server: "wait", "read", "send", "listen" or "crashed"
    peer,           \* server: clientaddr
    remote,         \* server: the files in its directory
    sending,        \* server: the name of the file sendFile has open
    position,       \* server: blocks read from it
    sendBuf,        \* server: the packet being sent
    tries,          \* server: i of sendFile
    timedOut,       \* history: the server has left a file after MaxTries tries
    c2s,            \* datagrams from each client to the server
    s2c,            \* datagrams to each client's socket
    lossy           \* network: whether it drops datagrams, once and for all

clientVars == <<cpc, request, asks, local, previous, gotLast, polls, commands>>
serverVars == <<spc, peer, remote, sending, position, sendBuf, tries, timedOut>>
vars == <<clientVars, serverVars, c2s, s2c, lossy>>

TypeOK ==
    /\ cpc \in [Clients -> {"prompt", "ask", "reply", "receive"}]
    /\ request \in [Clients -> Requests]
    /\ asks \in [Clients -> 0..MaxAsks]
    /\ local \in [Clients -> [Names -> Seq(Blocks \cup {Garbage})]]
    /\ previous \in [Clients -> Blocks \cup {SendingFile, Nothing}]
    /\ gotLast \in [Clients -> BOOLEAN]
    /\ polls \in [Clients -> 0..MaxPolls]
    /\ commands \in [Clients -> 0..MaxCommands]
    /\ spc \in {"wait", "read", "send", "listen", "crashed"}
    /\ peer \in Clients
    /\ \E S \in SUBSET Names : remote \in [S -> Files]
    /\ sending \in Names
    /\ position \in 0..MaxFull+1
    /\ sendBuf \in Packets
    /\ tries \in 0..MaxTries
    /\ timedOut \in BOOLEAN
    /\ c2s \in [Clients -> Seq(Requests \cup {Ack})]
    /\ s2c \in [Clients -> Seq(Packets)]
    /\ lossy \in BOOLEAN

ReadyToSend == [text |-> SendingFile, right |-> TRUE]

Init ==
    /\ cpc = [c \in Clients |-> "prompt"]
    /\ request = [c \in Clients |-> CHOOSE r \in Requests : r.op = "other"]
    /\ asks = [c \in Clients |-> 0]
    /\ local = [c \in Clients |-> [n \in Names |-> <<>>]]
    /\ previous = [c \in Clients |-> Nothing]
    /\ gotLast = [c \in Clients |-> FALSE]
    /\ polls = [c \in Clients |-> 0]
    /\ commands = [c \in Clients |-> 0]
    /\ spc = "wait"
    /\ peer = CHOOSE c \in Clients : TRUE
    /\ \E S \in SUBSET Names : remote \in [S -> Files]
    /\ sending = CHOOSE n \in Names : TRUE
    /\ position = 0
    /\ sendBuf = ReadyToSend
    /\ tries = 0
    /\ timedOut = FALSE
    /\ c2s = [c \in Clients |-> <<>>]
    /\ s2c = [c \in Clients |-> <<>>]
    /\ lossy \in BOOLEAN

-----------------------------------------------------------------------------
(* The client program. *)

\* The user types a command that getUserCommand and getFileInputted accept.
\* exit is sent to the server like the others: the program has no other end.
TypeCommand(c, r) ==
    /\ cpc[c] = "prompt"
    /\ commands[c] < MaxCommands
    /\ commands' = [commands EXCEPT ![c] = @ + 1]
    /\ request' = [request EXCEPT ![c] = r]
    /\ asks' = [asks EXCEPT ![c] = 0]
    /\ gotLast' = [gotLast EXCEPT ![c] = FALSE]
    /\ cpc' = [cpc EXCEPT ![c] = "ask"]
    /\ UNCHANGED <<local, previous, polls, serverVars, c2s, s2c, lossy>>

\* sendAndReceieveMessage, before its poll.
SendRequest(c) ==
    /\ cpc[c] = "ask"
    /\ c2s' = [c2s EXCEPT ![c] = Append(@, request[c])]
    /\ cpc' = [cpc EXCEPT ![c] = "reply"]
    /\ UNCHANGED <<request, asks, local, previous, gotLast, polls, commands,
                   serverVars, s2c, lossy>>

\* receiveFile begins: fopen "w" under the name the user typed, whatever the
\* command was.
BeginReceive(c) ==
    /\ cpc' = [cpc EXCEPT ![c] = "receive"]
    /\ previous' = [previous EXCEPT ![c] = Nothing]
    /\ polls' = [polls EXCEPT ![c] = 0]
    /\ local' = [local EXCEPT ![c][request[c].name] = <<>>]

\* Any datagram is taken as the reply; only Sending_File starts receiveFile.
ReceiveReply(c) ==
    /\ cpc[c] = "reply"
    /\ s2c[c] # <<>>
    /\ s2c' = [s2c EXCEPT ![c] = Tail(@)]
    /\ \/ Head(s2c[c]).text = SendingFile /\ BeginReceive(c)
       \/ /\ Head(s2c[c]).text # SendingFile
          /\ cpc' = [cpc EXCEPT ![c] = "prompt"]
          /\ UNCHANGED <<local, previous, polls>>
    /\ UNCHANGED <<request, asks, gotLast, commands, serverVars, c2s, lossy>>

\* No reply yet: ask again, at most MaxAsks times in all.
NoReply(c) ==
    /\ cpc[c] = "reply"
    /\ asks' = [asks EXCEPT ![c] = @ + 1]
    /\ cpc' = [cpc EXCEPT ![c] = IF asks[c] + 1 < MaxAsks THEN "ask" ELSE "prompt"]
    /\ UNCHANGED <<request, local, previous, gotLast, polls, commands,
                   serverVars, c2s, s2c, lossy>>

\* Broken variants, for mutation runs: a repeated packet is written again; a
\* full block counts as the last one.
AlwaysNew(c, m) == TRUE
AnyIsLast(m) == TRUE

\* "the current buffer is not the same as the previous buffer"
IsNew(c, m) == m.text # previous[c]

\* The trailer says less than BUFSIZE-5 bytes; that of a bare text says none.
IsLast(m) == m.text \notin FullBlocks

\* What fwrite appends for a packet.
Written(m) ==
    IF m.text = SendingFile THEN <<>>
    ELSE IF m.right THEN <<m.text>> ELSE <<Garbage>>

\* One round of receiveFile that polls a datagram m: write it if it is new,
\* acknowledge it in any case, and leave at the last packet or the last poll.
ReceiveFilePacket(c) ==
    LET m    == Head(s2c[c])
        done == (IsNew(c, m) /\ IsLast(m)) \/ polls[c] + 1 = MaxPolls
    IN  /\ cpc[c] = "receive"
        /\ s2c[c] # <<>>
        /\ s2c' = [s2c EXCEPT ![c] = Tail(@)]
        /\ local' = IF IsNew(c, m)
                    THEN [local EXCEPT ![c][request[c].name] = @ \o Written(m)]
                    ELSE local
        /\ previous' = [previous EXCEPT ![c] = m.text]
        /\ gotLast' = [gotLast EXCEPT ![c] = IsNew(c, m) /\ IsLast(m)]
        /\ c2s' = [c2s EXCEPT ![c] = Append(@, Ack)]
        /\ polls' = [polls EXCEPT ![c] = @ + 1]
        /\ cpc' = [cpc EXCEPT ![c] = IF done THEN "prompt" ELSE "receive"]
        /\ UNCHANGED <<request, asks, commands, serverVars, lossy>>

\* A broken variant, for mutation runs: an empty poll is not counted.
ReceiveNothingUncounted(c) == cpc[c] = "receive" /\ UNCHANGED vars

\* A round that polls nothing.
ReceiveNothing(c) ==
    /\ cpc[c] = "receive"
    /\ polls' = [polls EXCEPT ![c] = @ + 1]
    /\ cpc' = [cpc EXCEPT ![c] = IF polls[c] + 1 < MaxPolls THEN "receive"
                                                            ELSE "prompt"]
    /\ UNCHANGED <<request, asks, local, previous, gotLast, commands,
                   serverVars, c2s, s2c, lossy>>

ClientStep(c) ==
    \/ SendRequest(c) \/ ReceiveReply(c) \/ NoReply(c)
    \/ ReceiveFilePacket(c) \/ ReceiveNothing(c)

-----------------------------------------------------------------------------
(* The server program. *)

\* sendFile opens the file; without one, fseek gets a null pointer.
OpenFile(n) ==
    /\ sending' = n
    /\ position' = 0
    /\ spc' = IF n \in DOMAIN remote THEN "read" ELSE "crashed"

\* waitConnectionFromClient and main: a get is answered and its file opened,
\* anything else only makes its sender the client.  The server's exits when
\* gethostbyaddr has no name for the sender, or sendto fails, are left out.
WaitConnection(c) ==
    LET message == Head(c2s[c])
    IN  /\ spc = "wait"
        /\ c2s[c] # <<>>
        /\ c2s' = [c2s EXCEPT ![c] = Tail(@)]
        /\ peer' = c
        /\ \/ /\ message \in GetRequests
              /\ s2c' = [s2c EXCEPT ![c] = Append(@, ReadyToSend)]
              /\ OpenFile(message.name)
           \/ /\ message \notin GetRequests
              /\ UNCHANGED <<s2c, spc, sending, position>>
        /\ UNCHANGED <<clientVars, remote, sendBuf, tries, timedOut, lossy>>

\* fread, and the trailer; at end of file sendFile returns.
ReadBlock ==
    /\ spc = "read"
    /\ \/ /\ position = Len(remote[sending])
          /\ spc' = "wait"
          /\ UNCHANGED <<position, sendBuf, tries>>
       \/ /\ position < Len(remote[sending])
          /\ position' = position + 1
          /\ tries' = 0
          /\ spc' = "send"
          /\ LET b == remote[sending][position + 1]
             IN  \E right \in BOOLEAN :
                    /\ b \notin TinyBlocks => right
                    /\ sendBuf' = [text |-> b, right |-> right]
    /\ UNCHANGED <<clientVars, peer, remote, sending, timedOut, c2s, s2c, lossy>>

SendBlock ==
    /\ spc = "send"
    /\ s2c' = [s2c EXCEPT ![peer] = Append(@, sendBuf)]
    /\ spc' = "listen"
    /\ UNCHANGED <<clientVars, peer, remote, sending, position, sendBuf, tries,
                   timedOut, c2s, lossy>>

\* Broken variants, for mutation runs: a wrong datagram is not counted; one
\* try too many.
NotAcknowledgedUncounted == spc' = "send" /\ UNCHANGED <<tries, timedOut>>
NotAcknowledgedOnceMore ==
    LET lastTry == tries = MaxTries
    IN  /\ tries' = tries + 1
        /\ spc' = IF lastTry THEN "wait" ELSE "send"
        /\ timedOut' = (timedOut \/ lastTry)

\* A try without the expected acknowledgement; the last one ends the file.
NotAcknowledged ==
    LET lastTry == tries + 1 = MaxTries
    IN  /\ tries' = tries + 1
        /\ spc' = IF lastTry THEN "wait" ELSE "send"
        /\ timedOut' = (timedOut \/ lastTry)

\* Any acknowledgement is the expected one.  The sender of whatever arrives is
\* the client from now on (receivePacket).
ReceiveAck(c) ==
    /\ spc = "listen"
    /\ c2s[c] # <<>>
    /\ c2s' = [c2s EXCEPT ![c] = Tail(@)]
    /\ peer' = c
    /\ \/ Head(c2s[c]) = Ack /\ spc' = "read" /\ UNCHANGED <<tries, timedOut>>
       \/ Head(c2s[c]) # Ack /\ NotAcknowledged
    /\ UNCHANGED <<clientVars, remote, sending, position, sendBuf, s2c, lossy>>

ReceiveNoAck ==
    /\ spc = "listen"
    /\ NotAcknowledged
    /\ UNCHANGED <<clientVars, peer, remote, sending, position, sendBuf, c2s, s2c, lossy>>

SendFileStep ==
    ReadBlock \/ SendBlock \/ ReceiveNoAck \/ \E c \in Clients : ReceiveAck(c)
ServerStep == SendFileStep \/ \E c \in Clients : WaitConnection(c)

-----------------------------------------------------------------------------

\* A datagram is dropped; that it is the next one to be read does not matter.
LoseDatagram(c) ==
    /\ lossy
    /\ \/ c2s[c] # <<>> /\ c2s' = [c2s EXCEPT ![c] = Tail(@)] /\ UNCHANGED s2c
       \/ s2c[c] # <<>> /\ s2c' = [s2c EXCEPT ![c] = Tail(@)] /\ UNCHANGED c2s
    /\ UNCHANGED <<clientVars, serverVars, lossy>>

Next ==
    \/ \E c \in Clients :
        \/ \E r \in Requests : TypeCommand(c, r)
        \/ ClientStep(c)
        \/ LoseDatagram(c)
    \/ ServerStep

Spec == Init /\ [][Next]_vars

\* Both programs keep running.  Nothing is asked of the user or the network.
FairSpec ==
    /\ Spec
    /\ \A c \in Clients : WF_vars(ClientStep(c))
    /\ WF_vars(ServerStep)

-----------------------------------------------------------------------------
(* Properties. *)

\* The client's first command asked for n, which the server has, nobody else
\* has sent anything and the server has not given up.
FirstGet(c, n) ==
    /\ commands[c] = 1
    /\ request[c] = [op |-> "get", name |-> n]
    /\ n \in DOMAIN remote
    /\ ~timedOut
    /\ \A d \in Clients \ {c} : commands[d] = 0

\* Packets are told apart by their content, so no block may follow its equal.
NoRepeats(f) == \A i \in 1..Len(f)-1 : f[i] # f[i+1]

\* The file as the client gets it: a tiny last block may be misread.
SameButTiny(got, f) ==
    /\ Len(got) <= Len(f)
    /\ \A i \in DOMAIN got : got[i] = f[i] \/ (got[i] = Garbage /\ f[i] \in TinyBlocks)

\* Without loss the client's file is at all times a prefix of the server's:
\* late acknowledgements and repeated packets and commands do no harm.
ReceivedIsPrefix ==
    \A c \in Clients, n \in Names :
        FirstGet(c, n) /\ ~lossy /\ NoRepeats(remote[n]) =>
            SameButTiny(local[c][n], remote[n])

\* Without loss a client that has seen the last packet has the whole file.
LastMeansWhole ==
    \A c \in Clients, n \in Names :
        FirstGet(c, n) /\ ~lossy /\ NoRepeats(remote[n]) /\ gotLast[c] =>
            Len(local[c][n]) = Len(remote[n])

\* With loss blocks may be missing, for an acknowledgement does not say what it
\* acknowledges, but none is repeated and none is out of order.
ReceivedInOrder ==
    \A c \in Clients, n \in Names :
        FirstGet(c, n) /\ NoRepeats(remote[n]) =>
            LET got == local[c][n]
            IN  \E at \in [DOMAIN got -> DOMAIN remote[n]] :
                    /\ \A i, j \in DOMAIN got : i < j => at[i] < at[j]
                    /\ \A i \in DOMAIN got :
                          \/ got[i] = remote[n][at[i]]
                          \/ got[i] = Garbage /\ remote[n][at[i]] \in TinyBlocks

\* "we have received the last packet" (receiveFile): the client leaves the file
\* with the last block of the one it asked for, if the server has not given up.
LastPacketReceived ==
    \A c \in Clients :
        LET n == request[c].name
        IN  /\ request[c].op = "get" /\ gotLast[c] /\ ~timedOut
            /\ n \in DOMAIN remote /\ remote[n] # <<>>
            =>  /\ local[c][n] # <<>>
                /\ SameButTiny(<<Last(local[c][n])>>, <<Last(remote[n])>>)

\* The client does not hang "in the event of packet loss" (main): after every
\* command it comes back to its prompt.
ClientReturns == \A c \in Clients : cpc[c] # "prompt" ~> cpc[c] = "prompt"

\* sendFile comes to an end, whatever the client does.
SendFileReturns == spc \in {"read", "send", "listen"} ~> spc \in {"wait", "crashed"}

=============================================================================
