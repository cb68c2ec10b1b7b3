---------------------------------- MODULE Echo ----------------------------------
(***************************************************************************)
(* The echo of Self Work/UDP Transfer: clients send a line each and wait   *)
(* for a datagram, without a timeout; the server sends every datagram back *)
(* to where it came from, and keeps nothing else.                          *)
(***************************************************************************)
EXTENDS Naturals, Sequences

CONSTANTS
    Clients,
    Lines,       \* what users type
    Nothing,     \* no line
    MaxStarts    \* bound: starts of the server

ASSUME EchoAssumption == Nothing \notin Lines /\ MaxStarts \in Nat

VARIABLES
    place,       \* place[c]: "prompt" or "receive"
    sent,        \* sent[c]: the last line of c
    printed,     \* printed[c]: what its receive returned, or Nothing
    buf, sender, \* the server's: the datagram it has received, and whose it is
    toServer, toClient,   \* datagrams on the way
    loses,       \* whether this network loses datagrams
    starts       \* counter of the bound

echoVars == <<place, sent, printed, buf, sender, toServer, toClient, loses, starts>>

EchoInit ==
    /\ place = [c \in Clients |-> "prompt"]
    /\ sent = [c \in Clients |-> Nothing]
    /\ printed = [c \in Clients |-> Nothing]
    /\ buf = Nothing
    /\ sender \in Clients
    /\ toServer = [c \in Clients |-> <<>>]
    /\ toClient = [c \in Clients |-> <<>>]
    /\ loses \in BOOLEAN
    /\ starts = 1

\* fgets, and the line is sent without its newline.
SendLine(c, line) ==
    /\ place[c] = "prompt"
    /\ place' = [place EXCEPT ![c] = "receive"]
    /\ sent' = [sent EXCEPT ![c] = line]
    /\ printed' = [printed EXCEPT ![c] = Nothing]
    /\ toServer' = [toServer EXCEPT ![c] = Append(@, line)]
    /\ UNCHANGED <<buf, sender, toClient, loses, starts>>

\* recvfrom, whose sender becomes the server address of the next line.
ReceiveReply(c) ==
    /\ place[c] = "receive"
    /\ toClient[c] # <<>>
    /\ place' = [place EXCEPT ![c] = "prompt"]
    /\ printed' = [printed EXCEPT ![c] = Head(toClient[c])]
    /\ toClient' = [toClient EXCEPT ![c] = Tail(@)]
    /\ UNCHANGED <<sent, buf, sender, toServer, loses, starts>>

\* A broken variant, for mutation runs: the sender is not taken over.
ServerReceiveFirstSender(c) ==
    /\ buf = Nothing
    /\ toServer[c] # <<>>
    /\ buf' = Head(toServer[c])
    /\ toServer' = [toServer EXCEPT ![c] = Tail(@)]
    /\ UNCHANGED <<place, sent, printed, sender, toClient, loses, starts>>

\* The server's recvfrom.
ServerReceive(c) ==
    /\ buf = Nothing
    /\ toServer[c] # <<>>
    /\ buf' = Head(toServer[c])
    /\ sender' = c
    /\ toServer' = [toServer EXCEPT ![c] = Tail(@)]
    /\ UNCHANGED <<place, sent, printed, toClient, loses, starts>>

\* Its sendto, and zeroBuf.
ServerReply ==
    /\ buf # Nothing
    /\ toClient' = [toClient EXCEPT ![sender] = Append(@, buf)]
    /\ buf' = Nothing
    /\ UNCHANGED <<place, sent, printed, sender, toServer, loses, starts>>

\* The server is stopped and started again; what its socket held is lost.
ServerRestart ==
    /\ starts < MaxStarts
    /\ starts' = starts + 1
    /\ buf' = Nothing
    /\ \E lost \in SUBSET Clients :
        toServer' = [c \in Clients |-> IF c \in lost THEN <<>> ELSE toServer[c]]
    /\ UNCHANGED <<place, sent, printed, sender, toClient, loses>>

LoseLine(c) ==
    /\ loses
    /\ \/ toServer[c] # <<>> /\ toServer' = [toServer EXCEPT ![c] = Tail(@)] /\ UNCHANGED toClient
       \/ toClient[c] # <<>> /\ toClient' = [toClient EXCEPT ![c] = Tail(@)] /\ UNCHANGED toServer
    /\ UNCHANGED <<place, sent, printed, buf, sender, loses, starts>>

EchoNext ==
    \/ ServerReply
    \/ ServerRestart
    \/ \E c \in Clients :
        \/ \E line \in Lines : SendLine(c, line)
        \/ ReceiveReply(c)
        \/ ServerReceive(c)
        \/ LoseLine(c)

EchoSpec == EchoInit /\ [][EchoNext]_echoVars

\* A datagram that has come is received, by every client and, from every client, by
\* the server, whose socket is a queue.
EchoFairness ==
    /\ WF_echoVars(ServerReply)
    /\ \A c \in Clients : WF_echoVars(ReceiveReply(c)) /\ SF_echoVars(ServerReceive(c))

-----------------------------------------------------------------------------
(* Properties. *)

\* What a client prints for a line is that line, not another client's and not an
\* earlier one of its own.
ReplyIsOwn ==
    \A c \in Clients : place[c] = "prompt" => printed[c] = sent[c]

\* If nothing is lost and the server is not started again, every line comes back.
LineComesBack ==
    \A c \in Clients :
        place[c] = "receive" /\ ~loses ~> place[c] = "prompt" \/ starts > 1
=============================================================================
