------------------------------ MODULE KeyExchange ------------------------------
(***************************************************************************)
(* The key exchange of IPsec/talk.c and IPsec/listen.c.  A talker sends    *)
(* its public key once and waits for the listener's; the listener takes    *)
(* the first datagram that comes as a key, answers its sender, and takes   *)
(* every later one as a message.  Nothing is sent twice and no receive has *)
(* a timeout.  The cipher itself is in Cipher: here a message carries the  *)
(* key it was encrypted with.                                              *)
(***************************************************************************)
EXTENDS Naturals, Sequences

CONSTANTS
    Talkers,
    Private,        \* private keys
    Public(_),      \* the public key of a private key
    Shared(_, _),   \* the key computed from a public and a private key
    Keys,           \* what may come of such a computation, whatever number was read
    Texts,          \* what users type
    Garbled,        \* what a message shows that is decrypted with another key
    None,
    MaxMessages,    \* bound: messages of a talker
    MaxRuns         \* bound: runs of the listener, one after the other

ASSUME ExchangeAssumption ==
    /\ None \notin Talkers
    /\ Garbled \notin Texts
    /\ MaxMessages \in Nat
    /\ MaxRuns \in Nat \ {0}

ASSUME SharedAssumption ==
    \A a, b \in Private : /\ Shared(Public(a), b) = Shared(Public(b), a)
                          /\ Shared(Public(a), b) \in Keys

VARIABLES
    talker,     \* talker[t]: its place
    private,    \* private[t]: its private key
    sharedKey,  \* sharedKey[t], when it talks
    answeredIn, \* history: the run of the listener that answered t
    listener,   \* the listener's place
    own, key,   \* its private key; the shared one
    client,     \* whom it took the key from
    run,        \* counter of its runs
    toListener, \* toListener[t]: datagrams from t on the way, in their order
    toTalker,   \* toTalker[t]: answers on the way
    shown,      \* what the last step printed
    lossy       \* whether this network loses datagrams

talkerVars == <<talker, private, sharedKey, answeredIn>>
listenerVars == <<listener, own, key, client, run>>
network == <<toListener, toTalker>>
exchangeVars == <<talkerVars, listenerVars, network, shown, lossy>>

PublicKeyFrom(a) == [kind |-> "key", value |-> Public(a)]
MessageOf(text, k) == [kind |-> "message", text |-> text, key |-> k]

ExchangeInit ==
    /\ talker = [t \in Talkers |-> "start"]
    /\ private \in [Talkers -> Private]
    /\ sharedKey = [t \in Talkers |-> None]
    /\ answeredIn = [t \in Talkers |-> 0]
    /\ listener = "wait"
    /\ own \in Private
    /\ key = None
    /\ client = None
    /\ run = 1
    /\ toListener = [t \in Talkers |-> <<>>]
    /\ toTalker = [t \in Talkers |-> <<>>]
    /\ shown = None
    /\ lossy \in BOOLEAN

-----------------------------------------------------------------------------
(* talk *)

\* The public key is sent.
SendKey(t) ==
    /\ talker[t] = "start"
    /\ talker' = [talker EXCEPT ![t] = "await"]
    /\ toListener' = [toListener EXCEPT ![t] = Append(@, PublicKeyFrom(private[t]))]
    /\ shown' = None
    /\ UNCHANGED <<private, sharedKey, answeredIn, listenerVars, toTalker, lossy>>

\* A broken variant, for mutation runs: the talker goes on when nothing has come.
ReceiveAnswerUnchecked(t) ==
    /\ talker[t] = "await"
    /\ talker' = [talker EXCEPT ![t] = "talk"]
    /\ shown' = None
    /\ UNCHANGED <<private, sharedKey, answeredIn, listenerVars, network, lossy>>

\* The blocking recvfrom returns the listener's key.
ReceiveAnswer(t) ==
    /\ talker[t] = "await"
    /\ toTalker[t] # <<>>
    /\ talker' = [talker EXCEPT ![t] = "talk"]
    /\ sharedKey' = [sharedKey EXCEPT ![t] = Shared(Head(toTalker[t]).value, private[t])]
    /\ answeredIn' = [answeredIn EXCEPT ![t] = Head(toTalker[t]).run]
    /\ toTalker' = [toTalker EXCEPT ![t] = Tail(@)]
    /\ shown' = None
    /\ UNCHANGED <<private, listenerVars, toListener, lossy>>

\* A line of the user is encrypted and sent.
SendMessage(t, text) ==
    /\ talker[t] = "talk"
    /\ Len(toListener[t]) < MaxMessages
    /\ toListener' = [toListener EXCEPT ![t] = Append(@, MessageOf(text, sharedKey[t]))]
    /\ shown' = None
    /\ UNCHANGED <<talkerVars, listenerVars, toTalker, lossy>>

-----------------------------------------------------------------------------
(* listen *)

\* A broken variant, for mutation runs: the key is not answered.
ReceiveKeySilently(t) ==
    /\ listener = "wait"
    /\ toListener[t] # <<>>
    /\ key' \in Keys
    /\ client' = t
    /\ listener' = "print"
    /\ toListener' = [toListener EXCEPT ![t] = Tail(@)]
    /\ shown' = None
    /\ UNCHANGED <<talkerVars, own, run, toTalker, lossy>>

\* The first datagram is read as a public key, whatever it is.
ReceiveKey(t) ==
    /\ listener = "wait"
    /\ toListener[t] # <<>>
    /\ LET d == Head(toListener[t])
       IN  \/ d.kind = "key" /\ key' = Shared(d.value, own)
           \/ d.kind = "message" /\ key' \in Keys
    /\ client' = t
    /\ listener' = "answer"
    /\ toListener' = [toListener EXCEPT ![t] = Tail(@)]
    /\ shown' = None
    /\ UNCHANGED <<talkerVars, own, run, toTalker, lossy>>

\* A broken variant, for mutation runs: answers as long as keys come.
SendPublicKeyAndWait ==
    /\ listener = "answer"
    /\ listener' = "wait"
    /\ toTalker' = [toTalker EXCEPT ![client] =
            Append(@, [value |-> Public(own), run |-> run])]
    /\ shown' = None
    /\ UNCHANGED <<talkerVars, own, key, client, run, toListener, lossy>>

\* Its own public key goes to the sender of that datagram.
SendPublicKey ==
    /\ listener = "answer"
    /\ listener' = "print"
    /\ toTalker' = [toTalker EXCEPT ![client] =
            Append(@, [value |-> Public(own), run |-> run])]
    /\ shown' = None
    /\ UNCHANGED <<talkerVars, own, key, client, run, toListener, lossy>>

\* A broken variant, for mutation runs: a second talker's key replaces the first one's.
PrintOrRekey(t) ==
    /\ listener = "print"
    /\ toListener[t] # <<>>
    /\ LET d == Head(toListener[t])
       IN  \/ /\ d.kind = "key"
              /\ key' = Shared(d.value, own)
              /\ shown' = None
           \/ /\ d.kind = "message"
              /\ shown' = [from |-> t, sent |-> d,
                           text |-> IF d.key = key THEN d.text ELSE Garbled]
              /\ UNCHANGED key
    /\ toListener' = [toListener EXCEPT ![t] = Tail(@)]
    /\ UNCHANGED <<talkerVars, listener, own, client, run, toTalker, lossy>>

\* Every later datagram is decrypted and printed; a key shows as garbled as well.
PrintMessage(t) ==
    /\ listener = "print"
    /\ toListener[t] # <<>>
    /\ LET d == Head(toListener[t])
       IN  shown' = [from |-> t, sent |-> d,
                     text |-> IF d.kind = "message" /\ d.key = key THEN d.text ELSE Garbled]
    /\ toListener' = [toListener EXCEPT ![t] = Tail(@)]
    /\ UNCHANGED <<talkerVars, listenerVars, toTalker, lossy>>

\* The listener ends, by hand or because it cannot name a sender (gethostbyaddr),
\* and is started again.  Lost is what was in its socket.
Restart ==
    /\ run < MaxRuns
    /\ run' = run + 1
    /\ listener' = "wait"
    /\ own' \in Private
    /\ key' = None
    /\ client' = None
    /\ \E lost \in [Talkers -> 0..MaxMessages+1] :
        toListener' = [t \in Talkers |->
            SubSeq(toListener[t], lost[t] + 1, Len(toListener[t]))]
    /\ shown' = None
    /\ UNCHANGED <<talkerVars, toTalker, lossy>>

LoseDatagram(t) ==
    /\ lossy
    /\ \/ /\ toListener[t] # <<>>
          /\ toListener' = [toListener EXCEPT ![t] = Tail(@)]
          /\ UNCHANGED toTalker
       \/ /\ toTalker[t] # <<>>
          /\ toTalker' = [toTalker EXCEPT ![t] = Tail(@)]
          /\ UNCHANGED toListener
    /\ shown' = None
    /\ UNCHANGED <<talkerVars, listenerVars, lossy>>

ListenerStep == SendPublicKey \/ \E t \in Talkers : ReceiveKey(t) \/ PrintMessage(t)

ExchangeNext ==
    \/ ListenerStep
    \/ Restart
    \/ \E t \in Talkers :
        \/ SendKey(t)
        \/ ReceiveAnswer(t)
        \/ \E text \in Texts : SendMessage(t, text)
        \/ LoseDatagram(t)

ExchangeSpec == ExchangeInit /\ [][ExchangeNext]_exchangeVars

\* A datagram that has come is received, and what was received is acted upon.
ExchangeFairness ==
    /\ WF_exchangeVars(ListenerStep)
    /\ \A t \in Talkers : WF_exchangeVars(ReceiveAnswer(t))

-----------------------------------------------------------------------------
(* Properties. *)

Answers == [value : {Public(a) : a \in Private}, run : 1..MaxRuns]
Datagrams ==
    [kind : {"key"}, value : {Public(a) : a \in Private}]
        \cup [kind : {"message"}, text : Texts, key : Keys]

\* The type invariant.
ExchangeTypeOK ==
    /\ talker \in [Talkers -> {"start", "await", "talk"}]
    /\ private \in [Talkers -> Private]
    /\ sharedKey \in [Talkers -> Keys \cup {None}]
    /\ \A t \in Talkers : talker[t] = "talk" => sharedKey[t] \in Keys
    /\ answeredIn \in [Talkers -> 0..MaxRuns]
    /\ listener \in {"wait", "answer", "print"}
    /\ own \in Private
    /\ key \in Keys \cup {None}
    /\ client \in Talkers \cup {None}
    /\ listener # "wait" => client \in Talkers
    /\ run \in 1..MaxRuns
    /\ toListener \in [Talkers -> Seq(Datagrams)]
    /\ toTalker \in [Talkers -> Seq(Answers)]
    /\ lossy \in BOOLEAN

\* A message from a talker that this run of the listener has answered is printed as it
\* was typed, whatever other talkers send, and whatever a restarted listener takes for
\* a key in between.
MessagesReadable ==
    shown # None /\ shown.sent.kind = "message" /\ answeredIn[shown.from] = run =>
        shown.text = shown.sent.text

\* A run of the listener answers one talker: the key of a second one, which it prints
\* as a message, leaves that talker waiting.
OneIsAnswered ==
    \A t, u \in Talkers : answeredIn[t] = run /\ answeredIn[u] = run => t = u

\* If nothing is lost and the listener keeps running, the key of one of the talkers
\* that wait is answered.
SomebodyTalks ==
    (\E t \in Talkers : talker[t] = "await") /\ ~lossy
        ~> (\E t \in Talkers : talker[t] = "talk") \/ run > 1
=============================================================================
