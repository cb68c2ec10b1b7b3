---------------------- MODULE FileTransferRefinementProofs ----------------------
(***************************************************************************)
(* The proof that FileTransfer implements FilePut: each step of the        *)
(* programs is a step of the promise or leaves it alone.  It needs the     *)
(* inductive invariant of FileTransferInvariant, for what the server may   *)
(* take and when the client may return.                                    *)
(***************************************************************************)
EXTENDS FileTransferRefinement, FileTransferProofs

LEMMA UserIsClient == User \in Clients
BY UserAssumption

\* While the user is alone, whoever else there is can do nothing but put.
LEMMA OthersQuiet ==
    ASSUME Fifo, TypeInvariant, PutInvariant, Clean(User),
           NEW d \in Clients \ {User},
           ClientStep(d) \/ ServerStep(d) \/ LoseDatagram(d) \/ Reorder(d)
    PROVE  FALSE
<1>1. cpc[d] = "prompt" /\ c2s[d] = <<>> /\ s2c[d] = <<>>
  BY DEF Clean, Solo, PutInvariant, IdleOK
<1>. QED
  BY <1>1
  DEF ClientStep, FormatBuf, SendPacket, ReceiveAck, ListenTimeout,
      ServerStep, ReceiveCommand, ReceivePacket, ReceiveBadChecksum,
      LoseDatagram, Reorder, Fifo

\* That he was not alone, or was misled, is not undone.
LEMMA OnceUnpromised ==
    ASSUME TypeInvariant, [Next]_vars, ~Clean(User)
    PROVE  ~Clean(User)'
<1>1. CASE UNCHANGED vars
  BY <1>1 DEF vars, clientVars, Clean, Solo
<1>2. CASE Next
  <2>1. CASE \E c \in Clients, n \in Names, content \in Files : Put(c, n, content)
    <3>1. \A d \in Clients : puts[d] # 0 => puts'[d] # 0
      BY <2>1, StateTypes DEF Put, TypeInvariant, TypeOK
    <3>. QED
      BY <2>1, <3>1 DEF Put, Clean, Solo
  <2>2. CASE ~\E c \in Clients, n \in Names, content \in Files : Put(c, n, content)
    <3>1. UNCHANGED puts
      BY <1>2, <2>2
      DEF Next, ClientStep, FormatBuf, SendPacket, ReceiveAck, ListenTimeout, ServerStep,
          ReceiveCommand, ReceivePacket, ReceiveBadChecksum, LoseDatagram, Reorder, clientVars
    <3>2. UNCHANGED gaveUp \/ \E c \in Clients : NotAcknowledged(c)
      BY <1>2, <2>2
      DEF Next, ClientStep, FormatBuf, SendPacket, ReceiveAck, ListenTimeout,
          Acknowledged, ServerStep, ReceiveCommand, ReceivePacket,
          ReceiveBadChecksum, LoseDatagram, Reorder, clientVars
    <3>3. gaveUp \in [Clients -> BOOLEAN]
      BY DEF TypeInvariant, TypeOK
    <3>4. ASSUME NEW c \in Clients, NotAcknowledged(c), gaveUp[User]
          PROVE  gaveUp'[User]
      <4>1. PICK ends \in BOOLEAN : gaveUp' = [gaveUp EXCEPT ![c] = gaveUp[c] \/ ends]
        BY <3>4 DEF NotAcknowledged
      <4>. QED
        BY <3>3, <3>4, <4>1, UserIsClient
    <3>5. gaveUp[User] => gaveUp'[User]
      BY <3>2, <3>4
    <3>. QED
      BY <3>1, <3>5 DEF Clean, Solo
  <2>. QED
    BY <2>1, <2>2
<1>. QED
  BY <1>1, <1>2

LEMMA RefinesInit == Init => Promise!Init
<1> SUFFICES ASSUME Init PROVE Promise!Init
  OBVIOUS
<1>1. Status = "idle"
  BY UserIsClient DEF Init, Status, StatusOf, Clean, Solo
<1>. QED
  BY <1>1, UserIsClient, AnyNameType DEF Init, Promise!Init

\* Once the user was misled about the end of a put, or was not alone, nothing is promised.
LEMMA RefinesUnpromised ==
    ASSUME ~Clean(User), ~Clean(User)'
    PROVE  Promise!NothingPromised
<1>1. Status = "unpromised" /\ Status' = "unpromised"
  BY DEF Status, StatusOf
<1>. QED
  BY <1>1 DEF Promise!NothingPromised

LEMMA RefinesPut ==
    ASSUME TypeInvariant, TypeInvariant', Clean(User),
           NEW n \in Names, NEW content \in Files, Put(User, n, content)
    PROVE  Promise!Request(n, content)
<1>1. Status \in {"idle", "done"}
  <2>1. puts[User] = 0 \/ puts[User] > 0
    BY UserIsClient, StateTypes
  <2>. QED
    BY <2>1 DEF Status, StatusOf, Put
<1>2. Clean(User)' /\ cpc'[User] = "read" /\ name'[User] = n /\ file'[User] = content
      /\ disk' = disk
  BY UserIsClient DEF Put, TypeInvariant, TypeOK, serverVars, Clean, Solo
<1>3. Status' = "sending"
  BY <1>2 DEF Status, StatusOf, InPut
<1>. QED
  BY <1>1, <1>2, <1>3 DEF Promise!Request

\* Building and sending a packet is nothing the promise speaks of.
LEMMA RefinesSend ==
    ASSUME TypeInvariant, TypeInvariant', Clean(User),
           FormatBuf(User) \/ SendPacket(User)
    PROVE  UNCHANGED Promise!vars
<1>1. /\ InPut(User) /\ Clean(User)' /\ cpc'[User] \in {"send", "listen"}
      /\ UNCHANGED <<name, file, disk>>
  BY UserIsClient
  DEF FormatBuf, SendPacket, InPut, TypeInvariant, TypeOK, serverVars, Clean, Solo
<1>2. Status = "sending" /\ Status' = "sending"
  BY <1>1 DEF Status, StatusOf, InPut
<1>. QED
  BY <1>1, <1>2 DEF Promise!vars

\* A listen that ends the put ends it as the promise allows.
LEMMA RefinesListen ==
    ASSUME Fifo, TypeInvariant, PutInvariant, TypeInvariant', PutInvariant',
           Clean(User), ReceiveAck(User) \/ ListenTimeout(User)
    PROVE  Promise!Finish \/ Promise!Stop \/ UNCHANGED Promise!vars
<1>1. /\ cpc[User] = "listen" /\ UNCHANGED <<name, file, puts, disk>>
      /\ Acknowledged(User) \/ NotAcknowledged(User)
  BY DEF ReceiveAck, ListenTimeout, serverVars
<1>2. Status = "sending"
  BY <1>1 DEF Status, StatusOf, InPut
<1>3. CASE ~Clean(User)'
  <2>1. Status' = "unpromised"
    BY <1>3 DEF Status, StatusOf
  <2>. QED
    BY <1>1, <1>2, <2>1 DEF Promise!Stop
<1>4. CASE Clean(User)' /\ cpc'[User] = "prompt"
  <2>1. puts[User] > 0
    BY <1>1, UserIsClient, StateTypes DEF PutInvariant, IdleOK
  <2>2. Status' = "done"
    BY <1>1, <1>4, <2>1 DEF Status, StatusOf
  <2>3. PutIsComplete'
    BY HoldsWhatItShould
       DEF TypeInvariant, PutInvariant, PutIsComplete, PutOK, Opening, Storing, Stored
  <2>4. disk[name[User]] = file[User]
    BY <1>1, <1>4, <2>1, <2>3, UserIsClient DEF PutIsComplete
  <2>. QED
    BY <1>1, <1>2, <2>2, <2>4 DEF Promise!Finish
<1>5. CASE Clean(User)' /\ cpc'[User] = "exited"
  <2>1. Status' = "failed"
    BY <1>5 DEF Status, StatusOf
  <2>. QED
    BY <1>1, <1>2, <2>1 DEF Promise!Stop
<1>6. CASE Clean(User)' /\ InPut(User)'
  <2>1. Status' = "sending"
    BY <1>6 DEF Status, StatusOf, InPut
  <2>. QED
    BY <1>1, <1>2, <2>1 DEF Promise!vars
<1>7. cpc'[User] \in {"prompt", "read", "send", "listen", "exited"}
  BY UserIsClient DEF TypeInvariant, TypeOK
<1>. QED
  BY <1>3, <1>4, <1>5, <1>6, <1>7 DEF InPut

\* The server takes the command and empties the file, or drops a datagram.
LEMMA RefinesReceiveCommand ==
    ASSUME TypeInvariant, PutInvariant, TypeInvariant', Clean(User),
           ReceiveCommand(User)
    PROVE  Promise!Empty \/ UNCHANGED Promise!vars
<1> DEFINE h == Head(c2s[User])
<1>1. /\ c2s[User] # <<>> /\ spc = "command" /\ UNCHANGED clientVars
      /\ \/ h.data \in Commands /\ OpenFile(h.data.put)
         \/ UNCHANGED disk
  BY DEF ReceiveCommand
<1>2. Status' = Status /\ name' = name /\ file' = file
  BY <1>1 DEF clientVars, Status, InPut, Clean, Solo
<1>3. CASE UNCHANGED disk
  BY <1>2, <1>3 DEF Promise!vars
<1>4. CASE h.data \in Commands /\ OpenFile(h.data.put)
  <2>1. puts[User] > 0
    BY <1>1, UserIsClient, StateTypes DEF PutInvariant, IdleOK
  <2>2. Opening(User) \/ Stored(User)
    BY <1>1, <2>1, UserIsClient DEF PutInvariant, PutOK, Storing
  <2>3. h = c2s[User][1] /\ 1 \in DOMAIN c2s[User]
    BY <1>1, UserIsClient, StateTypes, HeadTail
  <2>4. ~Stored(User)
    BY <1>4, <2>3, ConstantsAssumption DEF Stored
  <2>5. h.data.put = name[User]
    BY <1>4, <2>2, <2>3, <2>4 DEF Opening, Packet, Command
  <2>6. disk' = [disk EXCEPT ![name[User]] = <<>>]
    BY <1>4, <2>5 DEF OpenFile
  <2>7. Status \in {"sending", "failed"}
    BY <2>2, <2>4 DEF Status, StatusOf, Opening, InPut
  <2>. QED
    BY <1>2, <2>6, <2>7 DEF Promise!Empty, Promise!Working
<1>. QED
  BY <1>1, <1>3, <1>4

\* The server writes the next block of the file, or nothing.
LEMMA RefinesReceivePacket ==
    ASSUME TypeInvariant, PutInvariant, TypeInvariant', PutInvariant',
           Clean(User), ReceivePacket(User)
    PROVE  Promise!StoreNext \/ UNCHANGED Promise!vars
<1> DEFINE p == Head(c2s[User])
<1>1. /\ c2s[User] # <<>> /\ spc = "receiving" /\ UNCHANGED <<clientVars, inputFile>>
      /\ \/ disk' = [disk EXCEPT ![inputFile] = Append(disk[inputFile], p.data)]
            /\ p.data # LastPacket /\ prevPacketNum # p.num
         \/ UNCHANGED disk
  BY DEF ReceivePacket, IsUnique
<1>2. Status' = Status /\ name' = name /\ file' = file
  BY <1>1 DEF clientVars, Status, InPut, Clean, Solo
<1>3. CASE UNCHANGED disk
  BY <1>2, <1>3 DEF Promise!vars
<1>4. CASE /\ disk' = [disk EXCEPT ![inputFile] = Append(disk[inputFile], p.data)]
           /\ p.data # LastPacket /\ prevPacketNum # p.num
  <2>1. puts[User] > 0
    BY <1>1, UserIsClient, StateTypes DEF PutInvariant, IdleOK
  <2>2. Storing(User)
    BY <1>1, <2>1, UserIsClient DEF PutInvariant, PutOK, Opening, Stored
  <2> DEFINE w == Written(User)
  <2>3. /\ w \in Nat /\ w = Len(disk[name[User]])
        /\ disk[name[User]] \in Seq(Payloads) /\ file[User] \in Seq(Payloads)
        /\ Built(User) \in Int /\ Len(file[User]) \in Nat
    BY UserIsClient, StateTypes DEF Written, Payloads
  <2>4. p \in OldPackets(User) \cup NewPackets(User)
    BY <1>1, <2>2, UserIsClient, StateTypes, OldThenNewTail DEF Storing
  <2>5. p \notin OldPackets(User)
    <3>1. w > 0 => PutPacket(User, w).num = w % OperationBase
      BY SMTT(30), <2>3, UserIsClient, PutPacketFacts
    <3>. QED
      BY <1>4, <2>2, <3>1 DEF Storing, OldPackets
  <2>6. p = PutPacket(User, w + 1) /\ Built(User) = w + 1
    BY <2>2, <2>3, <2>4, <2>5 DEF NewPackets, Storing
  <2>7. w + 1 <= Len(file[User]) /\ p.data = file[User][w + 1]
    <3>1. w + 1 \in Nat \ {0}
      BY <2>3
    <3> DEFINE q == PutPacket(User, w + 1)
    <3>2. q.data = IF w + 1 > Len(file[User]) THEN LastPacket ELSE file[User][w + 1]
      BY <3>1, UserIsClient, PutPacketFacts
    <3>. QED
      BY <1>4, <2>3, <2>6, <3>1, <3>2
  <2>8. IsStrictPrefix(disk[name[User]], file[User])
    <3>1. IsPrefix(disk[name[User]], file[User])
      BY <2>2, <2>3, PrefixFact DEF Storing
    <3>2. disk[name[User]] # file[User]
      BY <2>3, <2>7
    <3>. QED
      BY <3>1, <3>2 DEF IsStrictPrefix
  <2>9. disk' = [disk EXCEPT ![name[User]] =
                    Append(disk[name[User]], file[User][Len(disk[name[User]]) + 1])]
    BY <1>4, <2>2, <2>3, <2>7 DEF Storing
  <2>10. Status \in {"sending", "failed"}
    BY <2>2 DEF Status, StatusOf, Storing, InPut
  <2>. QED
    BY <1>2, <2>8, <2>9, <2>10
    DEF Promise!StoreNext, Promise!Working, Promise!IsStrictPrefix, Promise!IsPrefix,
        IsStrictPrefix, IsPrefix
<1>. QED
  BY <1>1, <1>3, <1>4

\* Another client that puts a file ends the promise.
LEMMA RefinesOthersPut ==
    ASSUME TypeInvariant, NEW d \in Clients \ {User},
           NEW n \in Names, NEW content \in Files, Put(d, n, content)
    PROVE  Promise!OthersPut
<1>1. puts'[d] = puts[d] + 1 /\ puts[d] \in Nat
  BY StateTypes DEF Put, TypeInvariant, TypeOK
<1>2. ~Clean(User)'
  BY <1>1 DEF Clean, Solo
<1>3. /\ name' = [name EXCEPT ![d] = n] /\ file' = [file EXCEPT ![d] = content]
      /\ disk' = disk
  BY DEF Put, serverVars
<1>4. name'[User] = name[User] /\ file'[User] = file[User]
  BY <1>3, StateTypes, UserIsClient DEF TypeInvariant, TypeOK
<1>. QED
  BY <1>2, <1>3, <1>4 DEF Promise!OthersPut, Status, StatusOf

LEMMA RefinesStep ==
    ASSUME Fifo, TypeInvariant, PutInvariant, TypeInvariant', PutInvariant',
           [Next]_vars
    PROVE  [Promise!Next]_(Promise!vars)
<1>1. CASE UNCHANGED vars
  BY <1>1 DEF vars, clientVars, serverVars, Promise!vars, Status, InPut, Clean, Solo
<1>2. CASE ~Clean(User)
  BY <1>2, OnceUnpromised, RefinesUnpromised DEF Promise!Next
<1>3. CASE Clean(User) /\ Next
  <2>1. CASE \E d \in Clients \ {User}, n \in Names, content \in Files : Put(d, n, content)
    BY <2>1, RefinesOthersPut DEF Promise!Next
  <2>2. CASE \E n \in Names, content \in Files : Put(User, n, content)
    BY <1>3, <2>2, RefinesPut DEF Promise!Next
  <2>3. CASE ClientStep(User)
    BY <1>3, <2>3, RefinesSend, RefinesListen DEF ClientStep, Promise!Next
  <2>4. CASE ServerStep(User)
    BY <1>3, <2>4, RefinesReceiveCommand, RefinesReceivePacket
    DEF ServerStep, ReceiveBadChecksum, Fifo, Promise!Next
  <2>5. CASE LoseDatagram(User)
    BY <2>5 DEF LoseDatagram, clientVars, serverVars, Promise!vars, Status, InPut, Clean, Solo
  <2>6. CASE Reorder(User)
    BY <2>6 DEF Reorder, Fifo
  <2>. QED
    BY <1>3, <2>1, <2>2, <2>3, <2>4, <2>5, <2>6, OthersQuiet DEF Next
<1>. QED
  BY <1>1, <1>2, <1>3

\* The file transfer programs implement FilePut for any of their users, as long as
\* he is the only one, on a network that keeps the order, whatever the files, the
\* bounds and the base.
THEOREM FileTransferImplementsFilePut ==
    ASSUME Fifo
    PROVE  Spec => PutIsAsPromised
<1>1. Init => Promise!Init
  BY RefinesInit
<1>2. /\ TypeInvariant /\ PutInvariant /\ TypeInvariant' /\ PutInvariant'
      /\ [Next]_vars
      => [Promise!Next]_(Promise!vars)
  BY RefinesStep
<1>. QED
  BY <1>1, <1>2, InvariantCorrect, PTL DEF Spec, PutIsAsPromised, Promise!Spec
=============================================================================
