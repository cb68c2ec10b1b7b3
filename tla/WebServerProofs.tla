---------------------------- MODULE WebServerProofs ----------------------------
(***************************************************************************)
(* Proofs about WebServer, for any number of connections, descriptors,     *)
(* requests and any backlog: how many descriptors a child has used up, and *)
(* that a file that exists is found as long as they last.                  *)
(***************************************************************************)
EXTENDS WebServer, TLAPS

\* A connection waits or was accepted once, and nobody serves one that waits.
OnePlace ==
    /\ \A i, j \in DOMAIN accepted : accepted[i] = accepted[j] => i = j
    /\ \A i, j \in DOMAIN backlog : backlog[i] = backlog[j] => i = j
    /\ \A i \in DOMAIN accepted, j \in DOMAIN backlog : accepted[i] # backlog[j]
    /\ \A i \in DOMAIN accepted : client[accepted[i]] # "new"
    /\ \A j \in DOMAIN backlog : client[backlog[j]] # "new" /\ child[backlog[j]] = "none"

NothingBefore ==
    \A k \in Connections :
        /\ client[k] = "new" => child[k] = "none"
        /\ child[k] = "none" => lastReply[k] = NoReply

Counted == \A k \in Connections : inbox[k] + replies[k] <= MaxRequests

\* The i-th child began with i descriptors in use, and has taken one for a request.
DescriptorsUsed ==
    \A i \in DOMAIN accepted :
        child[accepted[i]] = "recv" => fds[accepted[i]] <= i + replies[accepted[i]]

WebInvariant ==
    TypeOK /\ OnePlace /\ NothingBefore /\ Counted /\ DescriptorsUsed
        /\ FoundWhileDescriptorsLast

-----------------------------------------------------------------------------

LEMMA SeqFacts ==
    ASSUME NEW S, NEW s \in Seq(S)
    PROVE  /\ Len(s) \in Nat /\ DOMAIN s = 1..Len(s)
           /\ \A i \in DOMAIN s : s[i] \in S /\ i \in Nat
OBVIOUS

LEMMA AppendFacts ==
    ASSUME NEW S, NEW s \in Seq(S), NEW e \in S
    PROVE  /\ Append(s, e) \in Seq(S) /\ Len(Append(s, e)) = Len(s) + 1
           /\ DOMAIN Append(s, e) = 1..Len(s) + 1
           /\ \A i \in 1..Len(s) : Append(s, e)[i] = s[i]
           /\ Append(s, e)[Len(s) + 1] = e
OBVIOUS

LEMMA TailFacts ==
    ASSUME NEW S, NEW s \in Seq(S), s # <<>>
    PROVE  /\ Head(s) \in S /\ Head(s) = s[1] /\ Tail(s) \in Seq(S)
           /\ Len(Tail(s)) = Len(s) - 1 /\ Len(s) \in Nat \ {0}
           /\ DOMAIN Tail(s) = 1..Len(s) - 1
           /\ \A i \in 1..Len(s) - 1 : Tail(s)[i] = s[i + 1]
OBVIOUS

LEMMA InitInvariant == Init => WebInvariant
<1> SUFFICES ASSUME Init PROVE WebInvariant
  OBVIOUS
<1>1. TypeOK
  BY ConstantsAssumption DEF Init, TypeOK
<1>2. OnePlace /\ NothingBefore /\ Counted /\ DescriptorsUsed /\ FoundWhileDescriptorsLast
  BY ConstantsAssumption
  DEF Init, OnePlace, NothingBefore, Counted, DescriptorsUsed, FoundWhileDescriptorsLast
<1>. QED
  BY <1>1, <1>2 DEF WebInvariant

LEMMA ConnectStep ==
    ASSUME WebInvariant, NEW k \in Connections, Connect(k)
    PROVE  WebInvariant'
<1>. USE DEF WebInvariant
<1>1. /\ Append(backlog, k) \in Seq(Connections)
      /\ Len(Append(backlog, k)) = Len(backlog) + 1
      /\ Len(backlog) \in Nat
      /\ DOMAIN backlog = 1..Len(backlog)
      /\ DOMAIN Append(backlog, k) = 1..Len(backlog) + 1
      /\ \A i \in 1..Len(backlog) : Append(backlog, k)[i] = backlog[i]
      /\ Append(backlog, k)[Len(backlog) + 1] = k
  BY AppendFacts DEF TypeOK
<1>2. TypeOK'
  BY <1>1, ConstantsAssumption DEF TypeOK, Connect, childVars
<1>3. \A j \in 1..Len(backlog) + 1 : j \in 1..Len(backlog) \/ j = Len(backlog) + 1
  BY <1>1
<1>4. OnePlace'
  <2>1. /\ backlog' = Append(backlog, k) /\ accepted' = accepted
        /\ client[k] = "new" /\ child' = child /\ client'[k] = "open"
        /\ \A c \in Connections : c # k => client'[c] = client[c]
    BY DEF Connect, childVars, TypeOK
  <2>2. \A j \in DOMAIN backlog : backlog[j] \in Connections /\ backlog[j] # k
    BY <2>1 DEF OnePlace, TypeOK
  <2>3. \A i \in DOMAIN accepted : accepted[i] \in Connections /\ accepted[i] # k
    BY <2>1 DEF OnePlace, TypeOK
  <2>4. \A i, j \in DOMAIN backlog' : backlog'[i] = backlog'[j] => i = j
    BY <1>1, <1>3, <2>1, <2>2 DEF OnePlace
  <2>5. \A i \in DOMAIN accepted, j \in DOMAIN backlog' : accepted[i] # backlog'[j]
    BY <1>1, <1>3, <2>1, <2>3 DEF OnePlace
  <2>6. \A i \in DOMAIN accepted : client'[accepted[i]] # "new"
    BY <2>1, <2>3 DEF OnePlace
  <2>7. child[k] = "none"
    BY <2>1 DEF NothingBefore
  <2>8. \A j \in DOMAIN backlog' : client'[backlog'[j]] # "new" /\ child[backlog'[j]] = "none"
    BY <1>1, <1>3, <2>1, <2>2, <2>7 DEF OnePlace
  <2>. QED
    BY <2>1, <2>4, <2>5, <2>6, <2>8 DEF OnePlace
<1>5. NothingBefore' /\ Counted'
  BY DEF NothingBefore, Counted, Connect, childVars, TypeOK
<1>6. DescriptorsUsed' /\ FoundWhileDescriptorsLast'
  BY DEF DescriptorsUsed, FoundWhileDescriptorsLast, Connect, childVars
<1>. QED
  BY <1>2, <1>4, <1>5, <1>6

LEMMA SendRequestStep ==
    ASSUME WebInvariant, NEW k \in Connections, SendRequest(k)
    PROVE  WebInvariant'
<1>. USE DEF WebInvariant
<1>1. inbox[k] \in Nat /\ replies[k] \in Nat /\ inbox[k] + 1 \in 0..MaxRequests
  BY ConstantsAssumption DEF TypeOK, SendRequest
<1>2. TypeOK'
  BY <1>1 DEF TypeOK, SendRequest, parentVars, childVars
<1>3. Counted'
  BY <1>1, ConstantsAssumption DEF Counted, SendRequest, childVars, TypeOK
<1>4. OnePlace' /\ NothingBefore' /\ DescriptorsUsed' /\ FoundWhileDescriptorsLast'
  BY DEF OnePlace, NothingBefore, DescriptorsUsed, FoundWhileDescriptorsLast, SendRequest,
         parentVars, childVars
<1>. QED
  BY <1>2, <1>3, <1>4

LEMMA CloseClientStep ==
    ASSUME WebInvariant, NEW k \in Connections, CloseClient(k)
    PROVE  WebInvariant'
<1>. USE DEF WebInvariant
<1>1. TypeOK'
  BY DEF TypeOK, CloseClient, parentVars, childVars
<1>2. \A c \in Connections : client'[c] = "new" => client[c] = "new"
  BY DEF TypeOK, CloseClient
<1>3. OnePlace'
  <2>1. /\ \A i \in DOMAIN accepted : accepted[i] \in Connections
        /\ \A j \in DOMAIN backlog : backlog[j] \in Connections
    BY DEF TypeOK
  <2>. QED
    BY <1>2, <2>1 DEF OnePlace, CloseClient, parentVars, childVars
<1>4. NothingBefore' /\ Counted' /\ DescriptorsUsed' /\ FoundWhileDescriptorsLast'
  BY <1>2 DEF NothingBefore, Counted, DescriptorsUsed, FoundWhileDescriptorsLast, CloseClient,
         parentVars, childVars
<1>. QED
  BY <1>1, <1>3, <1>4

-----------------------------------------------------------------------------

LEMMA AcceptStep ==
    ASSUME WebInvariant, Accept
    PROVE  WebInvariant'
<1>. USE DEF WebInvariant
<1> DEFINE k == Head(backlog)
           n == Len(accepted) + 1
<1>1. /\ k \in Connections /\ k = backlog[1]
      /\ Tail(backlog) \in Seq(Connections)
      /\ Len(Tail(backlog)) = Len(backlog) - 1
      /\ Len(backlog) \in Nat \ {0}
      /\ DOMAIN backlog = 1..Len(backlog)
      /\ DOMAIN Tail(backlog) = 1..Len(backlog) - 1
      /\ \A j \in 1..Len(backlog) - 1 : Tail(backlog)[j] = backlog[j + 1]
  BY TailFacts DEF TypeOK, Accept
<1>2. /\ Append(accepted, k) \in Seq(Connections)
      /\ Len(accepted) \in Nat
      /\ Len(Append(accepted, k)) = n
      /\ DOMAIN accepted = 1..Len(accepted)
      /\ DOMAIN Append(accepted, k) = 1..n
      /\ \A i \in 1..Len(accepted) : Append(accepted, k)[i] = accepted[i]
      /\ Append(accepted, k)[n] = k
  BY <1>1, AppendFacts DEF TypeOK
<1>3. /\ accepted' = Append(accepted, k) /\ backlog' = Tail(backlog)
      /\ UNCHANGED <<up, client, inbox, replies, lastReply>>
  BY DEF Accept
<1>4. \A c \in Connections : c # k => child'[c] = child[c] /\ fds'[c] = fds[c]
  BY <1>1 DEF Accept, TypeOK
<1>5. child[k] = "none" /\ child'[k] \in {"none", "recv"} /\ (child'[k] = "recv" => fds'[k] = n)
  <2>1. 1 \in DOMAIN backlog
    BY <1>1
  <2>2. child[k] = "none"
    BY <1>1, <2>1 DEF OnePlace
  <2>. QED
    BY <1>1, <2>2 DEF Accept, TypeOK
<1>6. \A i \in 1..n : i \in 1..Len(accepted) \/ i = n
  BY <1>2
<1>7. \A j \in 1..Len(backlog) - 1 :
          j + 1 \in 1..Len(backlog) /\ j + 1 # 1 /\ backlog'[j] = backlog[j + 1]
  BY <1>1, <1>3
<1>8. \A i \in 1..Len(accepted) : accepted[i] \in Connections /\ accepted[i] # k
  <2>1. \A i \in DOMAIN accepted : accepted[i] \in Connections
    BY SeqFacts DEF TypeOK
  <2>2. 1 \in DOMAIN backlog
    BY <1>1
  <2>. QED
    BY <1>1, <1>2, <2>1, <2>2 DEF OnePlace
<1>9. \A j \in 1..Len(backlog) - 1 : backlog'[j] \in Connections /\ backlog'[j] # k
  <2>1. \A j \in DOMAIN backlog : backlog[j] \in Connections
    BY SeqFacts DEF TypeOK
  <2>2. 1 \in DOMAIN backlog
    BY <1>1
  <2>. QED
    BY <1>1, <1>7, <2>1, <2>2 DEF OnePlace
<1>10. TypeOK'
  <2>1. n < MaxFds /\ n \in 0..MaxFds
    BY <1>2, ConstantsAssumption DEF TypeOK, Accept, ParentFull
  <2>2. child' \in [Connections -> {"none", "recv", "gone"}] /\ fds' \in [Connections -> 0..MaxFds]
    BY <1>1, <2>1 DEF TypeOK, Accept
  <2>3. Len(backlog') <= Backlog + 1
    BY <1>1, <1>3, ConstantsAssumption DEF TypeOK
  <2>. QED
    BY <1>1, <1>2, <1>3, <2>1, <2>2, <2>3 DEF TypeOK
<1>11. OnePlace'
  <2>1. \A i, j \in 1..n : accepted'[i] = accepted'[j] => i = j
    BY <1>2, <1>3, <1>6, <1>8 DEF OnePlace
  <2>2. \A i, j \in 1..Len(backlog) - 1 : backlog'[i] = backlog'[j] => i = j
    BY <1>1, <1>7 DEF OnePlace
  <2>3. \A i \in 1..n, j \in 1..Len(backlog) - 1 : accepted'[i] # backlog'[j]
    BY <1>1, <1>2, <1>3, <1>6, <1>7, <1>9 DEF OnePlace
  <2>4. \A i \in 1..n : client'[accepted'[i]] # "new"
    BY <1>1, <1>2, <1>3, <1>6 DEF OnePlace
  <2>5. \A j \in 1..Len(backlog) - 1 : client'[backlog'[j]] # "new" /\ child'[backlog'[j]] = "none"
    BY <1>1, <1>3, <1>4, <1>7, <1>9 DEF OnePlace
  <2>. QED
    BY <1>1, <1>2, <1>3, <2>1, <2>2, <2>3, <2>4, <2>5 DEF OnePlace
<1>12. NothingBefore' /\ Counted'
  <2>1. client[k] # "new"
    BY <1>1 DEF OnePlace
  <2>. QED
    BY <1>3, <1>4, <1>5, <2>1 DEF NothingBefore, Counted
<1>13. DescriptorsUsed'
  <2>1. replies[k] \in Nat
    BY <1>1 DEF TypeOK
  <2>2. \A i \in 1..n : child'[accepted'[i]] = "recv" => fds'[accepted'[i]] <= i + replies'[accepted'[i]]
    <3>1. CASE child'[k] = "recv"
      BY <1>2, <1>3, <1>4, <1>5, <1>6, <1>8, <2>1, <3>1 DEF DescriptorsUsed
    <3>2. CASE child'[k] # "recv"
      BY <1>2, <1>3, <1>4, <1>6, <1>8, <3>2 DEF DescriptorsUsed
    <3>. QED
      BY <3>1, <3>2
  <2>. QED
    BY <1>2, <1>3, <2>2 DEF DescriptorsUsed
<1>14. FoundWhileDescriptorsLast'
  <2>1. lastReply[k].to # "page"
    BY <1>1, <1>5 DEF NothingBefore, NoReply
  <2>2. SUFFICES ASSUME NEW c \in Connections, NEW i \in 1..n, accepted'[i] = c,
                        lastReply[c].to = "page", replies[c] <= MaxFds - i
                 PROVE  lastReply[c].status = 200
    BY <1>2, <1>3 DEF FoundWhileDescriptorsLast
  <2>3. i \in 1..Len(accepted) /\ accepted[i] = c
    BY <1>2, <1>3, <1>6, <2>1, <2>2
  <2>. QED
    BY <1>2, <2>2, <2>3 DEF FoundWhileDescriptorsLast
<1>. QED
  BY <1>10, <1>11, <1>12, <1>13, <1>14

LEMMA AcceptFailsStep ==
    ASSUME WebInvariant, AcceptFails
    PROVE  WebInvariant'
<1>. USE DEF WebInvariant
<1>1. TypeOK'
  <2>1. <<>> \in Seq(Connections) /\ Len(<<>>) <= Backlog + 1
    BY ConstantsAssumption
  <2>. QED
    BY <2>1 DEF TypeOK, AcceptFails, childVars
<1>2. OnePlace' /\ NothingBefore' /\ Counted' /\ DescriptorsUsed' /\ FoundWhileDescriptorsLast'
  BY DEF OnePlace, NothingBefore, Counted, DescriptorsUsed, FoundWhileDescriptorsLast,
         AcceptFails, childVars
<1>. QED
  BY <1>1, <1>2

-----------------------------------------------------------------------------

\* What a step of child k that takes requests from its inbox must do to keep the
\* invariant, whichever reply it sends.
LEMMA ChildInvariant ==
    ASSUME WebInvariant, NEW k \in Connections,
           child[k] = "recv",
           UNCHANGED <<parentVars, client>>,
           inbox' \in [Connections -> 0..MaxRequests],
           child' \in [Connections -> {"none", "recv", "gone"}],
           fds' \in [Connections -> 0..MaxFds],
           replies' \in [Connections -> Nat],
           lastReply' \in [Connections -> [to : Requests, status : Statuses] \cup {NoReply}],
           \A c \in Connections \ {k} :
               /\ inbox'[c] = inbox[c] /\ child'[c] = child[c] /\ fds'[c] = fds[c]
               /\ replies'[c] = replies[c] /\ lastReply'[c] = lastReply[c],
           child'[k] # "none",
           inbox'[k] + replies'[k] <= MaxRequests,
           child'[k] = "recv" => fds'[k] - replies'[k] <= fds[k] - replies[k],
           \/ lastReply'[k] = lastReply[k] /\ replies'[k] >= replies[k]
           \/ lastReply'[k].to = "page" => lastReply'[k].status = 200
           \/ fds[k] = MaxFds /\ replies'[k] = replies[k] + 1
    PROVE  WebInvariant'
<1>. USE DEF WebInvariant
<1>0. \A c \in Connections : inbox'[c] \in Nat /\ replies[c] \in Nat /\ fds[c] \in Nat
  BY DEF TypeOK
<1>1. Counted'
  BY <1>0 DEF Counted
<1>2. TypeOK'
  <2>1. replies' \in [Connections -> 0..MaxRequests]
    BY <1>0, <1>1, ConstantsAssumption DEF Counted
  <2>. QED
    BY <2>1 DEF TypeOK, parentVars
<1>3. \A i \in DOMAIN accepted : accepted[i] \in Connections /\ i \in Nat
  BY SeqFacts DEF TypeOK
<1>4. \A j \in DOMAIN backlog : backlog[j] \in Connections /\ backlog[j] # k
  BY SeqFacts DEF TypeOK, OnePlace
<1>5. OnePlace'
  BY <1>4 DEF OnePlace, parentVars
<1>6. NothingBefore'
  BY DEF NothingBefore
<1>7. DescriptorsUsed'
  <2>1. SUFFICES ASSUME NEW i \in DOMAIN accepted, child'[accepted[i]] = "recv"
                 PROVE  fds'[accepted[i]] <= i + replies'[accepted[i]]
    BY DEF DescriptorsUsed, parentVars
  <2>2. CASE accepted[i] = k
    <3>1. fds[k] <= i + replies[k]
      BY <2>2 DEF DescriptorsUsed
    <3>. QED
      BY <1>0, <1>3, <2>1, <2>2, <3>1
  <2>3. CASE accepted[i] # k
    BY <1>3, <2>1, <2>3 DEF DescriptorsUsed
  <2>. QED
    BY <2>2, <2>3
<1>8. FoundWhileDescriptorsLast'
  <2>1. SUFFICES ASSUME NEW c \in Connections, NEW i \in DOMAIN accepted, accepted[i] = c,
                        lastReply'[c].to = "page", replies'[c] <= MaxFds - i
                 PROVE  lastReply'[c].status = 200
    BY DEF FoundWhileDescriptorsLast, parentVars
  <2>2. CASE c = k
    <3>1. fds[k] <= i + replies[k]
      BY <2>1, <2>2 DEF DescriptorsUsed
    <3>2. ~(fds[k] = MaxFds /\ replies'[k] = replies[k] + 1)
      BY <1>0, <1>3, <2>1, <2>2, <3>1, ConstantsAssumption
    <3>3. CASE lastReply'[k] = lastReply[k] /\ replies'[k] >= replies[k]
      <4>1. replies[k] <= MaxFds - i
        BY <1>0, <1>3, <2>1, <2>2, <3>3, ConstantsAssumption
      <4>. QED
        BY <2>1, <2>2, <3>3, <4>1 DEF FoundWhileDescriptorsLast
    <3>. QED
      BY <2>1, <2>2, <3>2, <3>3
  <2>3. CASE c # k
    BY <2>1, <2>3 DEF FoundWhileDescriptorsLast
  <2>. QED
    BY <2>2, <2>3
<1>. QED
  BY <1>1, <1>2, <1>5, <1>6, <1>7, <1>8

LEMMA HandleRequestStep ==
    ASSUME WebInvariant, NEW k \in Connections, HandleRequest(k)
    PROVE  WebInvariant'
<1>1. TypeOK /\ Counted
  BY DEF WebInvariant
<1>2. PICK n \in 1..inbox[k] : inbox' = [inbox EXCEPT ![k] = @ - n]
  BY DEF HandleRequest
<1>3. /\ inbox[k] \in 0..MaxRequests /\ replies[k] \in Nat /\ fds[k] \in 0..MaxFds
      /\ inbox[k] + replies[k] <= MaxRequests
  BY <1>1 DEF TypeOK, Counted
<1>4. /\ inbox' \in [Connections -> 0..MaxRequests]
      /\ \A c \in Connections \ {k} : inbox'[c] = inbox[c]
      /\ inbox'[k] \in Nat /\ inbox'[k] + 1 <= inbox[k]
  BY <1>1, <1>2, <1>3, ConstantsAssumption DEF TypeOK
<1>5. child[k] = "recv" /\ UNCHANGED <<parentVars, client>>
  BY DEF HandleRequest
<1>6. PICK r \in Requests : TurnDown(k, r) \/ (r # "unsupported" /\ ProcessRequest(k, r))
  BY DEF HandleRequest
\* A reply to r with a status, behind a change of fds.
<1>7. ASSUME NEW status \in Statuses, NEW next \in {"recv", "gone"}, Reply(k, r, status, next),
             fds' \in [Connections -> 0..MaxFds],
             \A c \in Connections \ {k} : fds'[c] = fds[c],
             fds'[k] <= fds[k] + 1,
             \/ r # "page" \/ status = 200 \/ fds[k] = MaxFds
      PROVE  WebInvariant'
  <2>1. /\ replies' \in [Connections -> Nat]
        /\ replies'[k] = replies[k] + 1
        /\ \A c \in Connections \ {k} : replies'[c] = replies[c]
    BY <1>1, <1>3, <1>7 DEF Reply, TypeOK
  <2>2. /\ lastReply' \in [Connections -> [to : Requests, status : Statuses] \cup {NoReply}]
        /\ lastReply'[k] = [to |-> r, status |-> status]
        /\ \A c \in Connections \ {k} : lastReply'[c] = lastReply[c]
    BY <1>1, <1>7 DEF Reply, TypeOK
  <2>3. /\ child' \in [Connections -> {"none", "recv", "gone"}]
        /\ child'[k] # "none"
        /\ \A c \in Connections \ {k} : child'[c] = child[c]
    BY <1>1, <1>7 DEF Reply, TypeOK
  <2>4. inbox'[k] + replies'[k] <= MaxRequests
    BY <1>3, <1>4, <2>1, ConstantsAssumption
  <2>5. fds'[k] - replies'[k] <= fds[k] - replies[k]
    BY <1>3, <1>7, <2>1, ConstantsAssumption
  <2>6. \/ lastReply'[k].to = "page" => lastReply'[k].status = 200
        \/ fds[k] = MaxFds /\ replies'[k] = replies[k] + 1
    BY <1>7, <2>1, <2>2
  <2>. QED
    BY <1>4, <1>5, <1>7, <2>1, <2>2, <2>3, <2>4, <2>5, <2>6, ChildInvariant
<1>8. fds \in [Connections -> 0..MaxFds]
  BY <1>1 DEF TypeOK
<1>9. CASE TurnDown(k, r)
  <2>1. Reply(k, r, 501, "gone") /\ fds' = fds /\ r # "page"
    BY <1>9 DEF TurnDown
  <2>2. 501 \in Statuses /\ fds'[k] <= fds[k] + 1
    BY <1>3, <2>1 DEF Statuses
  <2>. QED
    BY <1>7, <1>8, <2>1, <2>2
<1>10. CASE ProcessRequest(k, r)
  <2>1. CASE (r = "missing" \/ fds[k] = MaxFds) /\ NotFound(k, r) /\ UNCHANGED fds
    <3>1. 404 \in Statuses /\ fds'[k] <= fds[k] + 1
      BY <1>3, <2>1 DEF Statuses
    <3>. QED
      BY <1>7, <1>8, <2>1, <3>1 DEF NotFound
  <2>2. ASSUME fds[k] < MaxFds, Fopen(k)
        PROVE  /\ fds' \in [Connections -> 0..MaxFds]
               /\ \A c \in Connections \ {k} : fds'[c] = fds[c]
               /\ fds'[k] <= fds[k] + 1
    BY <1>3, <1>8, <2>2, ConstantsAssumption DEF Fopen
  <2>3. CASE fds[k] < MaxFds /\ Fopen(k) /\ r = "page" /\ Reply(k, r, 200, "recv")
    <3>1. 200 \in Statuses
      BY DEF Statuses
    <3>. QED
      BY <1>7, <2>2, <2>3, <3>1
  <2>4. CASE fds[k] < MaxFds /\ Fopen(k) /\ r = "noExtension" /\ NotFound(k, r)
    <3>1. 404 \in Statuses
      BY DEF Statuses
    <3>. QED
      BY <1>7, <2>2, <2>4, <3>1 DEF NotFound
  <2>5. CASE /\ fds[k] < MaxFds /\ Fopen(k)
             /\ child' = [child EXCEPT ![k] = "gone"] /\ UNCHANGED <<replies, lastReply>>
    <3>1. /\ child' \in [Connections -> {"none", "recv", "gone"}]
          /\ child'[k] = "gone"
          /\ \A c \in Connections \ {k} : child'[c] = child[c]
      BY <1>1, <2>5 DEF TypeOK
    <3>2. /\ replies' \in [Connections -> Nat]
          /\ lastReply' \in [Connections -> [to : Requests, status : Statuses] \cup {NoReply}]
      BY <1>1, <2>5 DEF TypeOK
    <3>3. inbox'[k] + replies'[k] <= MaxRequests /\ replies'[k] >= replies[k]
      BY <1>3, <1>4, <2>5, ConstantsAssumption
    <3>. QED
      BY <1>4, <1>5, <2>2, <2>5, <3>1, <3>2, <3>3, ChildInvariant
  <2>. QED
    BY <1>10, <2>1, <2>3, <2>4, <2>5 DEF ProcessRequest
<1>. QED
  BY <1>6, <1>9, <1>10

LEMMA DisconnectedStep ==
    ASSUME WebInvariant, NEW k \in Connections, Disconnected(k)
    PROVE  WebInvariant'
<1>1. TypeOK /\ Counted
  BY DEF WebInvariant
<1>2. /\ inbox \in [Connections -> 0..MaxRequests] /\ replies \in [Connections -> Nat]
      /\ fds \in [Connections -> 0..MaxFds]
      /\ lastReply \in [Connections -> [to : Requests, status : Statuses] \cup {NoReply}]
      /\ inbox[k] + replies[k] <= MaxRequests /\ replies[k] >= replies[k]
  BY <1>1 DEF TypeOK, Counted
<1>3. /\ child' \in [Connections -> {"none", "recv", "gone"}]
      /\ child'[k] = "gone"
      /\ \A c \in Connections \ {k} : child'[c] = child[c]
  BY <1>1 DEF Disconnected, TypeOK
<1>4. /\ child[k] = "recv"
      /\ UNCHANGED <<parentVars, client, inbox, fds, replies, lastReply>>
  BY DEF Disconnected
<1>. QED
  BY <1>2, <1>3, <1>4, ChildInvariant

-----------------------------------------------------------------------------

LEMMA WebInvariantHolds == Spec => []WebInvariant
<1>1. WebInvariant /\ [Next]_vars => WebInvariant'
  <2> SUFFICES ASSUME WebInvariant, [Next]_vars PROVE WebInvariant'
    OBVIOUS
  <2>1. CASE UNCHANGED vars
    BY <2>1 DEF vars, parentVars, childVars, WebInvariant, TypeOK, OnePlace, NothingBefore,
                Counted, DescriptorsUsed, FoundWhileDescriptorsLast
  <2>2. CASE Next
    BY <2>2, ConnectStep, SendRequestStep, CloseClientStep, AcceptStep, AcceptFailsStep,
       HandleRequestStep, DisconnectedStep DEF Next, ParentStep, ChildStep
  <2>. QED
    BY <2>1, <2>2
<1>. QED
  BY <1>1, InitInvariant, PTL DEF Spec

\* The type invariant of the web server (its parent and its children).
THEOREM TypeCorrect == FairSpec => []TypeOK
<1>1. WebInvariant => TypeOK
  BY DEF WebInvariant
<1>. QED
  BY <1>1, WebInvariantHolds, PTL DEF FairSpec

\* The child of the i-th connection of the web server finds every file that exists for
\* its first MaxFds - i replies (processRequest), however the clients pipeline, leave
\* or fail to be forked for.
THEOREM FoundWhileDescriptorsLastCorrect == FairSpec => []FoundWhileDescriptorsLast
<1>1. WebInvariant => FoundWhileDescriptorsLast
  BY DEF WebInvariant
<1>. QED
  BY <1>1, WebInvariantHolds, PTL DEF FairSpec
=============================================================================
