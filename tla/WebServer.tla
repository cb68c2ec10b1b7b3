-------------------------------- MODULE WebServer --------------------------------
(***************************************************************************)
(* The web server (Web Server/server.c): a parent that accepts connections *)
(* and forks a child for each, and the descriptors they use up.            *)
(*                                                                         *)
(* The parent closes no connection it has accepted and waits for no child; *)
(* a child inherits what the parent has open, and closes no file it opens. *)
(* Requests are short and come in one piece, but a client may send several *)
(* before it reads a reply, and one recv may return them all.  What a      *)
(* request asks for is chosen when it is read, which comes to the same.    *)
(***************************************************************************)
EXTENDS Naturals, Sequences

CONSTANTS
    Connections,   \* connections that clients make
    Backlog,       \* 3 in the code
    MaxFds,        \* descriptors of a process beside 0, 1 and 2
    MaxRequests    \* bound: requests of a connection answered or unread

\* What a request asks for: a file of a known type, one that is missing, one
\* without or with an unknown extension; or nothing, for its method or version.
Requests == {"page", "missing", "noExtension", "unknownExtension", "unsupported"}
Statuses == {200, 404, 501}
NoReply == [to |-> "none", status |-> 0]

ASSUME ConstantsAssumption ==
    /\ {Backlog, MaxRequests} \subseteq Nat
    /\ MaxFds \in Nat \ {0}

VARIABLES
    up,         \* parent: still in its accept loop
    accepted,   \* parent: the connections it has accepted, all still open in it
    backlog,    \* connections nobody has accepted yet
    client,     \* client of each connection: "new", "open" or "closed"
    inbox,      \* how many requests no recv has returned yet
    child,      \* child of each connection: "none", "recv" or "gone"
    fds,        \* child: descriptors in use
    replies,    \* history: replies sent on the connection
    lastReply   \* history: the last of them and the request it answers

parentVars == <<up, accepted, backlog>>
childVars == <<child, fds, replies, lastReply>>
vars == <<parentVars, client, inbox, childVars>>

TypeOK ==
    /\ up \in BOOLEAN
    /\ accepted \in Seq(Connections) /\ Len(accepted) < MaxFds
    /\ backlog \in Seq(Connections) /\ Len(backlog) <= Backlog + 1
    /\ client \in [Connections -> {"new", "open", "closed"}]
    /\ inbox \in [Connections -> 0..MaxRequests]
    /\ child \in [Connections -> {"none", "recv", "gone"}]
    /\ fds \in [Connections -> 0..MaxFds]
    /\ replies \in [Connections -> 0..MaxRequests]
    /\ lastReply \in [Connections -> [to : Requests, status : Statuses] \cup {NoReply}]

Init ==
    /\ up = TRUE
    /\ accepted = <<>>
    /\ backlog = <<>>
    /\ client = [k \in Connections |-> "new"]
    /\ inbox = [k \in Connections |-> 0]
    /\ child = [k \in Connections |-> "none"]
    /\ fds = [k \in Connections |-> 0]
    /\ replies = [k \in Connections |-> 0]
    /\ lastReply = [k \in Connections |-> NoReply]

-----------------------------------------------------------------------------
(* Clients. *)

\* The kernel completes a connection while it has room for it.
Connect(k) ==
    /\ up
    /\ client[k] = "new"
    /\ Len(backlog) <= Backlog
    /\ client' = [client EXCEPT ![k] = "open"]
    /\ backlog' = Append(backlog, k)
    /\ UNCHANGED <<up, accepted, inbox, childVars>>

SendRequest(k) ==
    /\ client[k] = "open"
    /\ inbox[k] + replies[k] < MaxRequests
    /\ inbox' = [inbox EXCEPT ![k] = @ + 1]
    /\ UNCHANGED <<parentVars, client, childVars>>

CloseClient(k) ==
    /\ client[k] = "open"
    /\ client' = [client EXCEPT ![k] = "closed"]
    /\ UNCHANGED <<parentVars, inbox, childVars>>

-----------------------------------------------------------------------------
(* The parent. *)

\* Its descriptors: the listening socket and every connection so far.
ParentFull == 1 + Len(accepted) = MaxFds

\* accept and fork.  For want of a process (children are never waited for) fork
\* returns -1, and the parent goes on; the connection stays open in it.
Accept ==
    /\ up
    /\ backlog # <<>>
    /\ ~ParentFull
    /\ accepted' = Append(accepted, Head(backlog))
    /\ backlog' = Tail(backlog)
    /\ \/ /\ child' = [child EXCEPT ![Head(backlog)] = "recv"]
          /\ fds' = [fds EXCEPT ![Head(backlog)] = Len(accepted) + 1]
       \/ UNCHANGED <<child, fds>>
    /\ UNCHANGED <<up, client, inbox, replies, lastReply>>

\* A broken variant, for mutation runs: the parent tries again.
AcceptFailsAgain == up /\ ParentFull /\ UNCHANGED vars

\* accept fails as soon as there is no descriptor for it; main returns.
AcceptFails ==
    /\ up
    /\ ParentFull
    /\ up' = FALSE
    /\ backlog' = <<>>
    /\ UNCHANGED <<accepted, client, inbox, childVars>>

-----------------------------------------------------------------------------
(* A child. *)

\* send and write of one reply to request r.  A child whose client has left may
\* be killed by SIGPIPE; otherwise it goes on at next.
Reply(k, r, status, next) ==
    /\ replies' = [replies EXCEPT ![k] = @ + 1]
    /\ lastReply' = [lastReply EXCEPT ![k] = [to |-> r, status |-> status]]
    /\ \/ child' = [child EXCEPT ![k] = next]
       \/ client[k] = "closed" /\ child' = [child EXCEPT ![k] = "gone"]

\* responseHandler: another method than GET (501), another version than 1.0 and
\* 1.1 (505, which 501 stands for too); the child closes the connection and exits.
TurnDown(k, r) ==
    /\ r = "unsupported"
    /\ Reply(k, r, 501, "gone")
    /\ UNCHANGED fds

\* Broken variants, for mutation runs: the file is opened twice; a request for
\* a missing file is not answered.
FopenTwice(k) == fds' = [fds EXCEPT ![k] = @ + 2]
NotFoundUnanswered(k, r) ==
    child' = [child EXCEPT ![k] = "recv"] /\ UNCHANGED <<replies, lastReply>>

Fopen(k) == fds' = [fds EXCEPT ![k] = @ + 1]
NotFound(k, r) == Reply(k, r, 404, "recv")

\* processRequest.  fopen fails for want of a file or of a descriptor, which
\* both give a 404; an unknown extension ends in strcmp with a null pointer.
ProcessRequest(k, r) ==
    \/ /\ r = "missing" \/ fds[k] = MaxFds
       /\ NotFound(k, r)
       /\ UNCHANGED fds
    \/ /\ r # "missing" /\ fds[k] < MaxFds
       /\ Fopen(k)
       /\ \/ r = "page" /\ Reply(k, r, 200, "recv")
          \/ r = "noExtension" /\ NotFound(k, r)
          \/ /\ r = "unknownExtension"
             /\ child' = [child EXCEPT ![k] = "gone"]
             /\ UNCHANGED <<replies, lastReply>>

\* One round of main's receive loop.  recv returns one request or several, of
\* which only the first is parsed; all until the next recv is the child's alone.
HandleRequest(k) ==
    /\ child[k] = "recv"
    /\ inbox[k] > 0
    /\ \E n \in 1..inbox[k] : inbox' = [inbox EXCEPT ![k] = @ - n]
    /\ \E r \in Requests :
          TurnDown(k, r) \/ (r # "unsupported" /\ ProcessRequest(k, r))
    /\ UNCHANGED <<parentVars, client>>

\* recv returns 0, or -1, once the client has left.
Disconnected(k) ==
    /\ child[k] = "recv"
    /\ inbox[k] = 0
    /\ client[k] = "closed"
    /\ child' = [child EXCEPT ![k] = "gone"]
    /\ UNCHANGED <<parentVars, client, inbox, fds, replies, lastReply>>

ParentStep == Accept \/ AcceptFails
ChildStep(k) == HandleRequest(k) \/ Disconnected(k)

Next ==
    \/ ParentStep
    \/ \E k \in Connections :
        \/ Connect(k)
        \/ SendRequest(k)
        \/ CloseClient(k)
        \/ ChildStep(k)

Spec == Init /\ [][Next]_vars

\* Parent and children are scheduled; nothing is asked of the clients.
FairSpec == Spec /\ WF_vars(ParentStep) /\ \A k \in Connections : WF_vars(ChildStep(k))

-----------------------------------------------------------------------------
(* Properties. *)

\* The descriptors lost are exactly those of earlier connections and of earlier
\* requests on this one: until they are used up, a file that exists is found.
FoundWhileDescriptorsLast ==
    \A k \in Connections, i \in DOMAIN accepted :
        /\ accepted[i] = k
        /\ lastReply[k].to = "page"
        /\ replies[k] <= MaxFds - i
        => lastReply[k].status = 200

\* A child answers what it receives (main's receive loop), with whatever status,
\* unless it ends.
RequestAnswered ==
    \A k \in Connections, n \in 0..MaxRequests-1 :
        child[k] = "recv" /\ inbox[k] > 0 /\ replies[k] = n
            ~> child[k] = "gone" \/ replies[k] > n

\* No client waits for ever in the backlog: it is accepted, or the server ends.
NobodyWaitsInBacklog ==
    \A k \in Connections : (\E i \in DOMAIN backlog : backlog[i] = k)
                               ~> ~(\E i \in DOMAIN backlog : backlog[i] = k)

\* "return an error response, and break" (processRequest), and the header
\* Connection: close of every error reply: no reply follows an error.
NothingAfterError ==
    [][\A k \in Connections :
          lastReply[k].status \notin {0, 200} => replies'[k] = replies[k]]_vars

=============================================================================
