------------------------------- MODULE ProxyCache -------------------------------
(***************************************************************************)
(* The file cache of the proxy (Proxy/proxy.c): a thread per connection,   *)
(* a directory with one file per URL, and cache_lock, which a thread holds *)
(* while it reads a page from its origin.                                  *)
(*                                                                         *)
(* A file is truncated and visible from fopen on, before the lock is       *)
(* taken; what is written to it stays in the FILE's buffer until the       *)
(* buffer is full or fclose is called, after the lock is given up; and the *)
(* lookup, which takes no lock, believes any file that exists.             *)
(*                                                                         *)
(* The pages of the origins do not change and have chunks 1..PageLength;   *)
(* which host and file a request names is left to the parsing of it.       *)
(***************************************************************************)
EXTENDS Naturals, Sequences, FiniteSets

CONSTANTS
    Threads,      \* connection threads that may be alive at a time
    Urls,         \* pages; their MD5 names do not collide
    PageLength,   \* chunks of a page, a chunk being what one read returns
    Timeout,      \* whether the proxy was started with a timeout
    MaxRequests,  \* bound: connections accepted
    MaxCrashes,   \* bound: times the process is killed and started again
    Refusal,      \* an error reply
    Junk,         \* uninitialised bytes of a stack buffer
    None

Hole == 0                        \* bytes of a file that nobody has written
Page == [i \in 1..PageLength |-> i]
Chunks == 0..PageLength

ASSUME ConstantsAssumption ==
    /\ PageLength \in Nat \ {0}
    /\ {MaxRequests, MaxCrashes} \subseteq Nat
    /\ Timeout \in BOOLEAN
    /\ Urls # {}
    /\ None \notin Threads
    /\ {Refusal, Junk} \cap Nat = {}

VARIABLES
    pc,         \* where each thread is in echo; "idle": there is no such thread
    url,        \* the page asked of it
    reply,      \* what it has written to its client
    size,       \* fileSize of sendFileFromCache
    written,    \* chunks it has given to fwrite
    flushed,    \* chunks of those that have left the FILE's buffer
    holder,     \* the thread that holds cache_lock
    cacheDir,   \* whether the directory cache exists
    files,      \* its files, by URL
    old,        \* files last written longer ago than the timeout
    opener,     \* history: the thread that last opened a file, if still at it
    whole,      \* history: files whose last fetch got the whole page
    requests, crashes   \* history: counters of the bounds

threadVars == <<pc, url, reply, size, written, flushed>>
cacheVars == <<cacheDir, files, old, opener, whole>>
vars == <<threadVars, holder, cacheVars, requests, crashes>>

TypeOK ==
    /\ pc \in [Threads -> {"idle", "check", "measure", "send", "admit", "open",
                           "lock", "read", "close"}]
    /\ url \in [Threads -> Urls]
    /\ reply \in [Threads -> Seq(Chunks \cup {Refusal, Junk})]
    /\ size \in [Threads -> Chunks]
    /\ written \in [Threads -> Chunks]
    /\ flushed \in [Threads -> Chunks]
    /\ \A t \in Threads : flushed[t] <= written[t]
    /\ holder \in Threads \cup {None}
    /\ cacheDir \in BOOLEAN
    /\ DOMAIN files \subseteq Urls
    /\ \A u \in DOMAIN files : files[u] \in Seq(Chunks) /\ Len(files[u]) <= PageLength
    /\ old \subseteq DOMAIN files
    /\ opener \in [Urls -> Threads \cup {None}]
    /\ whole \subseteq DOMAIN files
    /\ requests \in 0..MaxRequests
    /\ crashes \in 0..MaxCrashes

Init ==
    /\ pc = [t \in Threads |-> "idle"]
    /\ url = [t \in Threads |-> CHOOSE u \in Urls : TRUE]
    /\ reply = [t \in Threads |-> <<>>]
    /\ size = [t \in Threads |-> 0]
    /\ written = [t \in Threads |-> 0]
    /\ flushed = [t \in Threads |-> 0]
    /\ holder = None
    /\ cacheDir \in BOOLEAN
    /\ files = [u \in {} |-> <<>>]
    /\ old = {}
    /\ opener = [u \in Urls |-> None]
    /\ whole = {}
    /\ requests = 0
    /\ crashes = 0

Goto(t, label) == pc' = [pc EXCEPT ![t] = label]

-----------------------------------------------------------------------------
(* Accepting a connection and answering from the cache. *)

\* main accepts, a thread is made and reads a request for u.
Accept(t, u) ==
    /\ pc[t] = "idle"
    /\ requests < MaxRequests
    /\ requests' = requests + 1
    /\ url' = [url EXCEPT ![t] = u]
    /\ reply' = [reply EXCEPT ![t] = <<>>]
    /\ Goto(t, "check")
    /\ UNCHANGED <<size, written, flushed, holder, cacheVars, crashes>>

\* The same, with a request that checkForBadRequest turns down.
AcceptBadRequest(t) ==
    /\ pc[t] = "idle"
    /\ requests < MaxRequests
    /\ requests' = requests + 1
    /\ reply' = [reply EXCEPT ![t] = <<Refusal>>]
    /\ UNCHANGED <<pc, url, size, written, flushed, holder, cacheVars, crashes>>

\* checkCacheMD5.  opendir reports a missing directory with ENOENT, the code
\* compares with ENONET, so mkdir is not reached.
InCache(u) == cacheDir /\ u \in DOMAIN files /\ (Timeout => u \notin old)

CheckCache(t) ==
    /\ pc[t] = "check"
    /\ Goto(t, IF InCache(url[t]) THEN "measure" ELSE "admit")
    /\ UNCHANGED <<url, reply, size, written, flushed, holder, cacheVars, requests, crashes>>

\* sendFileFromCache: fopen, fseek and ftell.
MeasureFile(t) ==
    /\ pc[t] = "measure"
    /\ size' = [size EXCEPT ![t] = Len(files[url[t]])]
    /\ Goto(t, "send")
    /\ UNCHANGED <<url, reply, written, flushed, holder, cacheVars, requests, crashes>>

\* sendFileFromCache: fread, which gets less if the file was truncated since,
\* and a write of fileSize bytes all the same.
SendFile(t) ==
    LET f == files[url[t]]
    IN  /\ pc[t] = "send"
        /\ reply' = [reply EXCEPT ![t] =
                [i \in 1..size[t] |-> IF i <= Len(f) THEN f[i] ELSE Junk]]
        /\ Goto(t, "idle")
        /\ UNCHANGED <<url, size, written, flushed, holder, cacheVars, requests, crashes>>

-----------------------------------------------------------------------------
(* Fetching a page and storing it. *)

\* The host is not known or forbidden (an error reply), or cannot be reached
\* (none), or the request is sent.
Admit(t) ==
    /\ pc[t] = "admit"
    /\ \/ reply' = [reply EXCEPT ![t] = <<Refusal>>] /\ Goto(t, "idle")
       \/ UNCHANGED reply /\ (Goto(t, "idle") \/ Goto(t, "open"))
    /\ UNCHANGED <<url, size, written, flushed, holder, cacheVars, requests, crashes>>

\* fopen in mode "wb"; without the directory it returns a null pointer.
OpenFile(t) ==
    LET u == url[t]
    IN  /\ pc[t] = "open"
        /\ \/ /\ cacheDir
              /\ files' = [v \in DOMAIN files \cup {u} |-> IF v = u THEN <<>> ELSE files[v]]
              /\ old' = old \ {u}
              /\ opener' = [opener EXCEPT ![u] = t]
              /\ whole' = whole \ {u}
           \/ ~cacheDir /\ UNCHANGED <<files, old, opener, whole>>
        /\ written' = [written EXCEPT ![t] = 0]
        /\ flushed' = [flushed EXCEPT ![t] = 0]
        /\ Goto(t, "lock")
        /\ UNCHANGED <<url, reply, size, holder, cacheDir, requests, crashes>>

LockCache(t) ==
    /\ pc[t] = "lock"
    /\ holder = None
    /\ holder' = t
    /\ Goto(t, "read")
    /\ UNCHANGED <<url, reply, size, written, flushed, cacheVars, requests, crashes>>

\* A broken variant, for mutation runs: fopen in mode "ab".
OverlayAtEnd(f, from, to) == f \o [i \in 1..to-from |-> from + i]

\* File f once chunks from+1..to of the page were written at their place; what
\* lies between its end and that place reads as zeros.
Overlay(f, from, to) ==
    [i \in 1..(IF to > Len(f) THEN to ELSE Len(f)) |->
        IF i \in from+1..to THEN i ELSE IF i <= Len(f) THEN f[i] ELSE Hole]

\* The FILE's buffer is written up to chunk n.
Flush(t, n) ==
    LET u == url[t]
    IN  /\ flushed' = [flushed EXCEPT ![t] = n]
        /\ \/ n = flushed[t] /\ UNCHANGED <<files, old>>
           \/ /\ n > flushed[t]
              /\ files' = [files EXCEPT ![u] = Overlay(@, flushed[t], n)]
              /\ old' = old \ {u}

\* The process is gone, and with it its threads, its lock and its buffers.
Vanish ==
    /\ pc' = [t \in Threads |-> "idle"]
    /\ written' = [t \in Threads |-> 0]
    /\ flushed' = [t \in Threads |-> 0]
    /\ holder' = None
    /\ opener' = [u \in Urls |-> None]

\* read, write to the client, fwrite.  fwrite may keep the chunk or any part of
\* what it has kept so far, and does not survive a null pointer.
ReadChunk(t) ==
    LET n == written[t] + 1
    IN  /\ pc[t] = "read"
        /\ n <= PageLength
        /\ reply' = [reply EXCEPT ![t] = Append(@, n)]
        /\ \/ /\ cacheDir
              /\ written' = [written EXCEPT ![t] = n]
              /\ \E k \in flushed[t]..n : Flush(t, k)
              /\ UNCHANGED <<pc, holder, opener>>
           \/ ~cacheDir /\ Vanish /\ UNCHANGED <<files, old>>
        /\ UNCHANGED <<url, size, cacheDir, whole, requests, crashes>>

\* A broken variant, for mutation runs: a failed read returns at once.
EndOfReadAtOnce(t) ==
    /\ pc[t] = "read"
    /\ Goto(t, "idle")
    /\ UNCHANGED <<url, reply, size, written, flushed, holder, cacheVars, requests, crashes>>

\* read returns 0, wherever the origin closes the connection, or -1.
EndOfRead(t) ==
    /\ pc[t] = "read"
    /\ holder' = None
    /\ Goto(t, "close")
    /\ UNCHANGED <<url, reply, size, written, flushed, cacheVars, requests, crashes>>

\* A broken variant, for mutation runs: the file is not closed.
CloseFileForgotten(t) ==
    /\ pc[t] = "close"
    /\ Goto(t, "idle")
    /\ whole' = IF opener[url[t]] = t /\ written[t] = PageLength
                THEN whole \cup {url[t]} ELSE whole
    /\ opener' = [u \in Urls |-> IF opener[u] = t THEN None ELSE opener[u]]
    /\ UNCHANGED <<files, old, written, flushed, url, reply, size, holder,
                   cacheDir, requests, crashes>>

\* fclose, which writes the rest of the buffer, and the end of the thread.
CloseFile(t) ==
    /\ pc[t] = "close"
    /\ \/ /\ cacheDir
          /\ Flush(t, written[t])
          /\ Goto(t, "idle")
          /\ whole' = IF opener[url[t]] = t /\ written[t] = PageLength
                      THEN whole \cup {url[t]} ELSE whole
          /\ opener' = [u \in Urls |-> IF opener[u] = t THEN None ELSE opener[u]]
          /\ UNCHANGED <<written, holder>>
       \/ ~cacheDir /\ Vanish /\ UNCHANGED <<files, old, whole>>
    /\ UNCHANGED <<url, reply, size, cacheDir, requests, crashes>>

ThreadStep(t) ==
    \/ CheckCache(t) \/ MeasureFile(t) \/ SendFile(t)
    \/ Admit(t) \/ OpenFile(t) \/ LockCache(t)
    \/ ReadChunk(t) \/ EndOfRead(t) \/ CloseFile(t)

-----------------------------------------------------------------------------

\* Time passes: a file becomes older than the timeout.
FileAges(u) ==
    /\ Timeout
    /\ u \in DOMAIN files \ old
    /\ old' = old \cup {u}
    /\ UNCHANGED <<threadVars, holder, cacheDir, files, opener, whole, requests, crashes>>

\* The process is killed, by hand or by the SIGPIPE of a write to a client that
\* has left, and is started again.
Crash ==
    /\ crashes < MaxCrashes
    /\ crashes' = crashes + 1
    /\ Vanish
    /\ UNCHANGED <<url, reply, size, cacheDir, files, old, whole, requests>>

Next ==
    \/ \E t \in Threads :
        \/ \E u \in Urls : Accept(t, u)
        \/ AcceptBadRequest(t)
        \/ ThreadStep(t)
    \/ \E u \in Urls : FileAges(u)
    \/ Crash

Spec == Init /\ [][Next]_vars

\* The threads are scheduled, and every origin answers or closes.
FairSpec == Spec /\ \A t \in Threads : WF_vars(ThreadStep(t))

-----------------------------------------------------------------------------
(* Properties. *)

\* The thread that opened a file last decides what it holds: once it has got the
\* whole page and closed the file, the file is the page and stays so, although
\* a thread that opened it before may still have chunks to write (fclose comes
\* after the unlock) and the process may be killed and started again.
LastFetchIsWhole == \A u \in whole : files[u] = Page

\* Why it holds, inductively: whoever has opened a file last is still fetching
\* the page of it, and the chunks it has flushed are in their places.
Fetching == {t \in Threads : pc[t] \in {"lock", "read", "close"}}

CacheInvariant ==
    /\ ~cacheDir => DOMAIN files = {}
    /\ \A t \in Threads :
        pc[t] \in {"measure", "send"} \/ (cacheDir /\ t \in Fetching) =>
            url[t] \in DOMAIN files
    /\ \A u \in Urls, t \in Threads :
        opener[u] = t =>
            /\ cacheDir
            /\ t \in Fetching
            /\ url[t] = u
            /\ u \notin whole
            /\ flushed[t] <= Len(files[u])
            /\ \A i \in 1..flushed[t] : files[u][i] = i
    /\ LastFetchIsWhole

\* Every request comes to its end, however many threads wait for the lock and
\* however a fetch ends; there are finitely many (MaxRequests).
RequestEnds == \A t \in Threads : pc[t] # "idle" ~> pc[t] = "idle"

\* "File is valid" (checkCacheMD5): what is sent from the cache is the page.
SentFileIsWhole ==
    [][\A t \in Threads : SendFile(t) => reply'[t] = Page]_vars

=============================================================================
