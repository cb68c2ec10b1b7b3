---------------------------- MODULE ProxyCacheProofs ----------------------------
(***************************************************************************)
(* Proofs about ProxyCache, for every number of threads, pages, requests   *)
(* and crashes and every length of a page: the last fetch of a page        *)
(* decides what its file holds, and what is sent of it then is the page;   *)
(* a request comes nearer to its end with each step of its thread.         *)
(***************************************************************************)
EXTENDS ProxyCache, TLAPS

LEMMA PageFacts ==
    /\ PageLength \in Nat /\ 0 \in Chunks /\ Chunks \subseteq Nat
    /\ Page \in Seq(Chunks) /\ Len(Page) = PageLength
    /\ \A i \in 1..PageLength : Page[i] = i
<1>1. Page \in [1..PageLength -> Chunks]
  BY ConstantsAssumption DEF Page, Chunks
<1>. QED
  BY <1>1, ConstantsAssumption DEF Page, Chunks

\* A write at the FILE's own place: it never shortens the file, puts its chunks
\* where they belong and leaves the others alone.
LEMMA OverlayFacts ==
    ASSUME NEW f \in Seq(Chunks), Len(f) <= PageLength,
           NEW from \in Nat, NEW to \in Nat, from < to, to <= PageLength
    PROVE  /\ Overlay(f, from, to) \in Seq(Chunks)
           /\ Len(Overlay(f, from, to)) \in Nat
           /\ Len(Overlay(f, from, to)) <= PageLength
           /\ Len(Overlay(f, from, to)) >= to
           /\ Len(Overlay(f, from, to)) >= Len(f)
           /\ \A i \in from+1..to : Overlay(f, from, to)[i] = i
           /\ \A i \in 1..Len(f) : f[i] = i => Overlay(f, from, to)[i] = i
<1> DEFINE n == IF to > Len(f) THEN to ELSE Len(f)
           g == [i \in 1..n |->
                    IF i \in from+1..to THEN i ELSE IF i <= Len(f) THEN f[i] ELSE Hole]
<1>1. n \in Nat /\ n <= PageLength /\ n >= to /\ n >= Len(f)
  OBVIOUS
<1>2. \A i \in 1..n : g[i] \in Chunks
  BY <1>1, PageFacts DEF Hole, Chunks
<1>3. g \in [1..n -> Chunks]
  BY <1>2
<1>4. g \in Seq(Chunks) /\ Len(g) = n
  BY <1>1, <1>3
<1>5. \A i \in from+1..to : g[i] = i
  BY <1>1
<1>6. \A i \in 1..Len(f) : f[i] = i => g[i] = i
  BY <1>1
<1>7. Overlay(f, from, to) = g
  BY DEF Overlay
<1> HIDE DEF g, n
<1>. QED
  BY <1>1, <1>4, <1>5, <1>6, <1>7

Inv == TypeOK /\ CacheInvariant

\* What a flush of a thread that is fetching does to the files.
LEMMA FlushFacts ==
    ASSUME Inv, NEW t \in Fetching, cacheDir, NEW n \in Nat,
           flushed[t] <= n, n <= PageLength, Flush(t, n)
    PROVE  /\ flushed' = [flushed EXCEPT ![t] = n]
           /\ DOMAIN files' = DOMAIN files
           /\ old' \subseteq DOMAIN files
           /\ \A u \in DOMAIN files :
                /\ files'[u] \in Seq(Chunks)
                /\ Len(files'[u]) <= PageLength
                /\ Len(files'[u]) >= Len(files[u])
                /\ \A i \in 1..Len(files[u]) : files[u][i] = i => files'[u][i] = i
           /\ flushed[t] <= Len(files[url[t]]) => n <= Len(files'[url[t]])
           /\ \A i \in flushed[t]+1..n : files'[url[t]][i] = i
<1> DEFINE v == url[t]
<1>1. /\ t \in Threads /\ flushed[t] \in Nat
      /\ v \in DOMAIN files
      /\ old \subseteq DOMAIN files
      /\ \A u \in DOMAIN files : files[u] \in Seq(Chunks) /\ Len(files[u]) <= PageLength
  BY PageFacts DEF Inv, TypeOK, CacheInvariant, Fetching
<1>2. CASE n = flushed[t]
  <2>1. files' = files /\ old' = old /\ flushed' = [flushed EXCEPT ![t] = n]
    BY <1>1, <1>2 DEF Flush
  <2>. QED
    BY <1>1, <1>2, <2>1
<1>3. CASE n > flushed[t]
  <2>1. /\ files' = [files EXCEPT ![v] = Overlay(files[v], flushed[t], n)]
        /\ old' = old \ {v}
        /\ flushed' = [flushed EXCEPT ![t] = n]
    BY <1>1, <1>3 DEF Flush
  <2>2. /\ files[v] \in Seq(Chunks)
        /\ Len(files[v]) <= PageLength
    BY <1>1
  <2> DEFINE g == Overlay(files[v], flushed[t], n)
  <2>3. /\ g \in Seq(Chunks)
        /\ Len(g) <= PageLength
        /\ Len(g) >= n
        /\ Len(g) >= Len(files[v])
        /\ \A i \in flushed[t]+1..n : g[i] = i
        /\ \A i \in 1..Len(files[v]) : files[v][i] = i => g[i] = i
    BY <1>1, <1>3, <2>2, OverlayFacts
  <2>4. files'[v] = g /\ \A u \in DOMAIN files : u # v => files'[u] = files[u]
    BY <1>1, <2>1
  <2> HIDE DEF g
  <2>5. DOMAIN files' = DOMAIN files
    BY <2>1
  <2>. QED
    BY <1>1, <2>1, <2>3, <2>4, <2>5
<1>. QED
  BY <1>1, <1>2, <1>3

LEMMA InitInv == Init => Inv
<1> SUFFICES ASSUME Init PROVE Inv
  OBVIOUS
<1>1. TypeOK
  <2>1. (CHOOSE u \in Urls : TRUE) \in Urls
    BY ConstantsAssumption
  <2>2. <<>> \in Seq(Chunks \cup {Refusal, Junk})
    OBVIOUS
  <2>3. /\ pc \in [Threads -> {"idle", "check", "measure", "send", "admit", "open",
                              "lock", "read", "close"}]
        /\ url \in [Threads -> Urls]
        /\ reply \in [Threads -> Seq(Chunks \cup {Refusal, Junk})]
    BY <2>1, <2>2 DEF Init
  <2>4. /\ size \in [Threads -> Chunks]
        /\ written \in [Threads -> Chunks]
        /\ flushed \in [Threads -> Chunks]
        /\ \A t \in Threads : flushed[t] <= written[t]
    BY PageFacts DEF Init
  <2>5. DOMAIN files = {} /\ old = {} /\ whole = {}
    BY DEF Init
  <2>6. requests \in 0..MaxRequests /\ crashes \in 0..MaxCrashes
    BY ConstantsAssumption DEF Init
  <2>7. holder \in Threads \cup {None} /\ cacheDir \in BOOLEAN
        /\ opener \in [Urls -> Threads \cup {None}]
    BY DEF Init
  <2>. QED
    BY <2>3, <2>4, <2>5, <2>6, <2>7 DEF TypeOK
<1>2. CacheInvariant
  BY ConstantsAssumption DEF Init, CacheInvariant, LastFetchIsWhole, Fetching
<1>. QED
  BY <1>1, <1>2 DEF Inv

-----------------------------------------------------------------------------
(* The steps that leave the files as they are. *)

LEMMA ChunksOfFiles ==
    ASSUME TypeOK, NEW u \in DOMAIN files
    PROVE  /\ files[u] \in Seq(Chunks) /\ Len(files[u]) \in Chunks
           /\ \A i \in 1..Len(files[u]) : files[u][i] \in Chunks
<1>1. files[u] \in Seq(Chunks) /\ Len(files[u]) <= PageLength
  BY DEF TypeOK
<1>2. Len(files[u]) \in Nat
  BY <1>1
<1>. QED
  BY <1>1, <1>2, PageFacts DEF Chunks

LEMMA AcceptStep ==
    ASSUME Inv, NEW t \in Threads, NEW u \in Urls, Accept(t, u)
    PROVE  Inv'
<1>1. TypeOK'
  <2>1. requests' \in 0..MaxRequests
    BY ConstantsAssumption DEF Inv, TypeOK, Accept
  <2>2. reply' \in [Threads -> Seq(Chunks \cup {Refusal, Junk})]
    BY DEF Inv, TypeOK, Accept
  <2>. QED
    BY <2>1, <2>2 DEF Inv, TypeOK, Accept, Goto, cacheVars
<1>2. CacheInvariant'
  BY DEF Inv, TypeOK, CacheInvariant, LastFetchIsWhole, Fetching, Accept, Goto, cacheVars
<1>. QED
  BY <1>1, <1>2 DEF Inv

LEMMA AcceptBadRequestStep ==
    ASSUME Inv, NEW t \in Threads, AcceptBadRequest(t)
    PROVE  Inv'
<1>1. TypeOK'
  <2>1. requests' \in 0..MaxRequests
    BY ConstantsAssumption DEF Inv, TypeOK, AcceptBadRequest
  <2>2. reply' \in [Threads -> Seq(Chunks \cup {Refusal, Junk})]
    BY DEF Inv, TypeOK, AcceptBadRequest
  <2>. QED
    BY <2>1, <2>2 DEF Inv, TypeOK, AcceptBadRequest, cacheVars
<1>2. CacheInvariant'
  BY DEF Inv, CacheInvariant, LastFetchIsWhole, Fetching, AcceptBadRequest, cacheVars
<1>. QED
  BY <1>1, <1>2 DEF Inv

LEMMA CheckCacheStep ==
    ASSUME Inv, NEW t \in Threads, CheckCache(t)
    PROVE  Inv'
<1>1. TypeOK'
  BY DEF Inv, TypeOK, CheckCache, Goto, cacheVars
<1>2. CacheInvariant'
  <2>1. /\ pc[t] = "check"
        /\ pc' = [pc EXCEPT ![t] = IF InCache(url[t]) THEN "measure" ELSE "admit"]
        /\ UNCHANGED <<url, flushed, cacheDir, files, opener, whole>>
    BY DEF CheckCache, Goto, cacheVars
  <2>2. \A s \in Threads : s # t => pc'[s] = pc[s]
    BY <2>1 DEF Inv, TypeOK
  <2>3. pc'[t] \in {"measure", "admit"} /\ t \notin Fetching
        /\ (pc'[t] = "measure" => url[t] \in DOMAIN files)
    BY <2>1 DEF Inv, TypeOK, Fetching, InCache
  <2>4. Fetching' = Fetching
    BY <2>2, <2>3 DEF Fetching
  <2>. QED
    BY <2>1, <2>2, <2>3, <2>4 DEF Inv, CacheInvariant, LastFetchIsWhole
<1>. QED
  BY <1>1, <1>2 DEF Inv

LEMMA MeasureFileStep ==
    ASSUME Inv, NEW t \in Threads, MeasureFile(t)
    PROVE  Inv'
<1>1. TypeOK'
  <2>1. url[t] \in DOMAIN files
    BY DEF Inv, CacheInvariant, MeasureFile
  <2>2. Len(files[url[t]]) \in Chunks
    BY <2>1, ChunksOfFiles DEF Inv
  <2>3. size' \in [Threads -> Chunks]
    BY <2>2 DEF Inv, TypeOK, MeasureFile
  <2>. QED
    BY <2>3 DEF Inv, TypeOK, MeasureFile, Goto, cacheVars
<1>2. CacheInvariant'
  BY DEF Inv, TypeOK, CacheInvariant, LastFetchIsWhole, Fetching, MeasureFile, Goto, cacheVars
<1>. QED
  BY <1>1, <1>2 DEF Inv

LEMMA SendFileStep ==
    ASSUME Inv, NEW t \in Threads, SendFile(t)
    PROVE  Inv'
<1> DEFINE f == files[url[t]]
           r == [i \in 1..size[t] |-> IF i <= Len(f) THEN f[i] ELSE Junk]
<1>1. TypeOK'
  <2>1. url[t] \in DOMAIN files
    BY DEF Inv, CacheInvariant, SendFile
  <2>2. Len(f) \in Chunks /\ \A i \in 1..Len(f) : f[i] \in Chunks
    BY <2>1, ChunksOfFiles DEF Inv
  <2>3. size[t] \in Nat /\ Len(f) \in Nat
    BY <2>2, PageFacts DEF Inv, TypeOK
  <2>4. \A i \in 1..size[t] : r[i] \in Chunks \cup {Refusal, Junk}
    BY <2>2, <2>3
  <2>5. r \in [1..size[t] -> Chunks \cup {Refusal, Junk}]
    BY <2>4
  <2>6. r \in Seq(Chunks \cup {Refusal, Junk})
    BY <2>3, <2>5
  <2>7. reply' = [reply EXCEPT ![t] = r]
    BY DEF SendFile
  <2> HIDE DEF r
  <2>8. reply' \in [Threads -> Seq(Chunks \cup {Refusal, Junk})]
    BY <2>6, <2>7 DEF Inv, TypeOK
  <2>. QED
    BY <2>8 DEF Inv, TypeOK, SendFile, Goto, cacheVars
<1>2. CacheInvariant'
  BY DEF Inv, TypeOK, CacheInvariant, LastFetchIsWhole, Fetching, SendFile, Goto, cacheVars
<1>. QED
  BY <1>1, <1>2 DEF Inv

LEMMA AdmitStep ==
    ASSUME Inv, NEW t \in Threads, Admit(t)
    PROVE  Inv'
<1>1. TypeOK'
  <2>1. reply' \in [Threads -> Seq(Chunks \cup {Refusal, Junk})]
    <3>1. <<Refusal>> \in Seq(Chunks \cup {Refusal, Junk})
      OBVIOUS
    <3>. QED
      BY <3>1 DEF Inv, TypeOK, Admit
  <2>. QED
    BY <2>1 DEF Inv, TypeOK, Admit, Goto, cacheVars
<1>2. CacheInvariant'
  <2>1. PICK l \in {"idle", "open"} : pc' = [pc EXCEPT ![t] = l]
    BY DEF Admit, Goto
  <2>2. pc[t] = "admit" /\ UNCHANGED <<url, flushed, cacheVars>>
    BY DEF Admit
  <2>3. Fetching' = Fetching
    BY <2>1, <2>2 DEF Fetching, Inv, TypeOK
  <2>4. \A s \in Threads : pc'[s] \in {"measure", "send"} => pc[s] \in {"measure", "send"}
    BY <2>1, <2>2 DEF Inv, TypeOK
  <2>. QED
    BY <2>2, <2>3, <2>4 DEF Inv, CacheInvariant, LastFetchIsWhole, cacheVars
<1>. QED
  BY <1>1, <1>2 DEF Inv

LEMMA LockCacheStep ==
    ASSUME Inv, NEW t \in Threads, LockCache(t)
    PROVE  Inv'
<1>1. TypeOK'
  BY DEF Inv, TypeOK, LockCache, Goto, cacheVars
<1>2. CacheInvariant'
  BY DEF Inv, TypeOK, CacheInvariant, LastFetchIsWhole, Fetching, LockCache, Goto, cacheVars
<1>. QED
  BY <1>1, <1>2 DEF Inv

LEMMA EndOfReadStep ==
    ASSUME Inv, NEW t \in Threads, EndOfRead(t)
    PROVE  Inv'
<1>1. TypeOK'
  BY DEF Inv, TypeOK, EndOfRead, Goto, cacheVars
<1>2. CacheInvariant'
  BY DEF Inv, TypeOK, CacheInvariant, LastFetchIsWhole, Fetching, EndOfRead, Goto, cacheVars
<1>. QED
  BY <1>1, <1>2 DEF Inv

LEMMA FileAgesStep ==
    ASSUME Inv, NEW u \in Urls, FileAges(u)
    PROVE  Inv'
<1>1. TypeOK'
  BY DEF Inv, TypeOK, FileAges, threadVars
<1>2. CacheInvariant'
  BY DEF Inv, CacheInvariant, LastFetchIsWhole, Fetching, FileAges, threadVars
<1>. QED
  BY <1>1, <1>2 DEF Inv

\* The end of the process, whatever caused it.
LEMMA VanishStep ==
    ASSUME Inv, Vanish, UNCHANGED <<cacheDir, files, whole>>
    PROVE  /\ CacheInvariant'
           /\ pc' \in [Threads -> {"idle", "check", "measure", "send", "admit", "open",
                                   "lock", "read", "close"}]
           /\ written' \in [Threads -> Chunks]
           /\ flushed' \in [Threads -> Chunks]
           /\ \A t \in Threads : flushed'[t] <= written'[t]
           /\ holder' \in Threads \cup {None}
           /\ opener' \in [Urls -> Threads \cup {None}]
<1>1. CacheInvariant'
  BY ConstantsAssumption
  DEF Inv, TypeOK, CacheInvariant, LastFetchIsWhole, Fetching, Vanish
<1>. QED
  BY <1>1, PageFacts DEF Vanish

LEMMA CrashStep ==
    ASSUME Inv, Crash
    PROVE  Inv'
<1>1. Vanish /\ UNCHANGED <<url, reply, size, cacheDir, files, old, whole, requests>>
  BY DEF Crash
<1>2. crashes' \in 0..MaxCrashes
  BY ConstantsAssumption DEF Inv, TypeOK, Crash
<1>. QED
  BY <1>1, <1>2, VanishStep DEF Inv, TypeOK

-----------------------------------------------------------------------------
(* The steps that change files. *)

\* fopen: the file is emptied, and its last opener is this thread from now on.
LEMMA OpenFileStep ==
    ASSUME Inv, NEW t \in Threads, OpenFile(t)
    PROVE  Inv'
<1> DEFINE u == url[t]
<1>1. /\ pc[t] = "open" /\ u \in Urls /\ t \notin Fetching /\ t # None
      /\ pc' = [pc EXCEPT ![t] = "lock"]
      /\ written' = [written EXCEPT ![t] = 0]
      /\ flushed' = [flushed EXCEPT ![t] = 0]
      /\ UNCHANGED <<url, reply, size, holder, cacheDir, requests, crashes>>
  BY ConstantsAssumption DEF Inv, TypeOK, OpenFile, Goto, Fetching
<1>2. Fetching' = Fetching \cup {t}
  BY <1>1 DEF Fetching, Inv, TypeOK
<1>3. \A s \in Threads : pc'[s] \in {"measure", "send"} => pc[s] \in {"measure", "send"}
  BY <1>1 DEF Inv, TypeOK
<1>4. /\ pc' \in [Threads -> {"idle", "check", "measure", "send", "admit", "open",
                              "lock", "read", "close"}]
      /\ written' \in [Threads -> Chunks]
      /\ flushed' \in [Threads -> Chunks]
      /\ \A s \in Threads : flushed'[s] <= written'[s]
  BY <1>1, PageFacts DEF Inv, TypeOK
<1>5. CASE ~cacheDir
  <2>1. UNCHANGED <<files, old, opener, whole>>
    BY <1>5 DEF OpenFile
  <2>2. \A s \in Threads, v \in Urls : opener[v] # s
    BY <1>5 DEF Inv, CacheInvariant
  <2>. QED
    BY <1>1, <1>2, <1>3, <1>4, <1>5, <2>1, <2>2
    DEF Inv, TypeOK, CacheInvariant, LastFetchIsWhole
<1>6. CASE cacheDir
  <2>1. /\ files' = [v \in DOMAIN files \cup {u} |-> IF v = u THEN <<>> ELSE files[v]]
        /\ old' = old \ {u}
        /\ opener' = [opener EXCEPT ![u] = t]
        /\ whole' = whole \ {u}
    BY <1>6 DEF OpenFile
  <2>2. /\ DOMAIN files' = DOMAIN files \cup {u}
        /\ files'[u] = <<>>
        /\ \A v \in DOMAIN files : v # u => files'[v] = files[v]
    BY <2>1
  <2>3. <<>> \in Seq(Chunks) /\ Len(<<>>) = 0
    OBVIOUS
  <2>4. TypeOK'
    <3>1. \A v \in DOMAIN files' : files'[v] \in Seq(Chunks) /\ Len(files'[v]) <= PageLength
      <4>1. files'[u] \in Seq(Chunks) /\ Len(files'[u]) <= PageLength
        BY <2>2, <2>3, PageFacts
      <4>2. \A v \in DOMAIN files : files[v] \in Seq(Chunks) /\ Len(files[v]) <= PageLength
        BY DEF Inv, TypeOK
      <4>. QED
        BY <2>2, <4>1, <4>2
    <3>2. opener' \in [Urls -> Threads \cup {None}]
      BY <1>1, <2>1 DEF Inv, TypeOK
    <3>. QED
      BY <1>1, <1>4, <2>1, <2>2, <3>1, <3>2 DEF Inv, TypeOK
  <2>5. \A s \in Threads :
           pc'[s] \in {"measure", "send"} \/ (cacheDir' /\ s \in Fetching') =>
              url'[s] \in DOMAIN files'
    BY <1>1, <1>2, <1>3, <2>2 DEF Inv, CacheInvariant
  <2>6. ASSUME NEW v \in Urls, NEW s \in Threads, opener'[v] = s
        PROVE  /\ cacheDir' /\ s \in Fetching' /\ url'[s] = v /\ v \notin whole'
               /\ flushed'[s] <= Len(files'[v])
               /\ \A i \in 1..flushed'[s] : files'[v][i] = i
    <3>1. CASE v = u
      <4>1. s = t
        BY <2>1, <2>6, <3>1, <1>1 DEF Inv, TypeOK
      <4>2. flushed'[s] = 0
        BY <1>1, <4>1 DEF Inv, TypeOK
      <4>. QED
        BY <1>1, <1>2, <1>6, <2>1, <2>2, <2>3, <3>1, <4>1, <4>2
    <3>2. CASE v # u
      <4>1. opener[v] = s
        BY <2>1, <2>6, <3>2, <1>1 DEF Inv, TypeOK
      <4>2. /\ cacheDir /\ s \in Fetching /\ url[s] = v /\ v \notin whole
            /\ flushed[s] <= Len(files[v])
            /\ \A i \in 1..flushed[s] : files[v][i] = i
        BY <4>1 DEF Inv, CacheInvariant
      <4>3. s # t /\ v \in DOMAIN files
        BY <1>1, <4>2 DEF Inv, CacheInvariant
      <4>4. flushed'[s] = flushed[s] /\ files'[v] = files[v]
        BY <1>1, <2>2, <3>2, <4>3 DEF Inv, TypeOK
      <4>. QED
        BY <1>1, <1>2, <2>1, <4>2, <4>4
    <3>. QED
      BY <3>1, <3>2
  <2>7. LastFetchIsWhole'
    <3>1. \A v \in whole' : v \in whole /\ v # u /\ v \in DOMAIN files
      BY <2>1 DEF Inv, TypeOK
    <3>. QED
      BY <2>2, <3>1 DEF Inv, CacheInvariant, LastFetchIsWhole
  <2>8. CacheInvariant'
    BY <1>1, <1>6, <2>5, <2>6, <2>7 DEF CacheInvariant
  <2>. QED
    BY <2>4, <2>8 DEF Inv
<1>. QED
  BY <1>5, <1>6

\* A flush of a thread that reads or closes keeps whole files whole and the
\* chunks of every last opener, its own included, in their places.
LEMMA FlushKeeps ==
    ASSUME Inv, NEW t \in Fetching, cacheDir, NEW n \in Nat,
           flushed[t] <= n, n <= PageLength, Flush(t, n), UNCHANGED url
    PROVE  /\ \A u \in whole : files'[u] = Page
           /\ \A u \in Urls, s \in Threads :
                opener[u] = s =>
                    /\ flushed'[s] <= Len(files'[u])
                    /\ \A i \in 1..flushed'[s] : files'[u][i] = i
<1> DEFINE v == url[t]
<1>1. /\ flushed' = [flushed EXCEPT ![t] = n]
      /\ \A u \in DOMAIN files :
            /\ files'[u] \in Seq(Chunks)
            /\ Len(files'[u]) <= PageLength
            /\ Len(files'[u]) >= Len(files[u])
            /\ \A i \in 1..Len(files[u]) : files[u][i] = i => files'[u][i] = i
      /\ flushed[t] <= Len(files[v]) => n <= Len(files'[v])
      /\ \A i \in flushed[t]+1..n : files'[v][i] = i
  BY FlushFacts
<1>2. t \in Threads /\ flushed \in [Threads -> Chunks]
  BY DEF Inv, TypeOK, Fetching
<1>3. ASSUME NEW u \in whole
      PROVE  files'[u] = Page
  <2>1. u \in DOMAIN files /\ files[u] = Page
    BY DEF Inv, TypeOK, CacheInvariant, LastFetchIsWhole
  <2>2. /\ files'[u] \in Seq(Chunks) /\ Len(files'[u]) <= PageLength
        /\ Len(files'[u]) >= PageLength
        /\ \A i \in 1..PageLength : files'[u][i] = i
    BY <1>1, <2>1, PageFacts
  <2>3. Len(files'[u]) = PageLength
    BY <2>2, PageFacts
  <2>4. \A i \in 1..PageLength : files'[u][i] = Page[i]
    BY <2>2, PageFacts
  <2>. QED
    BY <2>2, <2>3, <2>4, PageFacts
<1>4. ASSUME NEW u \in Urls, NEW s \in Threads, opener[u] = s
      PROVE  /\ flushed'[s] <= Len(files'[u])
             /\ \A i \in 1..flushed'[s] : files'[u][i] = i
  <2>1. /\ s \in Fetching /\ url[s] = u
        /\ flushed[s] <= Len(files[u])
        /\ \A i \in 1..flushed[s] : files[u][i] = i
    BY <1>4 DEF Inv, CacheInvariant
  <2>2. u \in DOMAIN files
    BY <2>1 DEF Inv, CacheInvariant
  <2>3. flushed[s] \in Nat /\ Len(files[u]) \in Nat /\ Len(files'[u]) \in Nat
    <3>1. files'[u] \in Seq(Chunks)
      BY <1>1, <2>2
    <3>2. flushed[s] \in Nat
      BY <1>2, PageFacts
    <3>3. Len(files[u]) \in Nat
      BY <2>2, ChunksOfFiles, PageFacts DEF Inv
    <3>. QED
      BY <3>1, <3>2, <3>3
  <2>4. Len(files'[u]) >= Len(files[u])
    BY <1>1, <2>2
  <2>5. \A i \in 1..flushed[s] : files'[u][i] = i
    <3>1. \A i \in 1..flushed[s] : i \in 1..Len(files[u])
      BY <2>1, <2>3
    <3>. QED
      BY <1>1, <2>1, <2>2, <3>1
  <2>6. CASE s # t
    <3>1. flushed'[s] = flushed[s]
      BY <1>1, <1>2, <2>6
    <3>. QED
      BY <2>1, <2>3, <2>4, <2>5, <3>1
  <2>7. CASE s = t
    <3>1. flushed'[s] = n /\ u = v
      BY <1>1, <1>2, <2>1, <2>7
    <3>2. n <= Len(files'[u])
      BY <1>1, <2>1, <2>7, <3>1
    <3>3. \A i \in 1..n : i \in 1..flushed[s] \/ i \in flushed[s]+1..n
      BY <2>3
    <3>4. \A i \in 1..n : files'[u][i] = i
      BY <1>1, <2>5, <2>7, <3>1, <3>3
    <3>. QED
      BY <3>1, <3>2, <3>4
  <2>. QED
    BY <2>6, <2>7
<1>. QED
  BY <1>3, <1>4

LEMMA ReadChunkStep ==
    ASSUME Inv, NEW t \in Threads, ReadChunk(t)
    PROVE  Inv'
<1> DEFINE n == written[t] + 1
<1>1. /\ pc[t] = "read" /\ t \in Fetching
      /\ written[t] \in Nat /\ flushed[t] \in Nat /\ flushed[t] <= written[t]
      /\ n \in Chunks /\ n \in Nat /\ n <= PageLength
      /\ UNCHANGED <<url, size, cacheDir, whole, requests, crashes>>
  BY PageFacts DEF Inv, TypeOK, ReadChunk, Fetching, Chunks
<1>2. reply' \in [Threads -> Seq(Chunks \cup {Refusal, Junk})]
  <2>1. reply' = [reply EXCEPT ![t] = Append(reply[t], n)]
    BY DEF ReadChunk
  <2>2. Append(reply[t], n) \in Seq(Chunks \cup {Refusal, Junk})
    BY <1>1 DEF Inv, TypeOK
  <2>. QED
    BY <2>1, <2>2 DEF Inv, TypeOK
<1>3. CASE ~cacheDir
  <2>1. Vanish /\ UNCHANGED <<files, old>>
    BY <1>3 DEF ReadChunk
  <2>2. /\ CacheInvariant'
        /\ pc' \in [Threads -> {"idle", "check", "measure", "send", "admit", "open",
                                "lock", "read", "close"}]
        /\ written' \in [Threads -> Chunks]
        /\ flushed' \in [Threads -> Chunks]
        /\ \A s \in Threads : flushed'[s] <= written'[s]
        /\ holder' \in Threads \cup {None}
        /\ opener' \in [Urls -> Threads \cup {None}]
    BY <1>1, <2>1, VanishStep
  <2>. QED
    BY <1>1, <1>2, <2>1, <2>2 DEF Inv, TypeOK
<1>4. CASE cacheDir
  <2>1. /\ written' = [written EXCEPT ![t] = n]
        /\ UNCHANGED <<pc, holder, opener>>
    BY <1>4 DEF ReadChunk
  <2>2. PICK k \in flushed[t]..n : Flush(t, k)
    BY <1>4 DEF ReadChunk
  <2>3. k \in Nat /\ flushed[t] <= k /\ k <= n /\ k <= PageLength /\ k \in Chunks
    BY <1>1, PageFacts DEF Chunks
  <2>4. /\ flushed' = [flushed EXCEPT ![t] = k]
        /\ DOMAIN files' = DOMAIN files
        /\ old' \subseteq DOMAIN files
        /\ \A u \in DOMAIN files : files'[u] \in Seq(Chunks) /\ Len(files'[u]) <= PageLength
    BY <1>1, <1>4, <2>2, <2>3, FlushFacts
  <2>5. /\ \A u \in whole : files'[u] = Page
        /\ \A u \in Urls, s \in Threads :
              opener[u] = s => /\ flushed'[s] <= Len(files'[u])
                               /\ \A i \in 1..flushed'[s] : files'[u][i] = i
    BY <1>1, <1>4, <2>2, <2>3, FlushKeeps
  <2>6. /\ written' \in [Threads -> Chunks] /\ flushed' \in [Threads -> Chunks]
        /\ \A s \in Threads : flushed'[s] <= written'[s]
    BY <1>1, <2>1, <2>3, <2>4 DEF Inv, TypeOK
  <2>7. TypeOK'
    BY <1>1, <1>2, <2>1, <2>4, <2>6 DEF Inv, TypeOK
  <2>8. Fetching' = Fetching
    BY <2>1 DEF Fetching
  <2>9. CacheInvariant'
    BY <1>1, <1>4, <2>1, <2>4, <2>5, <2>8 DEF Inv, CacheInvariant, LastFetchIsWhole
  <2>. QED
    BY <2>7, <2>9 DEF Inv
<1>. QED
  BY <1>3, <1>4

\* fclose: if this thread is still the last opener and has read the whole page,
\* everything is in its place, and the file is the page.
LEMMA CloseFileStep ==
    ASSUME Inv, NEW t \in Threads, CloseFile(t)
    PROVE  Inv'
<1> DEFINE n == written[t]
           v == url[t]
<1>1. /\ pc[t] = "close" /\ t \in Fetching /\ v \in Urls /\ t # None
      /\ n \in Chunks /\ n \in Nat /\ n <= PageLength
      /\ flushed[t] \in Nat /\ flushed[t] <= n
      /\ UNCHANGED <<url, reply, size, cacheDir, requests, crashes>>
  BY ConstantsAssumption, PageFacts DEF Inv, TypeOK, CloseFile, Fetching, Chunks
<1>2. CASE ~cacheDir
  <2>1. Vanish /\ UNCHANGED <<files, old, whole>>
    BY <1>2 DEF CloseFile
  <2>2. /\ CacheInvariant'
        /\ pc' \in [Threads -> {"idle", "check", "measure", "send", "admit", "open",
                                "lock", "read", "close"}]
        /\ written' \in [Threads -> Chunks]
        /\ flushed' \in [Threads -> Chunks]
        /\ \A s \in Threads : flushed'[s] <= written'[s]
        /\ holder' \in Threads \cup {None}
        /\ opener' \in [Urls -> Threads \cup {None}]
    BY <1>1, <2>1, VanishStep
  <2>. QED
    BY <1>1, <2>1, <2>2 DEF Inv, TypeOK
<1>3. CASE cacheDir
  <2>1. /\ Flush(t, n)
        /\ pc' = [pc EXCEPT ![t] = "idle"]
        /\ whole' = IF opener[v] = t /\ n = PageLength THEN whole \cup {v} ELSE whole
        /\ opener' = [u \in Urls |-> IF opener[u] = t THEN None ELSE opener[u]]
        /\ UNCHANGED <<written, holder>>
    BY <1>3 DEF CloseFile, Goto
  <2>2. /\ flushed' = [flushed EXCEPT ![t] = n]
        /\ DOMAIN files' = DOMAIN files
        /\ old' \subseteq DOMAIN files
        /\ \A u \in DOMAIN files : files'[u] \in Seq(Chunks) /\ Len(files'[u]) <= PageLength
    BY <1>1, <1>3, <2>1, FlushFacts
  <2>3. /\ \A u \in whole : files'[u] = Page
        /\ \A u \in Urls, s \in Threads :
              opener[u] = s => /\ flushed'[s] <= Len(files'[u])
                               /\ \A i \in 1..flushed'[s] : files'[u][i] = i
    BY <1>1, <1>3, <2>1, FlushKeeps
  <2>4. v \in DOMAIN files
    BY <1>1, <1>3 DEF Inv, CacheInvariant
  <2>5. TypeOK'
    <3>1. /\ flushed' \in [Threads -> Chunks]
          /\ \A s \in Threads : flushed'[s] <= written'[s]
      BY <1>1, <2>1, <2>2, PageFacts DEF Inv, TypeOK
    <3>2. opener' \in [Urls -> Threads \cup {None}] /\ whole' \subseteq DOMAIN files
      BY <2>1, <2>4 DEF Inv, TypeOK
    <3>3. pc' \in [Threads -> {"idle", "check", "measure", "send", "admit", "open",
                               "lock", "read", "close"}]
      BY <2>1 DEF Inv, TypeOK
    <3>. QED
      BY <1>1, <2>1, <2>2, <3>1, <3>2, <3>3 DEF Inv, TypeOK
  <2>6. Fetching' = Fetching \ {t}
    BY <1>1, <2>1 DEF Inv, TypeOK, Fetching
  <2>7. \A s \in Threads : pc'[s] \in {"measure", "send"} => pc[s] \in {"measure", "send"}
    BY <2>1 DEF Inv, TypeOK
  <2>8. \A s \in Threads :
           pc'[s] \in {"measure", "send"} \/ (cacheDir' /\ s \in Fetching') =>
              url'[s] \in DOMAIN files'
    BY <1>1, <2>2, <2>6, <2>7 DEF Inv, CacheInvariant
  <2>9. ASSUME NEW u \in Urls, NEW s \in Threads, opener'[u] = s
        PROVE  /\ cacheDir' /\ s \in Fetching' /\ url'[s] = u /\ u \notin whole'
               /\ flushed'[s] <= Len(files'[u])
               /\ \A i \in 1..flushed'[s] : files'[u][i] = i
    <3>1. opener[u] = s /\ s # t
      BY <2>1, <2>9, ConstantsAssumption DEF Inv, TypeOK
    <3>2. s \in Fetching /\ url[s] = u /\ u \notin whole
      BY <3>1 DEF Inv, CacheInvariant
    <3>3. u \notin whole'
      BY <2>1, <3>1, <3>2
    <3>. QED
      BY <1>1, <1>3, <2>3, <2>6, <3>1, <3>2, <3>3
  <2>10. ASSUME opener[v] = t, n = PageLength
         PROVE  files'[v] = Page
    <3>1. flushed'[t] = PageLength
      BY <1>1, <2>2, <2>10 DEF Inv, TypeOK
    <3>2. /\ PageLength <= Len(files'[v])
          /\ \A i \in 1..PageLength : files'[v][i] = i
      BY <1>1, <2>3, <2>10, <3>1
    <3>3. files'[v] \in Seq(Chunks) /\ Len(files'[v]) <= PageLength
      BY <2>2, <2>4
    <3>4. Len(files'[v]) = PageLength
      BY <3>2, <3>3, PageFacts
    <3>5. \A i \in 1..PageLength : files'[v][i] = Page[i]
      BY <3>2, PageFacts
    <3>. QED
      BY <3>3, <3>4, <3>5, PageFacts
  <2>11. LastFetchIsWhole'
    BY <2>1, <2>3, <2>10 DEF LastFetchIsWhole
  <2>12. CacheInvariant'
    BY <1>1, <1>3, <2>8, <2>9, <2>11 DEF CacheInvariant
  <2>. QED
    BY <2>5, <2>12 DEF Inv
<1>. QED
  BY <1>2, <1>3

-----------------------------------------------------------------------------

LEMMA NextInv == Inv /\ [Next]_vars => Inv'
<1> SUFFICES ASSUME Inv, [Next]_vars PROVE Inv'
  OBVIOUS
<1>1. ASSUME NEW t \in Threads, NEW u \in Urls, Accept(t, u) PROVE Inv'
  BY <1>1, AcceptStep
<1>2. ASSUME NEW t \in Threads, AcceptBadRequest(t) PROVE Inv'
  BY <1>2, AcceptBadRequestStep
<1>3. ASSUME NEW t \in Threads, ThreadStep(t) PROVE Inv'
  BY <1>3, CheckCacheStep, MeasureFileStep, SendFileStep, AdmitStep, OpenFileStep,
     LockCacheStep, ReadChunkStep, EndOfReadStep, CloseFileStep DEF ThreadStep
<1>4. ASSUME NEW u \in Urls, FileAges(u) PROVE Inv'
  BY <1>4, FileAgesStep
<1>5. CASE Crash
  BY <1>5, CrashStep
<1>6. CASE UNCHANGED vars
  BY <1>6 DEF vars, threadVars, cacheVars, Inv, TypeOK, CacheInvariant, LastFetchIsWhole, Fetching
<1>. QED
  BY <1>1, <1>2, <1>3, <1>4, <1>5, <1>6 DEF Next

\* The state of the proxy's threads and files is of the declared types.
THEOREM TypeCorrect == Spec => []TypeOK
<1>1. Inv => TypeOK
  BY DEF Inv
<1>. QED
  BY InitInv, NextInv, <1>1, PTL DEF Spec

\* Whoever opened a file last is still fetching it, with its chunks in place.
THEOREM CacheInvariantCorrect == Spec => []CacheInvariant
<1>1. Inv => CacheInvariant
  BY DEF Inv
<1>. QED
  BY InitInv, NextInv, <1>1, PTL DEF Spec

\* Once the last thread to open a cached file (echo, proxy.c) has got the whole
\* page and closed it, the file is the page until it is opened again, whatever
\* other threads write late and however often the process is killed.
THEOREM LastFetchIsWholeCorrect == Spec => []LastFetchIsWhole
<1>1. Inv => LastFetchIsWhole
  BY DEF Inv, CacheInvariant
<1>. QED
  BY InitInv, NextInv, <1>1, PTL DEF Spec
-----------------------------------------------------------------------------

\* "File is valid" (checkCacheMD5, proxy.c) is more than the code can promise: a
\* file is sent while it is still being fetched.  What it can: a file that the last
\* fetch has left whole is measured as long as the page, and while it stays so all
\* that is sent of it is the page, chunk by chunk.
WholeFileIsSent ==
    [][\A t \in Threads : url[t] \in whole =>
           /\ MeasureFile(t) => size'[t] = PageLength
           /\ SendFile(t) => reply'[t] = [i \in 1..size[t] |-> Page[i]]]_vars

\* Sending a file (sendFileFromCache, proxy.c) that a fetch has left whole sends the
\* page, for every number of threads and pages, late writes and crashes included.
THEOREM WholeFileIsSentCorrect == Spec => WholeFileIsSent
<1>1. ASSUME Inv, NEW t \in Threads, url[t] \in whole, MeasureFile(t)
      PROVE  size'[t] = PageLength
  <2>1. files[url[t]] = Page
    BY <1>1 DEF Inv, CacheInvariant, LastFetchIsWhole
  <2>. QED
    BY <1>1, <2>1, PageFacts DEF MeasureFile, Inv, TypeOK
<1>2. ASSUME Inv, NEW t \in Threads, url[t] \in whole, SendFile(t)
      PROVE  reply'[t] = [i \in 1..size[t] |-> Page[i]]
  <2>1. files[url[t]] = Page
    BY <1>2 DEF Inv, CacheInvariant, LastFetchIsWhole
  <2>2. size[t] \in Nat /\ size[t] <= PageLength
    BY PageFacts, ConstantsAssumption, <1>2 DEF Inv, TypeOK, Chunks
  <2>3. \A i \in 1..size[t] : i <= Len(Page)
    BY <2>2, PageFacts
  <2>4. [i \in 1..size[t] |-> IF i <= Len(Page) THEN Page[i] ELSE Junk]
            = [i \in 1..size[t] |-> Page[i]]
    BY <2>3
  <2>. QED
    BY <1>2, <2>1, <2>4 DEF SendFile, Inv, TypeOK
<1>3. Inv /\ [Next]_vars =>
        [\A t \in Threads : url[t] \in whole =>
            /\ MeasureFile(t) => size'[t] = PageLength
            /\ SendFile(t) => reply'[t] = [i \in 1..size[t] |-> Page[i]]]_vars
  BY <1>1, <1>2
<1>. QED
  BY InitInv, NextInv, <1>3, PTL DEF Spec, WholeFileIsSent

-----------------------------------------------------------------------------
(* What RequestEnds rests on: a request goes on or waits for one that does. *)

\* cache_lock is held by a thread that reads from its origin, and by no other, so
\* who waits for it waits for a thread that can go on (echo, proxy.c).
LockHeldByReader ==
    /\ holder \in Threads \cup {None}
    /\ \A t \in Threads : pc[t] = "read" <=> holder = t

LEMMA LockStep == Inv /\ LockHeldByReader /\ [Next]_vars => LockHeldByReader'
<1> SUFFICES ASSUME Inv, LockHeldByReader, [Next]_vars PROVE LockHeldByReader'
  OBVIOUS
<1>1. pc \in [Threads -> {"idle", "check", "measure", "send", "admit", "open",
                          "lock", "read", "close"}]
  BY DEF Inv, TypeOK
<1>2. CASE UNCHANGED <<pc, holder>>
  BY <1>2 DEF LockHeldByReader
<1>3. CASE Vanish
  BY <1>3, ConstantsAssumption DEF Vanish, LockHeldByReader
<1>4. ASSUME NEW t \in Threads, NEW label, Goto(t, label), pc[t] # "read", label # "read",
             holder' = holder
      PROVE  LockHeldByReader'
  BY <1>1, <1>4 DEF LockHeldByReader, Goto
<1>5. ASSUME NEW t \in Threads, LockCache(t) PROVE LockHeldByReader'
  BY <1>1, <1>5, ConstantsAssumption DEF LockHeldByReader, LockCache, Goto
<1>6. ASSUME NEW t \in Threads, EndOfRead(t) PROVE LockHeldByReader'
  BY <1>1, <1>6, ConstantsAssumption DEF LockHeldByReader, EndOfRead, Goto
<1>7. ASSUME NEW t \in Threads, NEW u \in Urls, Accept(t, u) PROVE LockHeldByReader'
  BY <1>4, <1>7 DEF Accept
<1>8. ASSUME NEW t \in Threads, ThreadStep(t) PROVE LockHeldByReader'
  <2>1. CASE CheckCache(t)
    <3>1. PICK label \in {"measure", "admit"} : Goto(t, label)
      BY <2>1 DEF CheckCache
    <3>. QED
      BY <1>4, <2>1, <3>1 DEF CheckCache
  <2>2. CASE MeasureFile(t)
    BY <1>4, <2>2 DEF MeasureFile
  <2>3. CASE SendFile(t)
    BY <1>4, <2>3 DEF SendFile
  <2>4. CASE Admit(t)
    BY <1>4, <2>4 DEF Admit
  <2>5. CASE OpenFile(t)
    BY <1>4, <2>5 DEF OpenFile
  <2>6. CASE ReadChunk(t)
    BY <1>2, <1>3, <2>6 DEF ReadChunk
  <2>7. CASE CloseFile(t)
    BY <1>3, <1>4, <2>7 DEF CloseFile
  <2>. QED
    BY <1>5, <1>6, <1>8, <2>1, <2>2, <2>3, <2>4, <2>5, <2>6, <2>7 DEF ThreadStep
<1>. QED
  BY <1>2, <1>3, <1>7, <1>8 DEF Next, AcceptBadRequest, FileAges, Crash, vars, threadVars

\* However the threads race and whatever origins do, cache_lock is held by nobody or by
\* a thread that reads and goes on.
THEOREM LockHeldByReaderCorrect == Spec => []LockHeldByReader
<1>1. Init => LockHeldByReader
  BY ConstantsAssumption DEF Init, LockHeldByReader
<1>. QED
  BY <1>1, InitInv, NextInv, LockStep, PTL DEF Spec

\* What a thread has before it: the parts of echo behind the one it is in, and chunks.
PartsLeft(t) ==
    CASE pc[t] = "check" -> 8
      [] pc[t] = "admit" -> 7
      [] pc[t] = "open" -> 6
      [] pc[t] = "lock" -> 5
      [] pc[t] = "read" -> 4
      [] pc[t] = "close" -> 3
      [] pc[t] = "measure" -> 2
      [] pc[t] = "send" -> 1
      [] OTHER -> 0
ChunksLeft(t) == PageLength - written[t]

\* Every step of a thread comes nearer to the end of its request, and no step of
\* anybody else takes it farther from it, unless the process goes down with it.
RequestComesNearer ==
    [][\A t \in Threads :
           pc[t] # "idle" =>
               /\ PartsLeft(t) \in Nat /\ ChunksLeft(t) \in Nat
               /\ ThreadStep(t) => \/ PartsLeft(t)' < PartsLeft(t)
                                   \/ PartsLeft(t)' = PartsLeft(t) /\ ChunksLeft(t)' < ChunksLeft(t)
               /\ ~ThreadStep(t) => \/ pc'[t] = "idle"
                                    \/ UNCHANGED <<PartsLeft(t), ChunksLeft(t)>>]_vars

LEMMA OwnStepComesNearer ==
    ASSUME Inv, NEW t \in Threads, ThreadStep(t)
    PROVE  \/ PartsLeft(t)' < PartsLeft(t)
           \/ PartsLeft(t)' = PartsLeft(t) /\ ChunksLeft(t)' < ChunksLeft(t)
<1>1. pc \in [Threads -> {"idle", "check", "measure", "send", "admit", "open",
                          "lock", "read", "close"}]
  BY DEF Inv, TypeOK
<1>2. CASE CheckCache(t)
  BY <1>1, <1>2 DEF CheckCache, Goto, PartsLeft
<1>3. CASE MeasureFile(t)
  BY <1>1, <1>3 DEF MeasureFile, Goto, PartsLeft
<1>4. CASE SendFile(t)
  BY <1>1, <1>4 DEF SendFile, Goto, PartsLeft
<1>5. CASE Admit(t)
  BY <1>1, <1>5 DEF Admit, Goto, PartsLeft
<1>6. CASE OpenFile(t)
  BY <1>1, <1>6 DEF OpenFile, Goto, PartsLeft
<1>7. CASE LockCache(t)
  BY <1>1, <1>7 DEF LockCache, Goto, PartsLeft
<1>8. CASE EndOfRead(t)
  BY <1>1, <1>8 DEF EndOfRead, Goto, PartsLeft
<1>9. CASE CloseFile(t)
  BY <1>1, <1>9 DEF CloseFile, Goto, Vanish, PartsLeft
<1>10. CASE ReadChunk(t)
  <2>1. CASE cacheDir
    <3>1. pc'[t] = pc[t] /\ written'[t] = written[t] + 1
      BY <1>10, <2>1 DEF ReadChunk, Inv, TypeOK
    <3>2. written[t] \in Nat /\ PageLength \in Nat
      BY PageFacts DEF Inv, TypeOK
    <3>. QED
      BY <3>1, <3>2 DEF PartsLeft, ChunksLeft
  <2>2. CASE ~cacheDir
    BY <1>10, <2>2 DEF ReadChunk, Vanish, PartsLeft
  <2>. QED
    BY <2>1, <2>2
<1>. QED
  BY <1>2, <1>3, <1>4, <1>5, <1>6, <1>7, <1>8, <1>9, <1>10 DEF ThreadStep

LEMMA OtherStepLeavesIt ==
    ASSUME Inv, NEW t \in Threads, pc[t] # "idle", [Next]_vars, ~ThreadStep(t)
    PROVE  pc'[t] = "idle" \/ UNCHANGED <<PartsLeft(t), ChunksLeft(t)>>
<1> DEFINE Same == pc'[t] = pc[t] /\ written'[t] = written[t]
<1>1. CASE UNCHANGED <<pc, written>>
  BY <1>1 DEF PartsLeft, ChunksLeft
<1>2. CASE Vanish
  BY <1>2 DEF Vanish
<1>3. ASSUME NEW s \in Threads, NEW u \in Urls, Accept(s, u) PROVE Same
  BY <1>3 DEF Accept, Goto, Inv, TypeOK
<1>4. ASSUME NEW s \in Threads, ThreadStep(s) PROVE Same \/ Vanish
  <2>1. s # t
    BY <1>4
  <2>. QED
    BY <1>4, <2>1
    DEF ThreadStep, CheckCache, MeasureFile, SendFile, Admit, OpenFile, LockCache,
        ReadChunk, EndOfRead, CloseFile, Goto, Inv, TypeOK
<1>5. Same => UNCHANGED <<PartsLeft(t), ChunksLeft(t)>>
  BY DEF PartsLeft, ChunksLeft
<1>. QED
  BY <1>1, <1>2, <1>3, <1>4, <1>5
  DEF Next, AcceptBadRequest, FileAges, Crash, vars, threadVars

\* A request to the proxy never goes round without coming nearer to its end, for any
\* number of threads, pages, chunks and crashes.
THEOREM RequestComesNearerCorrect == Spec => RequestComesNearer
<1>1. ASSUME Inv, NEW t \in Threads
      PROVE  PartsLeft(t) \in Nat /\ ChunksLeft(t) \in Nat
  <2>1. written[t] \in 0..PageLength /\ PageLength \in Nat
    BY <1>1, PageFacts, ConstantsAssumption DEF Inv, TypeOK, Chunks
  <2>. QED
    BY <2>1 DEF PartsLeft, ChunksLeft
<1>2. Inv /\ [Next]_vars =>
        [\A t \in Threads :
           pc[t] # "idle" =>
               /\ PartsLeft(t) \in Nat /\ ChunksLeft(t) \in Nat
               /\ ThreadStep(t) => \/ PartsLeft(t)' < PartsLeft(t)
                                   \/ PartsLeft(t)' = PartsLeft(t) /\ ChunksLeft(t)' < ChunksLeft(t)
               /\ ~ThreadStep(t) => \/ pc'[t] = "idle"
                                    \/ UNCHANGED <<PartsLeft(t), ChunksLeft(t)>>]_vars
  BY <1>1, OwnStepComesNearer, OtherStepLeavesIt
<1>. QED
  BY <1>2, InitInv, NextInv, PTL DEF Spec, RequestComesNearer
=============================================================================
