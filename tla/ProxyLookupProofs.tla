--------------------------- MODULE ProxyLookupProofs ---------------------------
(***************************************************************************)
(* What holds of the proxy's lookup for any number of threads, any         *)
(* requests, any texts and any room for an entry and for the DNS text.     *)
(* However the threads race: the text never fills up, its lock is held by  *)
(* a thread that writes it and goes on, and no page is fetched from an     *)
(* address that was forbidden when the request came.  As long as they do   *)
(* not: each has its own client's host, the DNS text gives no name whose   *)
(* entry fits another's address, a name that leaves its entry room for     *)
(* some of its address does not end the process, and each client of a      *)
(* host whose entry fits gets its own page.                                *)
(*                                                                         *)
(* The inductive invariants come first: those of the types, the texts, the *)
(* lock and the room hold however the threads race, each of the others as  *)
(* long as what it is about was not raced for; each rests on those before  *)
(* it.                                                                     *)
(***************************************************************************)
EXTENDS ProxyLookup, SequenceTheorems, WellFoundedInduction, TLAPS

-----------------------------------------------------------------------------
(* The lock and the blacklist. *)

\* The functions of the threads have no others.
OfThreads == DOMAIN pc = Threads /\ DOMAIN local = Threads /\ DOMAIN barred = Threads

\* Whoever writes the text has the lock, and nobody else.
LockHeldByWriter ==
    /\ dnsLock \in Threads \cup {None}
    /\ \A t \in Threads : pc[t] = "write" <=> dnsLock = t

\* What was forbidden stays so, and who fetches has been checked against it.
CheckedBeforeFetch ==
    \A t \in Threads :
        /\ barred[t] \subseteq blacklist
        /\ pc[t] = "fetch" =>
              \A line \in barred[t] : ~Occurs(local[t].address, line)

LookupInvariant == OfThreads /\ LockHeldByWriter /\ CheckedBeforeFetch

-----------------------------------------------------------------------------
(* The types. *)

Labelled == Tokenizing \cup {"idle", "cache", "dns", "resolve", "copy",
                             "add", "write", "list", "fetch"}

\* The variables of a thread: which fields there are, and where its pointers point.
LocalTyped(t) ==
    /\ local[t] = [hostName |-> local[t].hostName, version |-> local[t].version,
                   cursor |-> local[t].cursor, page |-> local[t].page,
                   address |-> local[t].address, entry |-> local[t].entry]
    /\ local[t].hostName # None => local[t].hostName.buf \in Buffers
    /\ local[t].address \in Addresses \cup {Unset}
    /\ pc[t] \in {"urlEnd", "versionEnd", "lineEnd"} => local[t].cursor.buf \in Buffers
    /\ pc[t] = "write" => local[t].entry.at \in Nat \ {0}
    /\ pc[t] # "write" => local[t].entry = Fresh.entry

\* Before strtok is asked to go on somebody has begun.
PositionTyped ==
    (\A t \in Threads : pc[t] \notin {"url", "version", "line"}) \/ saved.buf \in Buffers

SharedTyped ==
    /\ DOMAIN text = Buffers
    /\ hostent \in Addresses \cup {Unset}
    /\ \A t \in Threads : pc[t] = "copy" => hostent \in Addresses
    /\ blacklist \subseteq Lines
    /\ up \in BOOLEAN
    /\ requests \in 0..MaxRequests /\ overlaps \in 0..MaxOverlaps
    /\ races \subseteq {"strtok", "hostent", "dnsCache"}

TypeInvariant ==
    /\ pc \in [Threads -> Labelled]
    /\ asked \in [Threads -> Requests \cup {None}]
    /\ DOMAIN local = Threads
    /\ \A t \in Threads : LocalTyped(t)
    /\ PositionTyped
    /\ SharedTyped

-----------------------------------------------------------------------------
(* The texts. *)

\* What the texts consist of.
Symbols ==
    Letters \cup Digits \cup {r.file : r \in Requests} \cup {r.method : r \in Requests}
        \cup {Default, Space, Nul, ":", "\n", "\r", "/", "http://", "HTTP/1.1", "headers"}

\* A thread's pointers are behind the beginning of a text, and what it looks up and
\* writes is a text.
TextOf(t) ==
    /\ local[t].hostName # None => local[t].hostName \in [buf : Buffers, at : Nat \ {0}]
    /\ pc[t] \in Parsed \cup {"line", "lineEnd"} => local[t].hostName # None
    /\ pc[t] \in {"urlEnd", "versionEnd", "lineEnd"} => local[t].cursor.at \in Nat \ {0}
    /\ pc[t] = "add" => local[t].address \in Addresses
    /\ pc[t] = "write" => local[t].entry.rest \in Seq(Symbols) /\ local[t].entry.rest # <<>>

TextInvariant ==
    /\ \A b \in Buffers : text[b] \in Seq(Symbols)
    /\ dnsCache \in Seq(Symbols)
    /\ (\A t \in Threads : pc[t] \notin {"url", "version", "line"}) \/ saved.at \in Nat \ {0}
    /\ \A t \in Threads : TextOf(t)

-----------------------------------------------------------------------------
(* The room of the DNS text. *)

\* Where its first line ends, if it has one.
FirstLine == Place(<<"\n">>, dnsCache)

\* An entry is written behind the first line, which is one itself.
RoomInvariant ==
    /\ FirstLine <= EntryRoom
    /\ Len(dnsCache) <= FirstLine + EntryRoom
    /\ \A t \in Threads : pc[t] = "write" =>
          LET e == local[t].entry
          IN  /\ FirstLine < e.at /\ e.at <= Len(dnsCache) + 1
              /\ e.at + Len(e.rest) <= FirstLine + EntryRoom + 1

-----------------------------------------------------------------------------
(* The parsing of a request. *)

\* The place of the space behind the URL of a request.
UrlEnd(r) == Len(r.host) + Len(FileText(r.file)) + 5

\* A request whose URL and whose version are followed by c and d.
RequestLine(s, r, c, d) ==
    /\ s \in Seq(Symbols) /\ Len(s) = UrlEnd(r) + 3
    /\ s[3] = "http://"
    /\ \A i \in 1 .. Len(r.host) : s[i + 3] = r.host[i]
    /\ s[Len(r.host) + 4] = "/"
    /\ r.file # Default => s[Len(r.host) + 5] = r.file
    /\ s[UrlEnd(r)] = c /\ s[UrlEnd(r) + 1] = "HTTP/1.1" /\ s[UrlEnd(r) + 2] = d

\* Where in the parsing of its own request thread t is.
ReadSoFar(t) ==
    LET r == asked[t]
        b == <<t, "receivedBuf">>
        s == text[b]
        l == local[t]
    IN  /\ pc[t] # "idle" => r \in Requests
        /\ pc[t] \in {"url", "urlEnd"} => RequestLine(s, r, Space, "\r")
        /\ pc[t] = "url" => saved = Pointer(b, 3)
        /\ pc[t] = "urlEnd" => l.cursor = Pointer(b, 3)
        /\ pc[t] \in {"version", "versionEnd"} =>
              RequestLine(s, r, Nul, "\r") /\ l.hostName = Pointer(b, 3)
        /\ pc[t] = "version" => saved = Pointer(b, UrlEnd(r) + 1)
        /\ pc[t] = "versionEnd" => l.cursor = Pointer(b, UrlEnd(r) + 1)
        /\ pc[t] = "parse" =>
              /\ RequestLine(s, r, Nul, Nul)
              /\ l.hostName = Pointer(b, 3) /\ l.version = Pointer(b, UrlEnd(r) + 1)
        /\ pc[t] \in Parsed \cup {"line", "lineEnd"} =>
              /\ l.hostName = Pointer(b, 4) /\ String(s, 4) = r.host
              /\ l.page = PageName(r.host, r.file)
        /\ pc[t] = "line" => saved.buf = <<t, "tempBuf">>
        /\ pc[t] = "lineEnd" => l.cursor.buf = <<t, "tempBuf">>

OneTokenizes == \A t, u \in Threads : pc[t] \in Tokenizing /\ pc[u] \in Tokenizing => t = u

\* As long as no two threads have tokenized at once.
ReadInvariant ==
    "strtok" \notin races => OneTokenizes /\ \A t \in Threads : ReadSoFar(t)

-----------------------------------------------------------------------------
(* The answers of gethostbyname. *)

\* What may follow a name in the DNS text: its address, or any if two threads used the
\* answer of gethostbyname at once.
Answers == [h \in DOMAIN AddressOf |->
               IF "hostent" \in races THEN Addresses ELSE {AddressOf[h]}]

\* What the answer of gethostbyname and the copies of it are.
AddressKnown(t) ==
    LET h == asked[t].host
    IN  /\ pc[t] = "copy" => h \in DOMAIN AddressOf /\ hostent \in Answers[h]
        /\ pc[t] \in {"add", "write"} =>
              h \in DOMAIN AddressOf /\ local[t].address \in Answers[h]

AddressInvariant == "strtok" \notin races => \A t \in Threads : AddressKnown(t)

-----------------------------------------------------------------------------
(* The DNS text. *)

\* At i there is an entry of host h with an address that is right by A; one that was
\* cut, and has no end of line, ends the text.
Followed(s, i, h, A) ==
    /\ h \in DOMAIN AddressOf
    /\ \E a \in A[h] :
          LET x == Entry(h, a)
          IN  /\ i \in Places(x, s)
              /\ x[Len(x)] # "\n" => i + Len(x) - 1 = Len(s)

\* Wherever there is a name there is an entry of it.
GoodText(s, A) == \A h \in Hosts : \A i \in Places(h, s) : Followed(s, i, h, A)

\* The text s when the rest of entry e has been written.
Written(s, e) ==
    [i \in 1 .. (IF Len(s) < e.at + Len(e.rest) THEN e.at + Len(e.rest) - 1 ELSE Len(s)) |->
        IF e.at <= i /\ i < e.at + Len(e.rest) THEN e.rest[i + 1 - e.at] ELSE s[i]]

\* A writer holds an entry with which the text will be good.
EntryGood(t) ==
    LET e == local[t].entry
    IN  /\ e.rest \in Seq(Symbols) /\ e.rest # <<>>
        /\ e.at \in 1 .. Len(dnsCache) + 1
        /\ GoodText(Written(dnsCache, e), Answers)

DnsInvariant ==
    NamesApart /\ "strtok" \notin races =>
        /\ dnsCache \in Seq(Symbols)
        /\ dnsLock = None => GoodText(dnsCache, Answers)
        /\ \A t \in Threads : pc[t] = "write" => EntryGood(t)

-----------------------------------------------------------------------------
(* The line behind a name. *)

\* At i of text s there are the first m symbols of address a of host h, and behind them
\* the end of the line or of the text.
BehindColon(s, i, h, a, m) ==
    /\ i \in Nat \ {0} /\ m \in 0 .. Len(a) /\ i + m <= Len(s) + 1
    /\ \A j \in 1 .. m : s[i + j - 1] = a[j]
    /\ i + m <= Len(s) => s[i + m] = "\n"
    /\ Len(h) + 1 + Len(a) <= EntryRoom => m = Len(a)
    /\ LeavesALine(h) => m # 0

\* At p a thread's copy of the DNS text has what an entry of its host has behind the colon.
LineAt(t, p) ==
    LET s == text[<<t, "tempBuf">>]
        h == asked[t].host
    IN  /\ s \in Seq(Symbols) /\ h \in DOMAIN AddressOf
        /\ \E a \in Answers[h], m \in Nat : BehindColon(s, p.at, h, a, m)

LineInvariant ==
    NamesApart /\ races \subseteq {"hostent"} =>
        \A t \in Threads :
            /\ pc[t] = "line" => LineAt(t, saved)
            /\ pc[t] = "lineEnd" => LineAt(t, local[t].cursor)

-----------------------------------------------------------------------------
(* The pages. *)

\* What threads look up and fetch, and what the file cache has, is right for a host
\* whose entry fits.
PageInvariant ==
    NamesApart /\ races = {} =>
        /\ \A t \in Threads :
            /\ pc[t] \in {"list", "fetch"} /\ Fits(asked[t].host) =>
                  local[t].address \in {AddressOf[asked[t].host], Unset}
            /\ pc[t] = "fetch" => local[t].address # Unset
        /\ \A r \in Requests :
              LET p == PageName(r.host, r.file)
              IN  p \in DOMAIN cache /\ Fits(r.host) =>
                     cache[p] = [from |-> AddressOf[r.host], page |-> p]
        /\ PageIsOwn

-----------------------------------------------------------------------------
(* The types. *)

\* The least of a set of numbers (Min) is one of them.
LEMMA MinFacts ==
    ASSUME NEW S \in SUBSET Nat, S # {}
    PROVE  Min(S) \in S /\ \A i \in S : Min(S) <= i
<1>1. \A i, m \in Nat : i < m => <<i, m>> \in OpToRel(<, Nat)
  BY SMT DEF OpToRel
<1>2. \E m \in S : \A i \in S : ~(<<i, m>> \in OpToRel(<, Nat))
  BY NatLessThanWellFounded, WFMin, Zenon
<1>3. PICK m \in S : \A i \in S : ~(i < m)
  BY <1>1, <1>2, Zenon
<1>4. m \in S /\ \A i \in S : m <= i
  BY <1>3
<1>. QED
  BY <1>4 DEF Min

\* Where strstr finds something, it is there, and not earlier.
LEMMA PlaceFacts ==
    ASSUME NEW x, NEW s
    PROVE  /\ Place(x, s) \in Nat
           /\ ~Occurs(x, s) => Place(x, s) = 0
           /\ Occurs(x, s) =>
                /\ Place(x, s) \in Places(x, s)
                /\ \A i \in Places(x, s) : Place(x, s) <= i
<1>1. Places(x, s) \in SUBSET Nat
  BY DEF Places
<1>. QED
  BY <1>1, MinFacts DEF Place, Occurs

\* A step of thread t to a label leaves the others as they are.
LEMMA TypeStep ==
    ASSUME TypeInvariant, NEW t \in Threads, NEW label \in Labelled,
           pc' = [pc EXCEPT ![t] = label],
           asked' \in [Threads -> Requests \cup {None}],
           DOMAIN local' = Threads, \A u \in Threads \ {t} : local'[u] = local[u],
           LocalTyped(t)', PositionTyped', SharedTyped'
    PROVE  TypeInvariant'
<1>1. pc' \in [Threads -> Labelled]
  BY DEF TypeInvariant
<1>2. ASSUME NEW u \in Threads \ {t} PROVE LocalTyped(u)'
  <2>1. LocalTyped(u) /\ local'[u] = local[u] /\ pc'[u] = pc[u]
    BY DEF TypeInvariant
  <2>. QED
    BY <2>1 DEF LocalTyped
<1>. QED
  BY <1>1, <1>2 DEF TypeInvariant

\* What does not touch the other variables of the process leaves them typed.
LEMMA SharedKeeps ==
    ASSUME TypeInvariant, NEW t \in Threads, NEW label \in Labelled \ {"copy"},
           pc' = [pc EXCEPT ![t] = label], DOMAIN text' = Buffers,
           UNCHANGED <<counters, hostent, blacklist, up>>,
           races' \subseteq races \cup {"strtok", "hostent", "dnsCache"}
    PROVE  SharedTyped'
BY DEF TypeInvariant, SharedTyped, counters

LEMMA PositionKeeps ==
    ASSUME TypeInvariant, NEW t \in Threads, NEW label \in Labelled,
           pc' = [pc EXCEPT ![t] = label],
           saved'.buf \in Buffers \/ (saved' = saved /\ label \notin {"url", "version", "line"})
    PROVE  PositionTyped'
BY DEF TypeInvariant, PositionTyped

\* A thread that ends leaves nothing behind.
LEMMA LeaveTyped ==
    ASSUME TypeInvariant, NEW t \in Threads, Leave(t)
    PROVE  /\ pc' = [pc EXCEPT ![t] = "idle"] /\ "idle" \in Labelled \ {"copy", "url", "version", "line"}
           /\ asked' \in [Threads -> Requests \cup {None}]
           /\ DOMAIN local' = Threads /\ \A u \in Threads \ {t} : local'[u] = local[u]
           /\ LocalTyped(t)'
<1>1. local'[t] = Fresh /\ pc'[t] = "idle"
  BY DEF Leave, TypeInvariant
<1>2. LocalTyped(t)'
  BY <1>1 DEF LocalTyped, Fresh
<1>. QED
  BY <1>2 DEF Leave, TypeInvariant, Labelled

LEMMA LeaveKeepsTypes ==
    ASSUME TypeInvariant, NEW t \in Threads, Leave(t), DOMAIN text' = Buffers,
           saved'.buf \in Buffers \/ saved' = saved,
           UNCHANGED <<counters, hostent, blacklist>>, up' \in BOOLEAN,
           races' \subseteq races \cup {"strtok", "hostent", "dnsCache"}
    PROVE  TypeInvariant'
<1>1. SharedTyped'
  BY DEF TypeInvariant, SharedTyped, counters, Leave
<1>2. PositionTyped'
  BY LeaveTyped, PositionKeeps DEF Labelled
<1>. QED
  BY <1>1, <1>2, LeaveTyped, TypeStep DEF Labelled

LEMMA AcceptTyped ==
    ASSUME TypeInvariant, NEW t \in Threads, NEW r \in Requests, Accept(t, r)
    PROVE  TypeInvariant'
<1>1. /\ pc' = [pc EXCEPT ![t] = "url"] /\ asked' = [asked EXCEPT ![t] = r]
      /\ UNCHANGED <<local, hostent, blacklist, up>> /\ DOMAIN text' = DOMAIN text
      /\ saved' = Pointer(<<t, "receivedBuf">>, 3) /\ pc[t] = "idle"
  BY DEF Accept, Goto
<1>2. requests' \in 0..MaxRequests /\ overlaps' \in 0..MaxOverlaps
  BY ConstantsAssumption DEF Accept, TypeInvariant, SharedTyped
<1>3. races' \subseteq races \cup {"strtok"}
  BY DEF Accept, Raced
<1>4. SharedTyped'
  BY <1>1, <1>2, <1>3 DEF TypeInvariant, SharedTyped
<1>5. PositionTyped'
  BY <1>1 DEF PositionTyped, Pointer, Buffers
<1>6. LocalTyped(t)'
  <2>1. LocalTyped(t) /\ pc'[t] = "url" /\ local' = local
    BY <1>1 DEF TypeInvariant
  <2>. QED
    BY <1>1, <2>1 DEF LocalTyped
<1>7. "url" \in Labelled
  BY DEF Labelled, Tokenizing
<1>. QED
  BY <1>1, <1>4, <1>5, <1>6, <1>7, TypeStep DEF TypeInvariant

\* strtok stays in the text it is given.
LEMMA StrtokTyped ==
    ASSUME NEW p, NEW d, p.buf \in Buffers, DOMAIN text = Buffers
    PROVE  /\ Strtok(p, d).next.buf \in Buffers
           /\ DOMAIN Strtok(p, d).text = Buffers
           /\ Strtok(p, d).token # None => Strtok(p, d).token.buf \in Buffers
BY DEF Strtok, Pointer

LEMMA LoadPositionTyped ==
    ASSUME TypeInvariant, NEW t \in Threads, NEW from \in {"url", "version", "line"},
           NEW to \in {"urlEnd", "versionEnd", "lineEnd"}, LoadPosition(t, from, to)
    PROVE  TypeInvariant'
<1>1. /\ pc' = [pc EXCEPT ![t] = to] /\ pc[t] = from /\ UNCHANGED <<asked, text, saved>>
      /\ local' = [local EXCEPT ![t].cursor = saved]
      /\ UNCHANGED <<counters, hostent, blacklist, up>>
  BY DEF LoadPosition, Goto, clients
<1>2. to \in Labelled \ {"copy", "url", "version", "line"}
  BY DEF Labelled, Tokenizing
<1>3. saved.buf \in Buffers
  BY <1>1 DEF TypeInvariant, PositionTyped
<1>4. SharedTyped'
  BY <1>1, <1>2, SharedKeeps DEF LoadPosition, Raced, TypeInvariant, SharedTyped
<1>5. PositionTyped'
  BY <1>1, <1>3 DEF PositionTyped
<1>6. LocalTyped(t)'
  <2>1. LocalTyped(t) /\ pc'[t] = to /\ local'[t] = [local[t] EXCEPT !.cursor = saved]
    BY <1>1 DEF TypeInvariant
  <2>. QED
    BY <1>1, <1>3, <2>1 DEF LocalTyped
<1>. QED
  BY <1>1, <1>2, <1>4, <1>5, <1>6, TypeStep DEF TypeInvariant

LEMMA ReadTokenTyped ==
    ASSUME TypeInvariant, NEW t \in Threads, NEW d,
           \/ ReadToken(t, "urlEnd", "hostName", d, "version")
           \/ ReadToken(t, "versionEnd", "version", d, "parse")
    PROVE  TypeInvariant'
<1>. DEFINE r == Strtok(local[t].cursor, d)
<1>0. pc[t] \in {"urlEnd", "versionEnd"}
  BY DEF ReadToken
<1>1. PICK field \in {"hostName", "version"}, to \in {"version", "parse"} :
        /\ pc' = [pc EXCEPT ![t] = to]
        /\ local' = [local EXCEPT ![t][field] = r.token]
        /\ text' = r.text /\ saved' = r.next
        /\ UNCHANGED <<races, asked, counters, hostent, blacklist, up>>
  BY DEF ReadToken, Goto, clients
<1>2. to \in Labelled \ {"copy"}
  BY DEF Labelled, Tokenizing
<1>3. LocalTyped(t) /\ local[t].cursor.buf \in Buffers
  BY <1>0 DEF TypeInvariant, LocalTyped
<1>4. /\ r.next.buf \in Buffers /\ DOMAIN r.text = Buffers
      /\ r.token # None => r.token.buf \in Buffers
  BY <1>3, StrtokTyped DEF TypeInvariant, SharedTyped
<1>. HIDE DEF r
<1>5. SharedTyped'
  BY <1>1, <1>2, <1>4, SharedKeeps
<1>6. PositionTyped'
  BY <1>1, <1>2, <1>4, PositionKeeps
<1>7. LocalTyped(t)'
  <2>1. pc'[t] = to /\ local'[t] = [local[t] EXCEPT ![field] = r.token]
    BY <1>1 DEF TypeInvariant
  <2>2. CASE field = "hostName"
    BY <1>0, <1>3, <1>4, <2>1, <2>2 DEF LocalTyped
  <2>3. CASE field = "version"
    BY <1>0, <1>3, <1>4, <2>1, <2>3 DEF LocalTyped
  <2>. QED
    BY <2>2, <2>3
<1>. QED
  BY <1>1, <1>2, <1>5, <1>6, <1>7, TypeStep DEF TypeInvariant

LEMMA ParseTyped ==
    ASSUME TypeInvariant, NEW t \in Threads, Parse(t)
    PROVE  TypeInvariant'
<1>0. /\ UNCHANGED <<races, counters, saved, hostent, blacklist, up>> /\ pc[t] = "parse"
      /\ DOMAIN text = Buffers
  BY DEF Parse, TypeInvariant, SharedTyped
<1>1. CASE End(t) /\ UNCHANGED text
  BY <1>0, <1>1, LeaveKeepsTypes DEF End, TypeInvariant, SharedTyped
<1>2. CASE ~(End(t) /\ UNCHANGED text)
  <2>1. /\ GoodRequest(t) /\ Goto(t, "cache") /\ asked' = asked /\ DOMAIN text' = Buffers
    BY <1>0, <1>2 DEF Parse, clients
  <2>2. PICK i, page : local' = [local EXCEPT ![t].hostName = [local[t].hostName EXCEPT !.at = i],
                                              ![t].page = page]
    <3>. DEFINE p     == local[t].hostName
                at    == p.at + Place(<<"http://">>, At(p))
                url   == At([p EXCEPT !.at = @ + Place(<<"http://">>, At(p))])
                slash == Place(<<"/">>, url)
                name  == IF slash = 0 THEN url ELSE SubSeq(url, 1, slash - 1)
                file  == IF slash \in {0, Len(url)} THEN <<Default>>
                         ELSE SubSeq(url, slash + 1, Len(url))
    <3>1. local' = [local EXCEPT ![t].hostName = [p EXCEPT !.at = at],
                                 ![t].page = name \o <<"/">> \o file]
      BY <1>2, Zenon DEF Parse
    <3>. QED
      BY <3>1, Zenon
  <2>3. local[t].hostName.buf \in Buffers /\ LocalTyped(t)
    BY <2>1 DEF GoodRequest, TypeInvariant, LocalTyped
  <2>4. [local[t].hostName EXCEPT !.at = i].buf = local[t].hostName.buf
    OBVIOUS
  <2>5. pc' = [pc EXCEPT ![t] = "cache"] /\ "cache" \in Labelled \ {"copy", "url", "version", "line"}
    BY <2>1 DEF Goto, Labelled
  <2>6. LocalTyped(t)'
    <3>1. /\ pc'[t] = "cache"
          /\ local'[t] = [local[t] EXCEPT !.hostName = [local[t].hostName EXCEPT !.at = i],
                                          !.page = page]
      BY <2>2, <2>5 DEF TypeInvariant
    <3>. QED
      BY <1>0, <2>3, <2>4, <3>1 DEF LocalTyped
  <2>7. SharedTyped' /\ PositionTyped'
    BY <1>0, <2>1, <2>5, SharedKeeps, PositionKeeps
  <2>. QED
    BY <2>1, <2>2, <2>5, <2>6, <2>7, TypeStep DEF TypeInvariant
<1>. QED
  BY <1>1, <1>2

\* A step that goes on and leaves the variables of its thread alone.
LEMMA OnlyGoto ==
    ASSUME TypeInvariant, NEW t \in Threads, NEW label, Goto(t, label),
           label \in {"dns", "resolve", "line", "fetch", "copy"},
           label = "copy" => hostent' \in Addresses,
           pc[t] # "write", UNCHANGED <<local, clients, counters, blacklist, up>>,
           hostent' \in Addresses \/ hostent' = hostent,
           DOMAIN text' = Buffers,
           saved'.buf \in Buffers \/ (saved' = saved /\ label # "line"),
           races' \subseteq races \cup {"strtok", "hostent", "dnsCache"}
    PROVE  TypeInvariant'
<1>1. label \in Labelled
  BY DEF Labelled, Tokenizing
<1>2. pc' = [pc EXCEPT ![t] = label]
  BY DEF Goto
<1>3. SharedTyped'
  BY <1>2 DEF TypeInvariant, SharedTyped, counters
<1>4. PositionTyped'
  BY <1>1, <1>2, PositionKeeps
<1>5. LocalTyped(t)'
  <2>1. LocalTyped(t) /\ pc'[t] = label
    BY <1>2 DEF TypeInvariant
  <2>. QED
    BY <2>1 DEF LocalTyped
<1>. QED
  BY <1>1, <1>2, <1>3, <1>4, <1>5, TypeStep DEF TypeInvariant, clients

LEMMA SearchTyped ==
    ASSUME TypeInvariant, NEW t \in Threads,
           LookUpPage(t) \/ LookUpHost(t) \/ Resolve(t) \/ CheckBlacklist(t) \/ Fetch(t)
    PROVE  TypeInvariant'
<1>0. /\ DOMAIN text = Buffers /\ up \in BOOLEAN
      /\ UNCHANGED <<counters, blacklist, up>> /\ pc[t] # "write" /\ DOMAIN text' = Buffers
  BY DEF TypeInvariant, SharedTyped, LookUpPage, LookUpHost, Resolve, CheckBlacklist, Fetch
<1>1. CASE Leave(t) /\ ~Resolve(t)
  <2>1. /\ UNCHANGED hostent /\ (saved'.buf \in Buffers \/ saved' = saved)
        /\ races' \subseteq races \cup {"strtok", "hostent", "dnsCache"}
    BY <1>1 DEF LookUpPage, LookUpHost, CheckBlacklist, Fetch, Pointer, Buffers
  <2>. QED
    BY <1>0, <1>1, <2>1, LeaveKeepsTypes
<1>2. CASE LookUpPage(t) /\ ~Leave(t)
  BY <1>0, <1>2, OnlyGoto DEF LookUpPage, Send
<1>3. CASE LookUpHost(t)
  <2>0. \A i : Pointer(<<t, "tempBuf">>, i).buf \in Buffers
    BY DEF Pointer, Buffers
  <2>1. \/ Goto(t, "resolve") /\ UNCHANGED <<text, saved>>
        \/ Goto(t, "line") /\ saved'.buf \in Buffers
    BY <1>3, <2>0 DEF LookUpHost
  <2>2. UNCHANGED <<local, clients, hostent>> /\ races' \subseteq races \cup {"strtok", "hostent", "dnsCache"}
    BY <1>3 DEF LookUpHost
  <2>. QED
    BY <1>0, <2>1, <2>2, OnlyGoto
<1>4. CASE Resolve(t)
  <2>0. saved' = saved /\ races' \subseteq races \cup {"strtok", "hostent", "dnsCache"}
    BY <1>4 DEF Resolve, Raced
  <2>1. CASE HostName(t) \notin DOMAIN AddressOf
    BY <1>0, <1>4, <2>0, <2>1, LeaveKeepsTypes DEF Resolve, End
  <2>2. CASE HostName(t) \in DOMAIN AddressOf
    <3>1. hostent' \in Addresses
      BY <1>4, <2>2, ConstantsAssumption DEF Resolve
    <3>. QED
      BY <1>0, <1>4, <2>0, <2>2, <3>1, OnlyGoto DEF Resolve
  <2>. QED
    BY <2>1, <2>2
<1>5. CASE CheckBlacklist(t) /\ ~Leave(t)
  BY <1>0, <1>5, OnlyGoto DEF CheckBlacklist, End
<1>6. CASE Fetch(t)
  BY <1>1, <1>6 DEF Fetch, Resolve, Send
<1>. QED
  BY <1>1, <1>2, <1>3, <1>4, <1>5, <1>6

LEMMA ReadLineTyped ==
    ASSUME TypeInvariant, NEW t \in Threads, ReadLine(t)
    PROVE  TypeInvariant'
<1>. DEFINE r    == Strtok(local[t].cursor, "\n")
            line == String(r.text[r.token.buf], r.token.at)
<1>1. /\ saved' = r.next /\ text' = [r.text EXCEPT ![<<t, "tempBuf">>] = <<>>]
      /\ pc[t] = "lineEnd" /\ UNCHANGED <<races, counters, hostent, blacklist>>
  BY DEF ReadLine
<1>2. LocalTyped(t) /\ local[t].cursor.buf \in Buffers /\ DOMAIN text = Buffers
  BY <1>1 DEF TypeInvariant, LocalTyped, SharedTyped
<1>3. r.next.buf \in Buffers /\ DOMAIN r.text = Buffers
  BY <1>2, StrtokTyped
<1>4. DOMAIN text' = Buffers /\ saved'.buf \in Buffers
  BY <1>1, <1>3
<1>5. CASE End(t) /\ up' = FALSE
  BY <1>1, <1>4, <1>5, LeaveKeepsTypes DEF End
<1>6. CASE ~(End(t) /\ up' = FALSE)
  <2>1. /\ local' = [local EXCEPT ![t].address =
                IF line \in Addresses THEN line ELSE Unset]
        /\ Goto(t, "list") \/ Goto(t, "resolve")
        /\ UNCHANGED <<up, asked>>
    BY <1>6 DEF ReadLine, clients
  <2>. HIDE DEF line, r
  <2>2. PICK label \in {"list", "resolve"} : pc' = [pc EXCEPT ![t] = label]
    BY <2>1 DEF Goto
  <2>3. label \in Labelled \ {"copy", "url", "version", "line"}
    BY DEF Labelled
  <2>4. PICK a \in Addresses \cup {Unset} : local' = [local EXCEPT ![t].address = a]
    BY <2>1
  <2>5. LocalTyped(t)'
    <3>1. pc'[t] = label /\ local'[t] = [local[t] EXCEPT !.address = a]
      BY <2>2, <2>4 DEF TypeInvariant
    <3>. QED
      BY <1>1, <1>2, <3>1 DEF LocalTyped
  <2>6. SharedTyped' /\ PositionTyped'
    BY <1>1, <1>4, <2>1, <2>2, <2>3, SharedKeeps, PositionKeeps
  <2>. QED
    BY <2>1, <2>2, <2>3, <2>4, <2>5, <2>6, TypeStep DEF TypeInvariant
<1>. QED
  BY <1>5, <1>6

\* CopyAddress, AddIpToCache and WriteEntry.
LEMMA AddTyped ==
    ASSUME TypeInvariant, NEW t \in Threads,
           CopyAddress(t) \/ AddIpToCache(t) \/ WriteEntry(t)
    PROVE  TypeInvariant'
<1>1. /\ UNCHANGED <<races, counters, asked, text, saved, hostent, blacklist, up>>
      /\ DOMAIN text = Buffers
  BY DEF CopyAddress, AddIpToCache, WriteEntry, clients, TypeInvariant, SharedTyped
<1>2. LocalTyped(t)
  BY DEF TypeInvariant
<1>3. CASE CopyAddress(t)
  <2>1. /\ pc' = [pc EXCEPT ![t] = "add"] /\ pc[t] = "copy"
        /\ local' = [local EXCEPT ![t].address = hostent] /\ hostent \in Addresses
    BY <1>3 DEF CopyAddress, Goto, TypeInvariant, SharedTyped
  <2>2. LocalTyped(t)'
    <3>1. pc'[t] = "add" /\ local'[t] = [local[t] EXCEPT !.address = hostent]
      BY <2>1 DEF TypeInvariant
    <3>. QED
      BY <1>2, <2>1, <3>1 DEF LocalTyped
  <2>3. "add" \in Labelled \ {"copy", "url", "version", "line"}
    BY DEF Labelled
  <2>4. SharedTyped' /\ PositionTyped'
    BY <1>1, <2>1, <2>3, SharedKeeps, PositionKeeps
  <2>. QED
    BY <1>1, <2>1, <2>2, <2>3, <2>4, TypeStep DEF TypeInvariant
<1>4. CASE AddIpToCache(t)
  <2>. DEFINE enter == Place(<<"\n">>, dnsCache)
              entry == Entry(HostName(t), local[t].address)
              full  == enter # 0 /\ enter + Len(entry) > TextRoom
              e     == [at |-> enter + 1, rest |-> entry]
              label == IF full THEN "list" ELSE "write"
  <2>0. e.at \in Nat \ {0}
    BY PlaceFacts
  <2>1. /\ pc' = [pc EXCEPT ![t] = label]
        /\ label = "list" => local' = local
        /\ label = "write" => local' = [local EXCEPT ![t].entry = e]
        /\ label \in {"list", "write"}
    <3>1. /\ local' = IF full THEN local ELSE [local EXCEPT ![t].entry = e]
          /\ pc' = [pc EXCEPT ![t] = label]
      BY <1>4 DEF AddIpToCache, Goto
    <3>. HIDE DEF full, e
    <3>. QED
      BY <3>1
  <2>. HIDE DEF e, label
  <2>2. LocalTyped(t)'
    <3>1. pc[t] = "add" /\ pc'[t] = label
      BY <1>4, <2>1 DEF AddIpToCache, TypeInvariant
    <3>2. CASE label = "list"
      BY <1>2, <2>1, <3>1, <3>2 DEF LocalTyped
    <3>3. CASE label = "write"
      <4>1. local'[t] = [local[t] EXCEPT !.entry = e]
        BY <2>1, <3>3 DEF TypeInvariant
      <4>. QED
        BY <1>2, <2>0, <2>1, <3>1, <3>3, <4>1 DEF LocalTyped
    <3>. QED
      BY <2>1, <3>2, <3>3
  <2>3. label \in Labelled \ {"copy", "url", "version", "line"}
    BY <2>1 DEF Labelled
  <2>4. DOMAIN local' = Threads /\ \A u \in Threads \ {t} : local'[u] = local[u]
    BY <2>1 DEF TypeInvariant
  <2>5. SharedTyped' /\ PositionTyped'
    BY <1>1, <2>1, <2>3, SharedKeeps, PositionKeeps
  <2>. QED
    BY <1>1, <2>1, <2>2, <2>3, <2>4, <2>5, TypeStep DEF TypeInvariant
<1>5. CASE WriteEntry(t)
  <2>1. local[t].entry.at \in Nat \ {0}
    BY <1>2, <1>5 DEF WriteEntry, LocalTyped
  <2>2. PICK e :
          /\ \/ pc' = [pc EXCEPT ![t] = "list"] /\ e = Fresh.entry
             \/ pc' = [pc EXCEPT ![t] = "write"] /\ e.at = local[t].entry.at + 1
          /\ local' = [local EXCEPT ![t].entry = e]
    <3>. DEFINE next == [at |-> local[t].entry.at + 1, rest |-> Tail(local[t].entry.rest)]
    <3>1. CASE Len(local[t].entry.rest) = 1
      BY <1>5, <3>1 DEF WriteEntry, Goto
    <3>2. CASE Len(local[t].entry.rest) # 1
      <4>1. pc' = [pc EXCEPT ![t] = "write"] /\ local' = [local EXCEPT ![t].entry = next]
        BY <1>5, <3>2 DEF WriteEntry, Goto
      <4>2. next.at = local[t].entry.at + 1
        OBVIOUS
      <4>. QED
        BY <4>1, <4>2
    <3>. QED
      BY <3>1, <3>2
  <2>3. LocalTyped(t)'
    <3>1. /\ \/ pc'[t] = "list" /\ e = Fresh.entry
             \/ pc'[t] = "write" /\ e.at = local[t].entry.at + 1
          /\ local'[t] = [local[t] EXCEPT !.entry = e]
      BY <2>2 DEF TypeInvariant
    <3>. QED
      BY <1>2, <2>1, <3>1 DEF LocalTyped
  <2>4. {"write", "list"} \subseteq Labelled \ {"copy", "url", "version", "line"}
    BY DEF Labelled
  <2>5. SharedTyped' /\ PositionTyped'
    BY <1>1, <2>2, <2>4, SharedKeeps, PositionKeeps
  <2>. QED
    BY <1>1, <2>2, <2>3, <2>4, <2>5, TypeStep DEF TypeInvariant
<1>. QED
  BY <1>3, <1>4, <1>5

LEMMA TypeInvariantHolds == Spec => []TypeInvariant
<1>1. Init => TypeInvariant
  <2> SUFFICES ASSUME Init PROVE TypeInvariant
    OBVIOUS
  <2>1. \A t \in Threads : LocalTyped(t)
    BY DEF Init, LocalTyped, Fresh
  <2>2. SharedTyped
    BY ConstantsAssumption DEF Init, SharedTyped
  <2>3. PositionTyped
    BY DEF Init, PositionTyped
  <2>. QED
    BY <2>1, <2>2, <2>3 DEF Init, TypeInvariant, Labelled
<1>2. TypeInvariant /\ [Next]_vars => TypeInvariant'
  <2> SUFFICES ASSUME TypeInvariant, [Next]_vars PROVE TypeInvariant'
    OBVIOUS
  <2>1. CASE UNCHANGED vars
    BY <2>1 DEF vars, clients, counters, TypeInvariant, LocalTyped, SharedTyped, PositionTyped
  <2>2. ASSUME NEW t \in Threads, NEW r \in Requests, Accept(t, r)
        PROVE  TypeInvariant'
    BY <2>2, AcceptTyped
  <2>3. ASSUME NEW t \in Threads, ThreadStep(t)
        PROVE  TypeInvariant'
    <3>1. CASE \/ LoadPosition(t, "url", "urlEnd") \/ LoadPosition(t, "version", "versionEnd")
               \/ LoadPosition(t, "line", "lineEnd")
      BY <3>1, LoadPositionTyped
    <3>2. CASE \/ ReadToken(t, "urlEnd", "hostName", Space, "version")
               \/ ReadToken(t, "versionEnd", "version", "\r", "parse")
      BY <3>2, ReadTokenTyped
    <3>. QED
      BY <2>3, <3>1, <3>2, ParseTyped, SearchTyped, ReadLineTyped, AddTyped DEF ThreadStep
  <2>4. ASSUME NEW line \in Lines, Forbid(line)
        PROVE  TypeInvariant'
    BY <2>4 DEF Forbid, clients, counters, TypeInvariant, LocalTyped, SharedTyped, PositionTyped
  <2>. QED
    BY <2>1, <2>2, <2>3, <2>4 DEF Next
<1>. QED
  BY <1>1, <1>2, PTL DEF Spec

-----------------------------------------------------------------------------
(* Lemmas about texts. *)

\* The first place with a symbol of S is in the text or right behind it.
LEMMA FindFacts ==
    ASSUME NEW s \in Seq(Symbols), NEW i \in Nat \ {0}, NEW S
    PROVE  LET j == Find(s, i, S)
           IN  /\ j \in i .. i + Len(s)
               /\ j > Len(s) \/ s[j] = Nul \/ s[j] \in S
               /\ \A k \in i .. j - 1 : k <= Len(s) /\ s[k] # Nul /\ s[k] \notin S
<1>. DEFINE D == {j \in i .. i + Len(s) : j > Len(s) \/ s[j] = Nul \/ s[j] \in S}
            m == Min(D)
<1>1. Len(s) \in Nat
  OBVIOUS
<1>2. D \in SUBSET Nat /\ i + Len(s) \in D
  BY <1>1
<1>3. m \in D /\ \A k \in D : m <= k
  <2>. HIDE DEF D
  <2>. QED
    BY <1>2, MinFacts
<1>4. \A k \in i .. m - 1 : k \in i .. i + Len(s) /\ ~(m <= k)
  BY <1>1, <1>3
<1>5. \A k \in i .. m - 1 : k <= Len(s) /\ s[k] # Nul /\ s[k] \notin S
  <2>. SUFFICES ASSUME NEW k \in i .. m - 1 PROVE k <= Len(s) /\ s[k] # Nul /\ s[k] \notin S
    OBVIOUS
  <2>1. k \in i .. i + Len(s) /\ ~(k \in D)
    <3>. HIDE DEF D, m
    <3>. QED
      BY <1>3, <1>4
  <2>. QED
    BY <1>1, <2>1
<1>6. Find(s, i, S) = m
  BY DEF Find
<1>7. m \in i .. i + Len(s) /\ (m > Len(s) \/ s[m] = Nul \/ s[m] \in S)
  BY <1>3
<1>. HIDE DEF m
<1>. QED
  BY <1>5, <1>6, <1>7

\* strtok and the end of a string: where a symbol is the first of its kind, or the text
\* ends without one, Find finds it.
LEMMA FindAt ==
    ASSUME NEW s \in Seq(Symbols), NEW i \in Nat \ {0}, NEW S, NEW j \in i .. i + Len(s),
           j > Len(s) \/ s[j] = Nul \/ s[j] \in S,
           \A k \in i .. j - 1 : k <= Len(s) /\ s[k] # Nul /\ s[k] \notin S
    PROVE  Find(s, i, S) = j
<1>. DEFINE m == Find(s, i, S)
<1>1. Len(s) \in Nat
  OBVIOUS
<1>2. /\ m \in i .. i + Len(s)
      /\ m > Len(s) \/ s[m] = Nul \/ s[m] \in S
      /\ \A k \in i .. m - 1 : k <= Len(s) /\ s[k] # Nul /\ s[k] \notin S
  BY FindFacts
<1>. HIDE DEF m
<1>3. ~(m < j)
  <2>. SUFFICES ASSUME m < j PROVE FALSE
    OBVIOUS
  <2>1. m \in i .. j - 1
    BY <1>1, <1>2
  <2>. QED
    BY <1>1, <1>2, <2>1
<1>4. ~(j < m)
  <2>. SUFFICES ASSUME j < m PROVE FALSE
    OBVIOUS
  <2>1. j \in i .. m - 1
    BY <1>1, <1>2
  <2>. QED
    BY <1>1, <1>2, <2>1
<1>5. m = j
  BY <1>1, <1>2, <1>3, <1>4
<1>. QED
  BY <1>5 DEF m

LEMMA StringAt ==
    ASSUME NEW s \in Seq(Symbols), NEW i \in Nat \ {0}, NEW j \in i .. i + Len(s),
           j > Len(s) \/ s[j] = Nul, \A k \in i .. j - 1 : k <= Len(s) /\ s[k] # Nul
    PROVE  String(s, i) = SubSeq(s, i, j - 1)
<1>1. Find(s, i, {}) = j
  BY FindAt
<1>. QED
  BY <1>1 DEF String

\* strtok returns what is at p up to j, and overwrites the delimiter there.
Takes(p, d, j) ==
    /\ Strtok(p, d).token = Pointer(p.buf, p.at)
    /\ Strtok(p, d).next = Pointer(p.buf, IF j <= Len(text[p.buf]) THEN j + 1 ELSE j)
    /\ Strtok(p, d).text = IF j <= Len(text[p.buf]) THEN [text EXCEPT ![p.buf][j] = Nul] ELSE text

\* What strtok skips before a token, and where it ends: where the first other symbol is.
LEMMA SkipFacts ==
    ASSUME NEW s \in Seq(Symbols), NEW i \in Nat \ {0}, NEW d
    PROVE  LET m == Min({j \in i .. i + Len(s) : j > Len(s) \/ s[j] # d})
           IN  m \in i .. i + Len(s) /\ (i <= Len(s) /\ s[i] # d => m = i)
<1>. DEFINE D == {j \in i .. i + Len(s) : j > Len(s) \/ s[j] # d}
            m == Min(D)
<1>1. Len(s) \in Nat
  OBVIOUS
<1>2. D \in SUBSET (i .. i + Len(s)) /\ D \in SUBSET Nat /\ i + Len(s) \in D
  BY <1>1
<1>3. i <= Len(s) /\ s[i] # d => i \in D
  BY <1>1
<1>. HIDE DEF D
<1>4. m \in D /\ \A k \in D : m <= k
  BY <1>2, MinFacts
<1>. HIDE DEF m
<1>5. m \in i .. i + Len(s) /\ (i <= Len(s) /\ s[i] # d => m = i)
  BY <1>1, <1>2, <1>3, <1>4
<1>. QED
  BY <1>5 DEF m, D

LEMMA StrtokAt ==
    ASSUME NEW p, NEW d, d # Nul, text[p.buf] \in Seq(Symbols), p.at \in Nat \ {0},
           NEW j \in p.at + 1 .. Len(text[p.buf]) + 1,
           j <= Len(text[p.buf]) => text[p.buf][j] = d,
           \A k \in p.at .. j - 1 : text[p.buf][k] # Nul /\ text[p.buf][k] # d
    PROVE  Takes(p, d, j)
<1>. DEFINE s     == text[p.buf]
            first == Min({m \in p.at .. p.at + Len(s) : m > Len(s) \/ s[m] # d})
            last  == Find(s, first, {d})
            cut   == last <= Len(s) /\ s[last] = d
<1>1. Len(s) \in Nat
  OBVIOUS
<1>2. p.at <= Len(s) /\ s[p.at] # d
  BY <1>1
<1>3. first = p.at
  <2>. HIDE DEF first
  <2>1. s \in Seq(Symbols)
    OBVIOUS
  <2>. HIDE DEF s
  <2>. QED
    BY <1>2, <2>1, SkipFacts DEF first
<1>4. last = j
  <2>1. /\ s \in Seq(Symbols) /\ j \in p.at .. p.at + Len(s)
        /\ j > Len(s) \/ s[j] = Nul \/ s[j] \in {d}
        /\ \A k \in p.at .. j - 1 : k <= Len(s) /\ s[k] # Nul /\ s[k] \notin {d}
    BY <1>1
  <2>2. Find(s, p.at, {d}) = j
    <3>. HIDE DEF s
    <3>. QED
      BY <2>1, FindAt
  <2>. HIDE DEF s, first
  <2>. QED
    BY <1>3, <2>2
<1>5. cut <=> j <= Len(s)
  <2>. HIDE DEF last
  <2>. QED
    BY <1>1, <1>4
<1>6. Strtok(p, d) =
        [token |-> IF last = first THEN None ELSE Pointer(p.buf, first),
         next  |-> Pointer(p.buf, IF cut THEN last + 1 ELSE last),
         text  |-> IF cut THEN [text EXCEPT ![p.buf][last] = Nul] ELSE text]
  BY DEF Strtok
<1>7. last # first
  <2>. HIDE DEF last, first
  <2>. QED
    BY <1>1, <1>3, <1>4
<1>. HIDE DEF first, last, cut, s
<1>8. Takes(p, d, j)
  BY <1>3, <1>4, <1>5, <1>6, <1>7 DEF Takes, s
<1>. QED
  BY <1>8

\* Where x is in s, symbol by symbol.
LEMMA PlacesFacts ==
    ASSUME NEW x \in Seq(Symbols), NEW s \in Seq(Symbols), NEW i
    PROVE  i \in Places(x, s) <=>
             /\ i \in 1 .. Len(s) - Len(x) + 1
             /\ \A j \in 1 .. Len(x) : s[i + j - 1] = x[j]
<1>. SUFFICES ASSUME i \in 1 .. Len(s) - Len(x) + 1
              PROVE  SubSeq(s, i, i + Len(x) - 1) = x <=>
                        \A j \in 1 .. Len(x) : s[i + j - 1] = x[j]
  BY DEF Places
<1>1. Len(s) \in Nat /\ Len(x) \in Nat /\ i \in Nat \ {0}
  OBVIOUS
<1>. DEFINE y == SubSeq(s, i, i + Len(x) - 1)
<1>2. \A k \in i .. i + Len(x) - 1 : s[k] \in Symbols
  BY <1>1, ElementOfSeq
<1>3. y \in Seq(Symbols) /\ Len(y) = Len(x) /\ \A j \in 1 .. Len(x) : y[j] = s[i + j - 1]
  BY <1>1, <1>2, SubSeqProperties
<1>. HIDE DEF y
<1>4. (\A j \in 1 .. Len(x) : y[j] = x[j]) => y = x
  BY <1>3, SeqEqual
<1>. QED
  BY <1>3, <1>4 DEF y

\* The first place is the one strstr finds.
LEMMA PlaceAt ==
    ASSUME NEW x, NEW s, NEW i \in Places(x, s), \A j \in Places(x, s) : i <= j
    PROVE  Place(x, s) = i
<1>1. Places(x, s) \in SUBSET Nat
  BY DEF Places
<1>2. Occurs(x, s)
  BY DEF Occurs
<1>. QED
  BY <1>1, <1>2, PlaceFacts

\* A part of a text, symbol by symbol.
LEMMA PartFacts ==
    ASSUME NEW s \in Seq(Symbols), NEW i \in Nat \ {0}, NEW j \in Nat, i <= j + 1, j <= Len(s)
    PROVE  /\ SubSeq(s, i, j) \in Seq(Symbols) /\ Len(SubSeq(s, i, j)) = j + 1 - i
           /\ \A k \in 1 .. j + 1 - i : SubSeq(s, i, j)[k] = s[i + k - 1]
<1>1. Len(s) \in Nat
  OBVIOUS
<1>2. \A k \in i .. j : s[k] \in Symbols
  BY <1>1, ElementOfSeq
<1>3. /\ SubSeq(s, i, j) \in Seq(Symbols)
      /\ Len(SubSeq(s, i, j)) = IF i <= j THEN j - i + 1 ELSE 0
      /\ \A k \in 1 .. j - i + 1 : SubSeq(s, i, j)[k] = s[i + k - 1]
  BY <1>2, SubSeqProperties
<1>4. (IF i <= j THEN j - i + 1 ELSE 0) = j + 1 - i /\ j - i + 1 = j + 1 - i
  OBVIOUS
<1>. QED
  BY <1>3, <1>4

\* The first occurrence of a symbol.
LEMMA SymbolAt ==
    ASSUME NEW s \in Seq(Symbols), NEW c \in Symbols, NEW i \in 1 .. Len(s), s[i] = c,
           \A j \in 1 .. i - 1 : s[j] # c
    PROVE  Place(<<c>>, s) = i
<1>1. <<c>> \in Seq(Symbols) /\ Len(<<c>>) = 1 /\ <<c>>[1] = c /\ Len(s) \in Nat
  OBVIOUS
<1>2. \A j : j \in Places(<<c>>, s) <=> j \in 1 .. Len(s) /\ s[j] = c
  <2>. SUFFICES ASSUME NEW j PROVE j \in Places(<<c>>, s) <=> j \in 1 .. Len(s) /\ s[j] = c
    OBVIOUS
  <2>. DEFINE x == <<c>>
  <2>. HIDE DEF x
  <2>1. x \in Seq(Symbols) /\ Len(x) = 1 /\ x[1] = c
    BY <1>1 DEF x
  <2>2. j \in Places(x, s) <=> /\ j \in 1 .. Len(s) - Len(x) + 1
                               /\ \A k \in 1 .. Len(x) : s[j + k - 1] = x[k]
    <3>1. \A l : l \in Places(x, s) <=> /\ l \in 1 .. Len(s) - Len(x) + 1
                                         /\ \A k \in 1 .. Len(x) : s[l + k - 1] = x[k]
      BY <2>1, PlacesFacts
    <3>. QED
      BY <3>1
  <2>3. Len(s) - 1 + 1 = Len(s) /\ (j \in Int => j + 1 - 1 = j) /\ \A k \in 1 .. 1 : k = 1
    BY <1>1
  <2>4. j \in Places(x, s) <=> j \in 1 .. Len(s) /\ s[j] = c
    BY <1>1, <2>1, <2>2, <2>3
  <2>. QED
    BY <2>4 DEF x
<1>3. i \in Places(<<c>>, s) /\ \A j \in Places(<<c>>, s) : i <= j
  BY <1>1, <1>2
<1>. QED
  BY <1>3, PlaceAt

\* Where the first line of a text ends.
LEMMA EndOfLine ==
    ASSUME NEW s \in Seq(Symbols)
    PROVE  LET i == Place(<<"\n">>, s)
           IN  /\ i = 0 => \A j \in 1 .. Len(s) : s[j] # "\n"
               /\ i # 0 => i \in 1 .. Len(s) /\ s[i] = "\n"
               /\ \A j \in 1 .. Len(s) : s[j] = "\n" => i <= j
<1>. DEFINE x == <<"\n">>
            i == Place(x, s)
<1>1. x \in Seq(Symbols) /\ Len(x) = 1 /\ x[1] = "\n" /\ Len(s) \in Nat
  BY DEF Symbols
<1>. HIDE DEF x
<1>2. \A j : j \in Places(x, s) <=> /\ j \in 1 .. Len(s) - Len(x) + 1
                                    /\ \A k \in 1 .. Len(x) : s[j + k - 1] = x[k]
  BY <1>1, PlacesFacts
<1>3. ASSUME NEW j PROVE j \in Places(x, s) <=> j \in 1 .. Len(s) /\ s[j] = "\n"
  <2>1. Len(s) - 1 + 1 = Len(s) /\ (j \in Int => j + 1 - 1 = j) /\ \A k \in 1 .. 1 : k = 1
    BY <1>1
  <2>. QED
    BY <1>1, <1>2, <2>1
<1>4. /\ i \in Nat
      /\ Places(x, s) = {} => i = 0
      /\ Places(x, s) # {} => i \in Places(x, s) /\ \A j \in Places(x, s) : i <= j
  BY PlaceFacts DEF Occurs
<1>. HIDE DEF i
<1>5. /\ i = 0 => \A j \in 1 .. Len(s) : s[j] # "\n"
      /\ i # 0 => i \in 1 .. Len(s) /\ s[i] = "\n"
      /\ \A j \in 1 .. Len(s) : s[j] = "\n" => i <= j
  BY <1>1, <1>3, <1>4
<1>. QED
  BY <1>5 DEF i, x

\* A symbol written behind the first line leaves it where it is; the end of a line makes
\* one where there was none.
LEMMA FirstLineStays ==
    ASSUME NEW s \in Seq(Symbols), NEW z \in Seq(Symbols), NEW n \in 1 .. Len(s) + 1, NEW c \in Symbols,
           Place(<<"\n">>, s) < n,
           Len(z) = IF n > Len(s) THEN Len(s) + 1 ELSE Len(s),
           \A i \in 1 .. Len(z) : z[i] = IF i = n THEN c ELSE s[i]
    PROVE  Place(<<"\n">>, z) = IF Place(<<"\n">>, s) = 0 /\ c = "\n" THEN n
                                ELSE Place(<<"\n">>, s)
<1>. DEFINE i == Place(<<"\n">>, s)
            j == Place(<<"\n">>, z)
<1>1. Len(s) \in Nat /\ Len(z) \in Nat /\ n \in 1 .. Len(z) /\ i \in Nat /\ j \in Nat
  BY PlaceFacts
<1>2. /\ i = 0 => \A k \in 1 .. Len(s) : s[k] # "\n"
      /\ i # 0 => i \in 1 .. Len(s) /\ s[i] = "\n"
      /\ \A k \in 1 .. Len(s) : s[k] = "\n" => i <= k
  BY EndOfLine
<1>3. /\ j = 0 => \A k \in 1 .. Len(z) : z[k] # "\n"
      /\ j # 0 => j \in 1 .. Len(z) /\ z[j] = "\n"
      /\ \A k \in 1 .. Len(z) : z[k] = "\n" => j <= k
  BY EndOfLine
<1>4. i < n
  OBVIOUS
<1>. HIDE DEF i, j
<1>5. \A k \in 1 .. Len(z) : k # n => k \in 1 .. Len(s) /\ z[k] = s[k]
  BY <1>1
<1>6. z[n] = c
  BY <1>1
<1>7. j = IF i = 0 /\ c = "\n" THEN n ELSE i
  <2>1. CASE i # 0
    <3>1. i \in 1 .. Len(z) /\ z[i] = "\n"
      BY <1>1, <1>2, <1>4, <1>5, <2>1
    <3>2. j <= i /\ j # 0
      BY <1>3, <3>1
    <3>3. j \in 1 .. Len(s) /\ s[j] = "\n"
      BY <1>1, <1>3, <1>4, <1>5, <3>2
    <3>. QED
      BY <1>1, <1>2, <2>1, <3>2, <3>3
  <2>2. CASE i = 0 /\ c = "\n"
    <3>1. j <= n /\ j # 0
      BY <1>1, <1>3, <1>6, <2>2
    <3>2. j = n
      BY <1>2, <1>3, <1>5, <2>2, <3>1
    <3>. QED
      BY <2>2, <3>2
  <2>3. CASE i = 0 /\ c # "\n"
    <3>1. j = 0
      BY <1>2, <1>3, <1>5, <1>6, <2>3
    <3>. QED
      BY <2>3, <3>1
  <2>. QED
    BY <2>1, <2>2, <2>3
<1>. QED
  BY <1>7 DEF i, j

-----------------------------------------------------------------------------
(* The text of a request. *)

LEMMA SpaceDiffers == Space \notin {"/", "http://", "HTTP/1.1", "\r", "\n", ":", Nul}
BY Zenon DEF Space, Nul

LEMMA NulDiffers == Nul \notin {"/", "http://", "HTTP/1.1", "\r", "\n", ":"}
BY Zenon DEF Nul

LEMMA ConcatFacts ==
    ASSUME NEW a \in Seq(Symbols), NEW b \in Seq(Symbols)
    PROVE  /\ a \o b \in Seq(Symbols) /\ Len(a \o b) = Len(a) + Len(b)
           /\ \A i \in 1 .. Len(a) : (a \o b)[i] = a[i]
           /\ \A i \in 1 .. Len(b) : (a \o b)[i + Len(a)] = b[i]
<1>1. Len(a) \in Nat /\ Len(b) \in Nat
  OBVIOUS
<1>2. /\ a \o b \in Seq(Symbols) /\ Len(a \o b) = Len(a) + Len(b)
      /\ \A i \in 1 .. Len(a) + Len(b) : (a \o b)[i] = IF i <= Len(a) THEN a[i] ELSE b[i - Len(a)]
  BY ConcatProperties
<1>3. ASSUME NEW i \in 1 .. Len(b) PROVE (a \o b)[i + Len(a)] = b[i]
  <2>1. i + Len(a) \in 1 .. Len(a) + Len(b) /\ ~(i + Len(a) <= Len(a)) /\ (i + Len(a)) - Len(a) = i
    BY <1>1
  <2>. QED
    BY <1>2, <2>1
<1>. QED
  BY <1>1, <1>2, <1>3

LEMMA HostFacts ==
    ASSUME NEW h \in Hosts
    PROVE  /\ h \in Seq(Symbols) /\ Len(h) \in Nat \ {0}
           /\ \A i \in 1 .. Len(h) : h[i] \in Letters /\ h[i] \notin {"/", Space, Nul}
<1>1. h \in Seq(Letters) /\ h # <<>> /\ Letters \subseteq Symbols
  BY TextAssumption DEF Symbols
<1>2. h \in Seq(Symbols)
  BY <1>1, SeqMonotonic
<1>3. \A i \in 1 .. Len(h) : h[i] \in Letters
  BY <1>1
<1>. QED
  BY <1>1, <1>2, <1>3, TextAssumption

LEMMA RequestFacts ==
    ASSUME NEW r \in Requests
    PROVE  /\ r.host \in Hosts /\ r.file \in Symbols /\ r.method \in Symbols
           /\ r.file \notin {Space, Nul}
           /\ FileText(r.file) \in Seq(Symbols)
           /\ r.file = Default => Len(FileText(r.file)) = 0
           /\ r.file # Default => Len(FileText(r.file)) = 1 /\ FileText(r.file)[1] = r.file
           /\ UrlEnd(r) \in Nat
<1>1. r.host \in Hosts /\ r.file \in Symbols /\ r.method \in Symbols
  BY DEF Hosts, Symbols
<1>2. /\ FileText(r.file) \in Seq(Symbols)
      /\ r.file = Default => Len(FileText(r.file)) = 0
      /\ r.file # Default => Len(FileText(r.file)) = 1 /\ FileText(r.file)[1] = r.file
  BY <1>1 DEF FileText
<1>3. r.file \notin {Space, Nul}
  BY TextAssumption
<1>4. Len(FileText(r.file)) \in Nat
  BY <1>2
<1>5. UrlEnd(r) \in Nat
  <2>. DEFINE n == Len(r.host)
              m == Len(FileText(r.file))
  <2>1. n \in Nat /\ m \in Nat
    BY <1>1, <1>4, HostFacts
  <2>2. UrlEnd(r) = n + m + 5
    BY DEF UrlEnd
  <2>. HIDE DEF n, m
  <2>. QED
    BY <2>1, <2>2
<1>. QED
  BY <1>1, <1>2, <1>3, <1>5

LEMMA RequestTextLine ==
    ASSUME NEW r \in Requests
    PROVE  RequestLine([RequestText(r) EXCEPT ![2] = Nul], r, Space, "\r")
<1>. DEFINE a == <<r.method, Space, "http://">>
            h == r.host
            b == <<"/">>
            f == FileText(r.file)
            c == <<Space, "HTTP/1.1", "\r", "headers">>
<1>0. PICK n, m : n = Len(h) /\ m = Len(f)
  OBVIOUS
<1>1. /\ r.host \in Hosts /\ h \in Seq(Symbols) /\ n \in Nat \ {0} /\ f \in Seq(Symbols) /\ m \in Nat
      /\ r.file = Default => m = 0
      /\ r.file # Default => m = 1 /\ f[1] = r.file
  BY <1>0, RequestFacts, HostFacts
<1>2. a \in Seq(Symbols) /\ Len(a) = 3 /\ a[3] = "http://"
  BY RequestFacts DEF Symbols
<1>3. b \in Seq(Symbols) /\ Len(b) = 1 /\ b[1] = "/"
  BY DEF Symbols
<1>4. /\ c \in Seq(Symbols) /\ Len(c) = 4
      /\ c[1] = Space /\ c[2] = "HTTP/1.1" /\ c[3] = "\r" /\ c[4] = "headers"
  BY DEF Symbols
<1>. HIDE DEF a, h, b, f, c
<1>. DEFINE u == a \o h
            v == u \o b
            w == v \o f
            z == w \o c
<1>5. /\ u \in Seq(Symbols) /\ Len(u) = n + 3
      /\ u[3] = "http://" /\ \A i \in 1 .. n : u[i + 3] = h[i]
  <2>1. /\ u \in Seq(Symbols) /\ Len(u) = Len(a) + Len(h)
        /\ \A i \in 1 .. Len(a) : u[i] = a[i]
        /\ \A i \in 1 .. Len(h) : u[i + Len(a)] = h[i]
    BY <1>1, <1>2, ConcatFacts
  <2>. HIDE DEF u
  <2>. QED
    BY <1>0, <1>1, <1>2, <2>1
<1>. HIDE DEF u
<1>6. /\ v \in Seq(Symbols) /\ Len(v) = n + 4
      /\ v[3] = "http://" /\ (\A i \in 1 .. n : v[i + 3] = h[i]) /\ v[n + 4] = "/"
  <2>1. /\ v \in Seq(Symbols) /\ Len(v) = Len(u) + Len(b)
        /\ \A i \in 1 .. Len(u) : v[i] = u[i]
        /\ \A i \in 1 .. Len(b) : v[i + Len(u)] = b[i]
    BY <1>3, <1>5, ConcatFacts
  <2>. HIDE DEF v
  <2>2. v[1 + (n + 3)] = "/"
    BY <1>3, <1>5, <2>1
  <2>3. 1 + (n + 3) = n + 4
    BY <1>1
  <2>. QED
    BY <1>1, <1>3, <1>5, <2>1, <2>2, <2>3
<1>. HIDE DEF v
<1>7. /\ w \in Seq(Symbols) /\ Len(w) = n + m + 4
      /\ w[3] = "http://" /\ (\A i \in 1 .. n : w[i + 3] = h[i]) /\ w[n + 4] = "/"
      /\ m = 1 => w[n + 5] = f[1]
  <2>1. /\ w \in Seq(Symbols) /\ Len(w) = Len(v) + Len(f)
        /\ \A i \in 1 .. Len(v) : w[i] = v[i]
        /\ \A i \in 1 .. Len(f) : w[i + Len(v)] = f[i]
    BY <1>1, <1>6, ConcatFacts
  <2>. HIDE DEF w
  <2>2. m = 1 => w[1 + (n + 4)] = f[1]
    BY <1>0, <1>6, <2>1
  <2>3. 1 + (n + 4) = n + 5
    BY <1>1
  <2>. QED
    BY <1>0, <1>1, <1>6, <2>1, <2>2, <2>3
<1>. HIDE DEF w
<1>8. /\ z \in Seq(Symbols) /\ Len(z) = n + m + 8
      /\ z[3] = "http://" /\ (\A i \in 1 .. n : z[i + 3] = h[i]) /\ z[n + 4] = "/"
      /\ m = 1 => z[n + 5] = f[1]
      /\ z[n + m + 5] = Space /\ z[n + m + 6] = "HTTP/1.1" /\ z[n + m + 7] = "\r"
  <2>1. /\ z \in Seq(Symbols) /\ Len(z) = Len(w) + Len(c)
        /\ \A i \in 1 .. Len(w) : z[i] = w[i]
        /\ \A i \in 1 .. Len(c) : z[i + Len(w)] = c[i]
    BY <1>4, <1>7, ConcatFacts
  <2>. HIDE DEF z
  <2>2. /\ z[1 + (n + m + 4)] = c[1] /\ z[2 + (n + m + 4)] = c[2] /\ z[3 + (n + m + 4)] = c[3]
    BY <1>4, <1>7, <2>1
  <2>3. /\ 1 + (n + m + 4) = n + m + 5 /\ 2 + (n + m + 4) = n + m + 6
        /\ 3 + (n + m + 4) = n + m + 7
    BY <1>1
  <2>. QED
    BY <1>1, <1>4, <1>7, <2>1, <2>2, <2>3
<1>. DEFINE s == [RequestText(r) EXCEPT ![2] = Nul]
<1>10. RequestText(r) = z
  BY Zenon DEF RequestText, z, w, v, u, a, h, b, f, c
<1>. HIDE DEF z
<1>9. UrlEnd(r) = n + m + 5
  BY <1>0, <1>1 DEF UrlEnd, h, f
<1>11. Nul \in Symbols /\ 2 \in 1 .. Len(z)
  BY <1>1, <1>8 DEF Symbols
<1>12. /\ s \in Seq(Symbols) /\ Len(s) = n + m + 8
       /\ \A i \in 3 .. n + m + 8 : s[i] = z[i]
  BY <1>1, <1>8, <1>10, <1>11, ExceptSeq
<1>. HIDE DEF s
<1>13. /\ s[3] = "http://" /\ (\A i \in 1 .. n : s[i + 3] = h[i])
       /\ s[n + 4] = "/" /\ (m = 1 => s[n + 5] = f[1])
       /\ s[n + m + 5] = Space /\ s[n + m + 6] = "HTTP/1.1" /\ s[n + m + 7] = "\r"
  BY <1>1, <1>8, <1>12
<1>14. RequestLine(s, r, Space, "\r")
  BY <1>0, <1>1, <1>9, <1>12, <1>13 DEF RequestLine, h
<1>. QED
  BY <1>14 DEF s

-----------------------------------------------------------------------------
(* What a step of one thread leaves alone. *)

\* What a step of thread t leaves as it is.
OthersAsBefore(t) ==
    \A u \in Threads \ {t} : pc'[u] = pc[u] /\ local'[u] = local[u] /\ asked'[u] = asked[u]

\* Which steps there are, whoever takes them.
StepOf(t) == ThreadStep(t) \/ \E r \in Requests : Accept(t, r)

LEMMA OthersUntouched ==
    ASSUME TypeInvariant, NEW t \in Threads, StepOf(t)
    PROVE  OthersAsBefore(t) /\ races \subseteq races' /\ pc[t] \in Labelled
<1>0. /\ DOMAIN pc = Threads /\ DOMAIN local = Threads /\ DOMAIN asked = Threads
      /\ pc[t] \in Labelled
  BY DEF TypeInvariant
<1>1. ASSUME NEW r \in Requests, Accept(t, r) PROVE OthersAsBefore(t) /\ races \subseteq races'
  BY <1>0, <1>1 DEF Accept, OthersAsBefore, Goto, Raced
<1>2. ASSUME NEW from, NEW to, LoadPosition(t, from, to)
      PROVE  OthersAsBefore(t) /\ races \subseteq races'
  BY <1>0, <1>2 DEF LoadPosition, OthersAsBefore, Goto, Raced, clients
<1>3. ASSUME NEW from, NEW field, NEW d, NEW to, ReadToken(t, from, field, d, to)
      PROVE  OthersAsBefore(t) /\ races \subseteq races'
  BY <1>0, <1>3 DEF ReadToken, OthersAsBefore, Goto, clients
<1>4. CASE Parse(t) \/ LookUpPage(t)
  <2>1. races' = races
    BY <1>4 DEF Parse, LookUpPage
  <2>2. CASE Leave(t)
    BY <1>0, <2>1, <2>2 DEF Leave, OthersAsBefore
  <2>3. CASE ~Leave(t)
    <3>1. /\ \E label : Goto(t, label)
          /\ asked' = asked
          /\ DOMAIN local' = Threads /\ \A u \in Threads \ {t} : local'[u] = local[u]
      BY <1>0, <1>4, <2>3 DEF Parse, LookUpPage, End, Send, clients
    <3>. QED
      BY <1>0, <2>1, <3>1 DEF OthersAsBefore, Goto
  <2>. QED
    BY <2>2, <2>3
<1>5. CASE LookUpHost(t)
  <2>1. /\ \E label : Goto(t, label)
        /\ asked' = asked /\ local' = local /\ races \subseteq races'
    BY <1>5 DEF LookUpHost, clients
  <2>. QED
    BY <1>0, <2>1 DEF OthersAsBefore, Goto
<1>6. CASE ReadLine(t) \/ Resolve(t) \/ CheckBlacklist(t) \/ Fetch(t)
  <2>1. races \subseteq races'
    BY <1>6 DEF ReadLine, Resolve, CheckBlacklist, Fetch, Raced
  <2>2. CASE Leave(t)
    BY <1>0, <2>1, <2>2 DEF Leave, OthersAsBefore
  <2>3. CASE ~Leave(t)
    <3>1. /\ \E label : Goto(t, label)
          /\ asked' = asked
          /\ DOMAIN local' = Threads /\ \A u \in Threads \ {t} : local'[u] = local[u]
      BY <1>0, <1>6, <2>3 DEF ReadLine, Resolve, CheckBlacklist, Fetch, End, Send, clients
    <3>. QED
      BY <1>0, <2>1, <3>1 DEF OthersAsBefore, Goto
  <2>. QED
    BY <2>2, <2>3
<1>7. CASE CopyAddress(t) \/ AddIpToCache(t) \/ WriteEntry(t)
  <2>1. /\ \E label : Goto(t, label)
        /\ asked' = asked /\ races' = races
        /\ DOMAIN local' = Threads /\ \A u \in Threads \ {t} : local'[u] = local[u]
    BY <1>0, <1>7 DEF CopyAddress, AddIpToCache, WriteEntry, clients
  <2>. QED
    BY <1>0, <2>1 DEF OthersAsBefore, Goto
<1>. QED
  BY <1>0, <1>1, <1>2, <1>3, <1>4, <1>5, <1>6, <1>7 DEF StepOf, ThreadStep


-----------------------------------------------------------------------------
(* The texts are texts, whatever the threads race for. *)

LEMMA StringTyped ==
    ASSUME NEW s \in Seq(Symbols), NEW i \in Nat \ {0}
    PROVE  String(s, i) \in Seq(Symbols)
<1>. DEFINE j == Find(s, i, {})
<1>1. Len(s) \in Nat
  OBVIOUS
<1>2. j \in i .. i + Len(s) /\ \A k \in i .. j - 1 : k <= Len(s)
  BY FindFacts
<1>. HIDE DEF j
<1>3. j - 1 \in Int /\ i \in Int /\ \A k \in i .. j - 1 : s[k] \in Symbols
  BY <1>1, <1>2, ElementOfSeq
<1>4. SubSeq(s, i, j - 1) \in Seq(Symbols)
  BY <1>3, SubSeqProperties
<1>. QED
  BY <1>4 DEF String, j

\* A symbol of a text is overwritten, if it is one of the text.
LEMMA NulWritten ==
    ASSUME NEW s \in Seq(Symbols), NEW i
    PROVE  [s EXCEPT ![i] = Nul] \in Seq(Symbols)
<1>1. Nul \in Symbols
  BY DEF Symbols
<1>2. CASE i \in 1 .. Len(s)
  BY <1>1, <1>2, ExceptSeq
<1>3. CASE i \notin 1 .. Len(s)
  <2>1. DOMAIN s = 1 .. Len(s) /\ s = [k \in DOMAIN s |-> s[k]]
    BY LenProperties
  <2>2. [s EXCEPT ![i] = Nul] = s
    BY <1>3, <2>1
  <2>. QED
    BY <2>2
<1>. QED
  BY <1>2, <1>3

\* A copy of a text with one symbol overwritten.
LEMMA CopyFacts ==
    ASSUME NEW s \in Seq(Symbols), NEW first
    PROVE  LET z == [i \in DOMAIN s |-> IF i = first THEN Nul ELSE s[i]]
           IN  /\ z \in Seq(Symbols) /\ Len(z) = Len(s)
               /\ \A i \in 1 .. Len(s) : i # first => z[i] = s[i]
<1>. DEFINE z == [i \in DOMAIN s |-> IF i = first THEN Nul ELSE s[i]]
<1>1. DOMAIN s = 1 .. Len(s) /\ Len(s) \in Nat /\ \A i \in 1 .. Len(s) : s[i] \in Symbols
  BY LenProperties, ElementOfSeq
<1>2. z \in [1 .. Len(s) -> Symbols]
  BY <1>1 DEF Symbols
<1>3. \A i \in 1 .. Len(s) : i # first => z[i] = s[i]
  BY <1>1
<1>. HIDE DEF z
<1>4. z \in Seq(Symbols) /\ Len(z) = Len(s)
  BY <1>1, <1>2
<1>. QED
  BY <1>3, <1>4 DEF z

LEMMA StrtokTexts ==
    ASSUME NEW p, NEW d, p.buf \in Buffers, p.at \in Nat \ {0},
           DOMAIN text = Buffers, \A b \in Buffers : text[b] \in Seq(Symbols)
    PROVE  /\ Strtok(p, d).next.at \in Nat \ {0}
           /\ Strtok(p, d).token # None => Strtok(p, d).token \in [buf : Buffers, at : Nat \ {0}]
           /\ \A b \in Buffers : Strtok(p, d).text[b] \in Seq(Symbols)
<1>. DEFINE s     == text[p.buf]
            first == Min({m \in p.at .. p.at + Len(s) : m > Len(s) \/ s[m] # d})
            last  == Find(s, first, {d})
            cut   == last <= Len(s) /\ s[last] = d
<1>1. s \in Seq(Symbols) /\ Len(s) \in Nat
  OBVIOUS
<1>2. first \in Nat \ {0}
  <2>. HIDE DEF s
  <2>1. first \in p.at .. p.at + Len(s)
    BY <1>1, SkipFacts
  <2>. HIDE DEF first
  <2>. QED
    BY <1>1, <2>1
<1>3. last \in Nat \ {0}
  <2>. HIDE DEF s, first
  <2>1. last \in first .. first + Len(s)
    BY <1>1, <1>2, FindFacts
  <2>. HIDE DEF last
  <2>. QED
    BY <1>1, <1>2, <2>1
<1>4. Strtok(p, d) =
        [token |-> IF last = first THEN None ELSE Pointer(p.buf, first),
         next  |-> Pointer(p.buf, IF cut THEN last + 1 ELSE last),
         text  |-> IF cut THEN [text EXCEPT ![p.buf][last] = Nul] ELSE text]
  BY DEF Strtok
<1>. HIDE DEF first, last, cut
<1>5. \A b \in Buffers : [text EXCEPT ![p.buf][last] = Nul][b] \in Seq(Symbols)
  BY <1>1, NulWritten
<1>. QED
  BY <1>2, <1>3, <1>4, <1>5 DEF Pointer

\* The text of an entry, whole or cut: a name, a colon, an address and the end of a line.
LEMMA EntryFacts ==
    ASSUME NEW h \in Seq(Symbols), NEW a \in Seq(Symbols), NEW x, x = Entry(h, a)
    PROVE  /\ x \in Seq(Symbols) /\ Len(x) \in 1 .. EntryRoom
           /\ Len(x) = IF Len(h) + Len(a) + 2 <= EntryRoom THEN Len(h) + Len(a) + 2 ELSE EntryRoom
           /\ \A j \in 1 .. Len(x) :
                 /\ j <= Len(h) => x[j] = h[j]
                 /\ j = Len(h) + 1 => x[j] = ":"
                 /\ j > Len(h) + 1 /\ j < Len(h) + Len(a) + 2 => x[j] = a[j - Len(h) - 1]
                 /\ j = Len(h) + Len(a) + 2 => x[j] = "\n"
<1>. DEFINE c == <<":">>
            d == <<"\n">>
            u == h \o c
            v == u \o a
            w == v \o d
<1>1. Len(h) \in Nat /\ Len(a) \in Nat /\ EntryRoom \in Nat \ {0}
  BY ConstantsAssumption
<1>2. /\ c \in Seq(Symbols) /\ Len(c) = 1 /\ c[1] = ":"
      /\ d \in Seq(Symbols) /\ Len(d) = 1 /\ d[1] = "\n"
  BY DEF Symbols
<1>. HIDE DEF c, d
<1>3. /\ u \in Seq(Symbols) /\ Len(u) = Len(h) + Len(c)
      /\ \A i \in 1 .. Len(h) : u[i] = h[i]
      /\ \A i \in 1 .. Len(c) : u[i + Len(h)] = c[i]
  BY <1>2, ConcatFacts
<1>. HIDE DEF u
<1>4. /\ v \in Seq(Symbols) /\ Len(v) = Len(u) + Len(a)
      /\ \A i \in 1 .. Len(u) : v[i] = u[i]
      /\ \A i \in 1 .. Len(a) : v[i + Len(u)] = a[i]
  BY <1>3, ConcatFacts
<1>. HIDE DEF v
<1>5. /\ w \in Seq(Symbols) /\ Len(w) = Len(v) + Len(d)
      /\ \A i \in 1 .. Len(v) : w[i] = v[i]
      /\ \A i \in 1 .. Len(d) : w[i + Len(v)] = d[i]
  BY <1>2, <1>4, ConcatFacts
<1>6. Entry(h, a) = Cut(w, EntryRoom)
  BY Zenon DEF Entry, w, v, u, c, d
<1>. HIDE DEF w
<1>7. Len(u) = Len(h) + 1 /\ Len(v) = Len(h) + Len(a) + 1 /\ Len(w) = Len(h) + Len(a) + 2
  BY <1>1, <1>2, <1>3, <1>4, <1>5
<1>8. ASSUME NEW j \in 1 .. Len(w)
      PROVE  /\ j <= Len(h) => w[j] = h[j]
             /\ j = Len(h) + 1 => w[j] = ":"
             /\ j > Len(h) + 1 /\ j < Len(h) + Len(a) + 2 => w[j] = a[j - Len(h) - 1]
             /\ j = Len(h) + Len(a) + 2 => w[j] = "\n"
  <2>1. CASE j <= Len(h)
    <3>1. j \in 1 .. Len(h) /\ j \in 1 .. Len(u) /\ j \in 1 .. Len(v)
      BY <1>1, <1>7, <2>1
    <3>2. w[j] = h[j]
      BY <1>3, <1>4, <1>5, <3>1
    <3>. QED
      BY <1>1, <2>1, <3>2
  <2>2. CASE j = Len(h) + 1
    <3>1. j \in 1 .. Len(u) /\ j \in 1 .. Len(v) /\ j = 1 + Len(h) /\ 1 \in 1 .. Len(c)
      BY <1>1, <1>2, <1>7, <2>2
    <3>2. u[1 + Len(h)] = ":"
      BY <1>2, <1>3, <3>1
    <3>3. w[j] = ":"
      BY <1>4, <1>5, <3>1, <3>2
    <3>. QED
      BY <1>1, <2>2, <3>3
  <2>3. CASE j > Len(h) + 1 /\ j < Len(h) + Len(a) + 2
    <3>1. /\ j \in 1 .. Len(v) /\ j - Len(h) - 1 \in 1 .. Len(a)
          /\ j - Len(h) - 1 + Len(u) = j
      BY <1>1, <1>7, <2>3
    <3>2. v[j] = a[j - Len(h) - 1]
      BY <1>4, <3>1
    <3>3. w[j] = a[j - Len(h) - 1]
      BY <1>5, <3>1, <3>2
    <3>. QED
      BY <1>1, <2>3, <3>3
  <2>4. CASE j = Len(h) + Len(a) + 2
    <3>1. j = 1 + Len(v) /\ 1 \in 1 .. Len(d)
      BY <1>1, <1>2, <1>7, <2>4
    <3>2. w[j] = "\n"
      BY <1>2, <1>5, <3>1
    <3>. QED
      BY <1>1, <2>4, <3>2
  <2>5. Len(w) = Len(h) + Len(a) + 2
    BY <1>7
  <2>. QED
    BY <1>1, <2>1, <2>2, <2>3, <2>4, <2>5
<1>9. CASE Len(w) <= EntryRoom
  <2>1. x = w
    BY <1>6, <1>9 DEF Cut
  <2>2. x \in Seq(Symbols) /\ Len(x) = Len(h) + Len(a) + 2
    BY <1>5, <1>7, <2>1
  <2>3. Len(x) \in 1 .. EntryRoom /\ Len(h) + Len(a) + 2 <= EntryRoom
    BY <1>1, <1>7, <1>9, <2>2
  <2>. QED
    BY <1>8, <2>1, <2>2, <2>3
<1>10. CASE ~(Len(w) <= EntryRoom)
  <2>1. x = SubSeq(w, 1, EntryRoom)
    BY <1>6, <1>10 DEF Cut
  <2>2. EntryRoom \in Nat /\ 1 <= EntryRoom + 1 /\ EntryRoom <= Len(w) /\ 1 \in Nat \ {0}
    BY <1>1, <1>7, <1>10
  <2>3. /\ x \in Seq(Symbols) /\ Len(x) = EntryRoom + 1 - 1
        /\ \A k \in 1 .. EntryRoom + 1 - 1 : x[k] = w[1 + k - 1]
    BY <1>5, <2>1, <2>2, PartFacts
  <2>4. Len(x) = EntryRoom /\ \A k \in 1 .. EntryRoom : x[k] = w[k] /\ k \in 1 .. Len(w)
    BY <1>1, <1>7, <2>2, <2>3
  <2>. QED
    BY <1>1, <1>7, <1>8, <1>10, <2>3, <2>4
<1>. QED
  BY <1>9, <1>10

LEMMA AddressTyped == \A a \in Addresses : a \in Seq(Symbols) /\ Len(a) \in Nat \ {0}
<1>. SUFFICES ASSUME NEW a \in Addresses PROVE a \in Seq(Symbols) /\ Len(a) \in Nat \ {0}
  OBVIOUS
<1>1. a \in Seq(Digits) /\ a # <<>> /\ Digits \subseteq Symbols
  BY TextAssumption DEF Symbols
<1>2. a \in Seq(Symbols)
  BY <1>1, SeqMonotonic
<1>. QED
  BY <1>1, <1>2, EmptySeq

\* The entry a thread is about to write.
LEMMA NextEntry ==
    ASSUME TypeInvariant, TextInvariant, NEW t \in Threads, pc[t] = "add"
    PROVE  LET x == Entry(HostName(t), local[t].address)
           IN  x \in Seq(Symbols) /\ Len(x) \in 1 .. EntryRoom
<1>1. local[t].hostName # None /\ local[t].address \in Addresses
  BY DEF TextInvariant, TextOf, Parsed
<1>2. local[t].hostName.buf \in Buffers /\ local[t].hostName.at \in Nat \ {0}
  BY <1>1 DEF TypeInvariant, LocalTyped, TextInvariant, TextOf
<1>3. HostName(t) \in Seq(Symbols)
  BY <1>2, StringTyped DEF HostName, At, TextInvariant
<1>. QED
  BY <1>1, <1>3, AddressTyped, EntryFacts

\* A step of thread t leaves what the others point to.
LEMMA TextStep ==
    ASSUME TypeInvariant, TextInvariant, NEW t \in Threads, StepOf(t),
           \A b \in Buffers : text'[b] \in Seq(Symbols), dnsCache' \in Seq(Symbols),
           \/ saved'.at \in Nat \ {0}
           \/ saved' = saved /\ pc'[t] \notin {"url", "version", "line"},
           TextOf(t)'
    PROVE  TextInvariant'
<1>1. OthersAsBefore(t)
  BY OthersUntouched
<1>2. ASSUME NEW u \in Threads \ {t} PROVE TextOf(u)'
  <2>1. TextOf(u) /\ pc'[u] = pc[u] /\ local'[u] = local[u]
    BY <1>1 DEF OthersAsBefore, TextInvariant
  <2>. QED
    BY <2>1 DEF TextOf
<1>3. (\A u \in Threads : pc'[u] \notin {"url", "version", "line"}) \/ saved'.at \in Nat \ {0}
  BY <1>1 DEF OthersAsBefore, TextInvariant
<1>. QED
  BY <1>2, <1>3 DEF TextInvariant

LEMMA LeaveTexts ==
    ASSUME TypeInvariant, NEW t \in Threads, Leave(t)
    PROVE  TextOf(t)' /\ pc'[t] = "idle"
<1>1. pc'[t] = "idle" /\ local'[t] = Fresh
  BY DEF Leave, TypeInvariant
<1>. QED
  BY <1>1 DEF TextOf, Fresh, Parsed

\* A thread that goes on with the name it has.
LEMMA GoOnTexts ==
    ASSUME TypeInvariant, TextInvariant, NEW t \in Threads,
           pc[t] \in Parsed \cup {"line", "lineEnd"},
           pc'[t] \in Parsed \cup {"line"}, local'[t].hostName = local[t].hostName,
           pc'[t] = "add" => local'[t].address \in Addresses,
           pc'[t] = "write" =>
               local'[t].entry.rest \in Seq(Symbols) /\ local'[t].entry.rest # <<>>
    PROVE  TextOf(t)'
BY DEF TextInvariant, TextOf, Parsed

LEMMA AcceptTexts ==
    ASSUME TypeInvariant, TextInvariant, NEW t \in Threads, NEW r \in Requests, Accept(t, r)
    PROVE  TextInvariant'
<1>. DEFINE x == [RequestText(r) EXCEPT ![2] = Nul]
<1>1. /\ pc' = [pc EXCEPT ![t] = "url"] /\ local' = local /\ dnsCache' = dnsCache
      /\ text' = [text EXCEPT ![<<t, "receivedBuf">>] = x]
      /\ saved' = Pointer(<<t, "receivedBuf">>, 3)
  BY DEF Accept, Goto, dns
<1>2. x \in Seq(Symbols)
  BY RequestTextLine DEF RequestLine
<1>. HIDE DEF x
<1>3. \A b \in Buffers : text'[b] \in Seq(Symbols)
  BY <1>1, <1>2 DEF TextInvariant, TypeInvariant, SharedTyped
<1>4. saved'.at \in Nat \ {0} /\ dnsCache' \in Seq(Symbols)
  BY <1>1 DEF Pointer, TextInvariant
<1>5. TextOf(t)'
  <2>1. TextOf(t) /\ pc'[t] = "url"
    BY <1>1 DEF TextInvariant, TypeInvariant
  <2>. QED
    BY <1>1, <2>1 DEF TextOf, Parsed
<1>6. StepOf(t)
  BY DEF StepOf
<1>. QED
  BY <1>3, <1>4, <1>5, <1>6, TextStep

LEMMA LoadPositionTexts ==
    ASSUME TypeInvariant, TextInvariant, NEW t \in Threads,
           NEW from \in {"url", "version", "line"}, NEW to \in {"urlEnd", "versionEnd", "lineEnd"},
           to = "lineEnd" => from = "line", LoadPosition(t, from, to), StepOf(t)
    PROVE  TextInvariant'
<1>1. /\ pc[t] = from /\ pc' = [pc EXCEPT ![t] = to] /\ UNCHANGED <<text, saved, dnsCache>>
      /\ local' = [local EXCEPT ![t].cursor = saved]
  BY DEF LoadPosition, Goto, dns
<1>2. saved.at \in Nat \ {0} /\ TextOf(t) /\ LocalTyped(t)
  BY <1>1 DEF TextInvariant, TypeInvariant
<1>3. pc'[t] = to /\ local'[t] = [local[t] EXCEPT !.cursor = saved]
  BY <1>1 DEF TypeInvariant
<1>4. local'[t].hostName = local[t].hostName /\ local'[t].cursor = saved
  BY <1>2, <1>3 DEF LocalTyped
<1>5. TextOf(t)'
  BY <1>1, <1>2, <1>3, <1>4 DEF TextOf, Parsed
<1>6. (\A b \in Buffers : text'[b] \in Seq(Symbols)) /\ dnsCache' \in Seq(Symbols)
  BY <1>1 DEF TextInvariant
<1>. QED
  BY <1>1, <1>2, <1>5, <1>6, TextStep

LEMMA ReadTokenTexts ==
    ASSUME TypeInvariant, TextInvariant, NEW t \in Threads, NEW d, StepOf(t),
           \/ ReadToken(t, "urlEnd", "hostName", d, "version")
           \/ ReadToken(t, "versionEnd", "version", d, "parse")
    PROVE  TextInvariant'
<1>. DEFINE r == Strtok(local[t].cursor, d)
<1>1. PICK field \in {"hostName", "version"}, to \in {"version", "parse"} :
        /\ pc[t] \in {"urlEnd", "versionEnd"} /\ pc' = [pc EXCEPT ![t] = to]
        /\ local' = [local EXCEPT ![t][field] = r.token]
        /\ text' = r.text /\ saved' = r.next /\ dnsCache' = dnsCache
  BY DEF ReadToken, Goto, dns
<1>2. LocalTyped(t) /\ TextOf(t) /\ DOMAIN text = Buffers
  BY DEF TypeInvariant, SharedTyped, TextInvariant
<1>3. /\ r.next.at \in Nat \ {0} /\ (r.token # None => r.token \in [buf : Buffers, at : Nat \ {0}])
      /\ \A b \in Buffers : r.text[b] \in Seq(Symbols)
  <2>1. local[t].cursor.buf \in Buffers /\ local[t].cursor.at \in Nat \ {0}
    BY <1>1, <1>2 DEF LocalTyped, TextOf
  <2>. QED
    BY <1>2, <2>1, StrtokTexts DEF TextInvariant
<1>. HIDE DEF r
<1>4. TextOf(t)'
  <2>1. pc'[t] = to /\ local'[t] = [local[t] EXCEPT ![field] = r.token]
    BY <1>1 DEF TypeInvariant
  <2>2. local'[t].hostName \in {local[t].hostName, r.token}
    BY <1>2, <2>1 DEF LocalTyped
  <2>. QED
    BY <1>2, <1>3, <2>1, <2>2 DEF TextOf, Parsed
<1>5. dnsCache' \in Seq(Symbols)
  BY <1>1 DEF TextInvariant
<1>. QED
  BY <1>1, <1>3, <1>4, <1>5, TextStep

LEMMA ParseTexts ==
    ASSUME TypeInvariant, TextInvariant, NEW t \in Threads, Parse(t), StepOf(t)
    PROVE  TextInvariant'
<1>1. /\ saved' = saved /\ dnsCache' = dnsCache /\ dnsCache' \in Seq(Symbols)
      /\ LocalTyped(t) /\ TextOf(t) /\ DOMAIN pc = Threads /\ DOMAIN local = Threads
  BY DEF Parse, TypeInvariant, TextInvariant, dns
<1>2. CASE End(t) /\ UNCHANGED text
  BY <1>1, <1>2, LeaveTexts, TextStep DEF End, TextInvariant
<1>3. CASE ~(End(t) /\ UNCHANGED text)
  <2>. DEFINE p     == local[t].hostName
              at    == p.at + Place(<<"http://">>, At(p))
              host  == [p EXCEPT !.at = @ + Place(<<"http://">>, At(p))]
              url   == At(host)
              slash == Place(<<"/">>, url)
              name  == IF slash = 0 THEN url ELSE SubSeq(url, 1, slash - 1)
              file  == IF slash \in {0, Len(url)} THEN <<Default>>
                       ELSE SubSeq(url, slash + 1, Len(url))
              page  == name \o <<"/">> \o file
  <2>1. /\ GoodRequest(t) /\ pc' = [pc EXCEPT ![t] = "cache"]
        /\ local' = [local EXCEPT ![t].hostName = host, ![t].page = page]
        /\ text' = IF slash = 0 THEN text
                   ELSE [text EXCEPT ![host.buf][host.at + slash - 1] = Nul]
    BY <1>3, Zenon DEF Parse, Goto
  <2>2. p \in [buf : Buffers, at : Nat \ {0}]
    BY <1>1, <2>1 DEF GoodRequest, TextOf
  <2>. HIDE DEF url, slash, page
  <2>3. PICK i : text' = IF slash = 0 THEN text ELSE [text EXCEPT ![host.buf][i] = Nul]
    BY <2>1
  <2>4. \A b \in Buffers : text'[b] \in Seq(Symbols)
    <3>1. \A b \in Buffers : text[b] \in Seq(Symbols) /\ [text[b] EXCEPT ![i] = Nul] \in Seq(Symbols)
      BY NulWritten DEF TextInvariant
    <3>2. DOMAIN text = Buffers
      BY DEF TypeInvariant, SharedTyped
    <3>. QED
      BY <2>3, <3>1, <3>2
  <2>5. PICK k : k = Place(<<"http://">>, At(p)) /\ k \in Nat
    BY PlaceFacts
  <2>6. host # None /\ host \in [buf : Buffers, at : Nat \ {0}]
    <3>1. host = [p EXCEPT !.at = p.at + k]
      BY <2>5
    <3>2. p = [buf |-> p.buf, at |-> p.at]
      BY <2>2
    <3>3. host = [buf |-> p.buf, at |-> p.at + k]
      BY <3>1, <3>2
    <3>. QED
      BY <2>2, <2>5, <3>3, PointerAssumption
  <2>7. TextOf(t)'
    <3>. HIDE DEF host
    <3>1. pc'[t] = "cache" /\ local'[t].hostName = host
      BY <1>1, <2>1 DEF LocalTyped
    <3>. QED
      BY <2>6, <3>1 DEF TextOf
  <2>8. pc'[t] = "cache"
    BY <1>1, <2>1
  <2>. QED
    BY <1>1, <2>4, <2>7, <2>8, TextStep
<1>. QED
  BY <1>2, <1>3

\* What a lookup copies is a text, and what it finds in it as well.
LEMMA LookUpHostTexts ==
    ASSUME TypeInvariant, TextInvariant, NEW t \in Threads, LookUpHost(t), StepOf(t)
    PROVE  TextInvariant'
<1>. DEFINE b     == <<t, "tempBuf">>
            match == Place(HostName(t), dnsCache)
            first == Find(dnsCache, match, {":"})
            z     == [i \in DOMAIN dnsCache |-> IF i = first THEN Nul ELSE dnsCache[i]]
            next  == IF first <= Len(dnsCache) THEN first + 1 ELSE first
<1>1. /\ pc[t] = "dns" /\ local' = local /\ dnsCache' = dnsCache /\ dnsCache \in Seq(Symbols)
      /\ DOMAIN text = Buffers /\ DOMAIN pc = Threads /\ match \in Nat
      /\ \A c \in Buffers : text[c] \in Seq(Symbols)
  BY PlaceFacts DEF LookUpHost, TypeInvariant, SharedTyped, TextInvariant, dns
<1>2. \/ pc' = [pc EXCEPT ![t] = "resolve"] /\ UNCHANGED <<text, saved>>
      \/ /\ match # 0 /\ pc' = [pc EXCEPT ![t] = "line"]
         /\ text' = [text EXCEPT ![b] = z] /\ saved' = Pointer(b, next)
  BY DEF LookUpHost, Goto
<1>. HIDE DEF match
<1>3. match # 0 => first \in Nat \ {0}
  <2>. SUFFICES ASSUME match # 0 PROVE first \in Nat \ {0}
    OBVIOUS
  <2>1. Len(dnsCache) \in Nat /\ match \in Nat \ {0}
    BY <1>1
  <2>2. first \in match .. match + Len(dnsCache)
    BY <1>1, <2>1, FindFacts
  <2>. HIDE DEF first
  <2>. QED
    BY <2>1, <2>2
<1>4. z \in Seq(Symbols)
  BY <1>1, CopyFacts
<1>5. match # 0 => Pointer(b, next).at \in Nat \ {0}
  <2>. HIDE DEF first
  <2>. QED
    BY <1>1, <1>3 DEF Pointer
<1>. HIDE DEF z, first, next
<1>6. \A c \in Buffers : text'[c] \in Seq(Symbols)
  BY <1>1, <1>2, <1>4
<1>7. \/ pc'[t] = "resolve" /\ saved' = saved
      \/ pc'[t] = "line" /\ saved'.at \in Nat \ {0}
  <2>0. DOMAIN pc = Threads
    BY <1>1
  <2>1. CASE pc' = [pc EXCEPT ![t] = "resolve"] /\ saved' = saved
    BY <2>0, <2>1
  <2>2. CASE match # 0 /\ pc' = [pc EXCEPT ![t] = "line"] /\ saved' = Pointer(b, next)
    BY <2>0, <1>5, <2>2
  <2>. QED
    BY <1>2, <2>1, <2>2
<1>8. TextOf(t)'
  BY <1>1, <1>7, GoOnTexts DEF Parsed
<1>. QED
  BY <1>1, <1>6, <1>7, <1>8, TextStep

LEMMA ReadLineTexts ==
    ASSUME TypeInvariant, TextInvariant, NEW t \in Threads, ReadLine(t), StepOf(t)
    PROVE  TextInvariant'
<1>. DEFINE r    == Strtok(local[t].cursor, "\n")
            line == String(r.text[r.token.buf], r.token.at)
            a    == IF line \in Addresses THEN line ELSE Unset
<1>1. /\ pc[t] = "lineEnd" /\ saved' = r.next /\ text' = [r.text EXCEPT ![<<t, "tempBuf">>] = <<>>]
      /\ dnsCache' = dnsCache /\ dnsCache' \in Seq(Symbols)
      /\ \/ Leave(t)
         \/ /\ local' = [local EXCEPT ![t].address = a]
            /\ \E label \in {"list", "resolve"} : pc' = [pc EXCEPT ![t] = label]
  BY DEF ReadLine, dns, End, Goto, TextInvariant
<1>. HIDE DEF a
<1>2. /\ DOMAIN text = Buffers /\ DOMAIN r.text = Buffers /\ LocalTyped(t) /\ TextOf(t)
      /\ local[t].cursor.buf \in Buffers /\ local[t].cursor.at \in Nat \ {0}
  <2>1. LocalTyped(t) /\ TextOf(t) /\ DOMAIN text = Buffers
    BY DEF TypeInvariant, SharedTyped, TextInvariant
  <2>2. local[t].cursor.buf \in Buffers /\ local[t].cursor.at \in Nat \ {0}
    BY <1>1, <2>1 DEF LocalTyped, TextOf
  <2>. QED
    BY <2>1, <2>2, StrtokTyped
<1>3. r.next.at \in Nat \ {0} /\ \A b \in Buffers : r.text[b] \in Seq(Symbols)
  BY <1>2, StrtokTexts DEF TextInvariant
<1>. HIDE DEF r
<1>4. <<>> \in Seq(Symbols) /\ \A b \in Buffers : text'[b] \in Seq(Symbols)
  BY <1>1, <1>2, <1>3
<1>5. TextOf(t)'
  <2>1. CASE Leave(t)
    BY <2>1, LeaveTexts
  <2>2. CASE ~Leave(t)
    <3>1. local'[t] = [local[t] EXCEPT !.address = a] /\ pc'[t] \in {"list", "resolve"}
      BY <1>1, <2>2 DEF TypeInvariant
    <3>2. local'[t].hostName = local[t].hostName
      BY <1>2, <3>1 DEF LocalTyped
    <3>. QED
      BY <1>1, <3>1, <3>2, GoOnTexts DEF Parsed
  <2>. QED
    BY <2>1, <2>2
<1>. QED
  BY <1>1, <1>3, <1>4, <1>5, TextStep

\* The entry is a text, and so is what is left of it and what it is written into.
LEMMA AddTexts ==
    ASSUME TypeInvariant, TextInvariant, NEW t \in Threads, AddIpToCache(t), StepOf(t)
    PROVE  TextInvariant'
<1>. DEFINE enter == Place(<<"\n">>, dnsCache)
            entry == Entry(HostName(t), local[t].address)
            full  == enter # 0 /\ enter + Len(entry) > TextRoom
            e     == [at |-> enter + 1, rest |-> entry]
            label == IF full THEN "list" ELSE "write"
<1>1. /\ pc[t] = "add" /\ UNCHANGED <<text, saved, dnsCache>>
      /\ local' = IF full THEN local ELSE [local EXCEPT ![t].entry = e]
      /\ pc' = [pc EXCEPT ![t] = label]
  BY DEF AddIpToCache, Goto
<1>2. entry \in Seq(Symbols) /\ entry # <<>>
  <2>1. entry \in Seq(Symbols) /\ Len(entry) \in 1 .. EntryRoom
    BY <1>1, NextEntry
  <2>. HIDE DEF entry
  <2>. QED
    BY <2>1
<1>3. e.rest = entry
  OBVIOUS
<1>. HIDE DEF full, entry, e
<1>4. LocalTyped(t) /\ pc'[t] = label /\ local'[t] = IF full THEN local[t] ELSE [local[t] EXCEPT !.entry = e]
  BY <1>1 DEF TypeInvariant
<1>5. /\ pc'[t] \in {"list", "write"} /\ local'[t].hostName = local[t].hostName
      /\ pc'[t] = "write" => local'[t].entry = e
  BY <1>4 DEF LocalTyped
<1>6. TextOf(t)'
  BY <1>1, <1>2, <1>3, <1>5, GoOnTexts DEF Parsed
<1>7. (\A b \in Buffers : text'[b] \in Seq(Symbols)) /\ dnsCache' \in Seq(Symbols)
  BY <1>1 DEF TextInvariant
<1>. QED
  BY <1>1, <1>5, <1>6, <1>7, TextStep

LEMMA WriteTexts ==
    ASSUME TypeInvariant, TextInvariant, NEW t \in Threads, WriteEntry(t), StepOf(t)
    PROVE  TextInvariant'
<1>. DEFINE e    == local[t].entry
            next == [at |-> e.at + 1, rest |-> Tail(e.rest)]
            done == Len(e.rest) = 1
            label == IF done THEN "list" ELSE "write"
<1>1. /\ pc[t] = "write" /\ UNCHANGED <<text, saved>>
      /\ dnsCache' = IF e.at > Len(dnsCache) THEN Append(dnsCache, Head(e.rest))
                     ELSE [dnsCache EXCEPT ![e.at] = Head(e.rest)]
      /\ local' = [local EXCEPT ![t].entry = IF done THEN Fresh.entry ELSE next]
      /\ pc' = [pc EXCEPT ![t] = label]
  BY DEF WriteEntry, Goto
<1>2. /\ e.rest \in Seq(Symbols) /\ e.rest # <<>> /\ e.at \in Nat \ {0}
      /\ dnsCache \in Seq(Symbols) /\ LocalTyped(t)
  <2>1. TextOf(t) /\ LocalTyped(t)
    BY DEF TextInvariant, TypeInvariant
  <2>. QED
    BY <1>1, <2>1 DEF TextOf, LocalTyped, TextInvariant
<1>3. /\ Head(e.rest) \in Symbols /\ Tail(e.rest) \in Seq(Symbols)
      /\ ~done => Tail(e.rest) # <<>>
  <2>. DEFINE x == e.rest
  <2>1. x \in Seq(Symbols) /\ x # <<>>
    BY <1>2
  <2>. HIDE DEF x
  <2>2. /\ Head(x) \in Symbols /\ Tail(x) \in Seq(Symbols)
        /\ Len(x) \in Nat /\ Len(Tail(x)) = Len(x) - 1
    BY <2>1, HeadTailProperties
  <2>3. ASSUME Tail(x) = <<>> PROVE Len(x) = 1
    <3>1. PICK k, m : k = Len(x) /\ m = Len(Tail(x))
      OBVIOUS
    <3>2. m = 0
      BY <2>3, <3>1, EmptySeq
    <3>3. k \in Nat /\ m = k - 1
      BY <2>2, <3>1
    <3>4. k = 1
      BY <3>2, <3>3
    <3>. QED
      BY <3>1, <3>4
  <2>. QED
    BY <2>2, <2>3 DEF x
<1>4. dnsCache' \in Seq(Symbols)
  <2>1. CASE e.at > Len(dnsCache)
    BY <1>1, <1>2, <1>3, <2>1, AppendProperties
  <2>2. CASE ~(e.at > Len(dnsCache))
    <3>1. e.at \in 1 .. Len(dnsCache)
      BY <1>2, <2>2
    <3>. QED
      BY <1>1, <1>2, <1>3, <2>2, <3>1, ExceptSeq
  <2>. QED
    BY <2>1, <2>2
<1>5. /\ pc'[t] = label /\ local'[t].hostName = local[t].hostName
      /\ local'[t].entry = IF done THEN Fresh.entry ELSE next
  <2>1. pc'[t] = label /\ local'[t] = [local[t] EXCEPT !.entry = IF done THEN Fresh.entry ELSE next]
    BY <1>1 DEF TypeInvariant
  <2>. QED
    BY <1>2, <2>1 DEF LocalTyped
<1>6. next.rest = Tail(e.rest)
  OBVIOUS
<1>. HIDE DEF done, next, e
<1>7. TextOf(t)'
  <2>1. pc'[t] = "write" => local'[t].entry.rest = Tail(e.rest) /\ Tail(e.rest) # <<>>
    BY <1>3, <1>5, <1>6
  <2>2. pc'[t] \in {"list", "write"}
    BY <1>5
  <2>. QED
    BY <1>1, <1>3, <1>5, <2>1, <2>2, GoOnTexts DEF Parsed
<1>8. \A b \in Buffers : text'[b] \in Seq(Symbols)
  BY <1>1 DEF TextInvariant
<1>. QED
  BY <1>1, <1>4, <1>5, <1>7, <1>8, TextStep

\* The other steps of a thread that has parsed its request.
LEMMA SearchTexts ==
    ASSUME TypeInvariant, TextInvariant, NEW t \in Threads, StepOf(t),
           LookUpPage(t) \/ Resolve(t) \/ CopyAddress(t) \/ CheckBlacklist(t) \/ Fetch(t)
    PROVE  TextInvariant'
<1>1. /\ saved' = saved /\ dnsCache' = dnsCache /\ dnsCache' \in Seq(Symbols)
      /\ DOMAIN text = Buffers /\ DOMAIN pc = Threads /\ DOMAIN local = Threads
      /\ pc[t] \in Parsed /\ LocalTyped(t)
      /\ text' = text \/ text' = [text EXCEPT ![<<t, "receivedBuf">>] = <<>>]
  BY DEF LookUpPage, Resolve, CopyAddress, CheckBlacklist, Fetch, TypeInvariant, SharedTyped,
         TextInvariant, dns, Parsed
<1>2. \A b \in Buffers : text'[b] \in Seq(Symbols)
  <2>1. <<>> \in Seq(Symbols) /\ \A b \in Buffers : text[b] \in Seq(Symbols)
    BY DEF TextInvariant
  <2>. QED
    BY <1>1, <2>1
<1>3. CASE Leave(t)
  BY <1>1, <1>2, <1>3, LeaveTexts, TextStep
<1>4. CASE CopyAddress(t)
  <2>1. pc'[t] = "add" /\ local'[t] = [local[t] EXCEPT !.address = hostent] /\ pc[t] = "copy"
    BY <1>1, <1>4 DEF CopyAddress, Goto
  <2>2. local'[t].hostName = local[t].hostName /\ local'[t].address \in Addresses
    BY <1>1, <2>1 DEF LocalTyped, TypeInvariant, SharedTyped
  <2>3. TextOf(t)'
    BY <1>1, <2>1, <2>2, GoOnTexts DEF Parsed
  <2>. QED
    BY <1>1, <1>2, <2>1, <2>3, TextStep
<1>5. CASE ~Leave(t) /\ ~CopyAddress(t)
  <2>1. local' = local /\ pc'[t] \in {"dns", "copy", "fetch"}
    BY <1>1, <1>5 DEF LookUpPage, Resolve, CheckBlacklist, Fetch, Goto, Send, End
  <2>2. TextOf(t)'
    BY <1>1, <2>1, GoOnTexts DEF Parsed
  <2>. QED
    BY <1>1, <1>2, <2>1, <2>2, TextStep
<1>. QED
  BY <1>3, <1>4, <1>5

LEMMA TextInvariantHolds == Spec => []TextInvariant
<1>1. Init => TextInvariant
  <2> SUFFICES ASSUME Init PROVE TextInvariant
    OBVIOUS
  <2>1. \A t \in Threads : TextOf(t)
    BY DEF Init, TextOf, Fresh, Parsed
  <2>. QED
    BY <2>1 DEF Init, TextInvariant
<1>2. TypeInvariant /\ TextInvariant /\ [Next]_vars => TextInvariant'
  <2> SUFFICES ASSUME TypeInvariant, TextInvariant, [Next]_vars PROVE TextInvariant'
    OBVIOUS
  <2>1. CASE UNCHANGED vars
    BY <2>1 DEF vars, dns, TextInvariant, TextOf
  <2>2. ASSUME NEW t \in Threads, NEW r \in Requests, Accept(t, r)
        PROVE  TextInvariant'
    BY <2>2, AcceptTexts
  <2>3. ASSUME NEW t \in Threads, ThreadStep(t)
        PROVE  TextInvariant'
    <3>0. StepOf(t)
      BY <2>3 DEF StepOf
    <3>1. CASE LoadPosition(t, "url", "urlEnd") \/ LoadPosition(t, "version", "versionEnd")
      BY <3>0, <3>1, LoadPositionTexts
    <3>2. CASE LoadPosition(t, "line", "lineEnd")
      BY <3>0, <3>2, LoadPositionTexts
    <3>3. CASE \/ ReadToken(t, "urlEnd", "hostName", Space, "version")
               \/ ReadToken(t, "versionEnd", "version", "\r", "parse")
      BY <3>0, <3>3, ReadTokenTexts
    <3>. QED
      BY <2>3, <3>0, <3>1, <3>2, <3>3, ParseTexts, LookUpHostTexts, ReadLineTexts, AddTexts,
         WriteTexts, SearchTexts DEF ThreadStep
  <2>4. ASSUME NEW line \in Lines, Forbid(line)
        PROVE  TextInvariant'
    BY <2>4 DEF Forbid, dns, TextInvariant, TextOf
  <2>. QED
    BY <2>1, <2>2, <2>3, <2>4 DEF Next
<1>. QED
  BY <1>1, <1>2, TypeInvariantHolds, PTL DEF Spec

-----------------------------------------------------------------------------
(* The lock and the blacklist. *)

\* A step of thread t leaves the variables of the others as they are.
OthersUnchanged(t) ==
    /\ OfThreads'
    /\ \A u \in Threads \ {t} :
        pc'[u] = pc[u] /\ local'[u] = local[u] /\ barred'[u] = barred[u]

LEMMA GotoFacts ==
    ASSUME OfThreads, NEW t \in Threads, NEW label, Goto(t, label)
    PROVE  /\ DOMAIN pc' = Threads
           /\ pc'[t] = label
           /\ \A u \in Threads \ {t} : pc'[u] = pc[u]
BY DEF OfThreads, Goto

LEMMA LeaveFacts ==
    ASSUME OfThreads, NEW t \in Threads, Leave(t)
    PROVE  OthersUnchanged(t) /\ pc'[t] = "idle" /\ barred'[t] = {}
BY DEF OfThreads, OthersUnchanged, Leave

\* A step that does not touch the lock and does not begin to write or to fetch keeps
\* the invariant.
LEMMA QuietStep ==
    ASSUME LookupInvariant, NEW t \in Threads, OthersUnchanged(t),
           dnsLock' = dnsLock, blacklist' = blacklist,
           pc[t] # "write", pc'[t] \notin {"write", "fetch"},
           barred'[t] \subseteq blacklist
    PROVE  LookupInvariant'
BY DEF LookupInvariant, LockHeldByWriter, CheckedBeforeFetch, OthersUnchanged

LEMMA EndKeeps ==
    ASSUME LookupInvariant, NEW t \in Threads, Leave(t), pc[t] # "write",
           dnsLock' = dnsLock, blacklist' = blacklist
    PROVE  LookupInvariant'
<1>1. OfThreads
  BY DEF LookupInvariant
<1>. QED
  BY <1>1, LeaveFacts, QuietStep

LEMMA GotoKeeps ==
    ASSUME LookupInvariant, NEW t \in Threads, NEW label, Goto(t, label),
           DOMAIN local' = Threads, \A u \in Threads \ {t} : local'[u] = local[u],
           pc[t] # "write", label \notin {"write", "fetch"},
           UNCHANGED <<clients, dnsLock, blacklist>>
    PROVE  LookupInvariant'
<1>1. OfThreads /\ barred' = barred /\ barred[t] \subseteq blacklist
  BY DEF LookupInvariant, CheckedBeforeFetch, clients
<1>2. OthersUnchanged(t) /\ pc'[t] = label
  BY <1>1, GotoFacts DEF OthersUnchanged, OfThreads
<1>. QED
  BY <1>1, <1>2, QuietStep

LEMMA AcceptKeeps ==
    ASSUME LookupInvariant, NEW t \in Threads, NEW r \in Requests, Accept(t, r)
    PROVE  LookupInvariant'
<1>1. OfThreads /\ Goto(t, "url") /\ barred' = [barred EXCEPT ![t] = blacklist]
        /\ pc[t] = "idle" /\ UNCHANGED <<local, dns, blacklist>>
  BY DEF LookupInvariant, Accept
<1>2. OthersUnchanged(t) /\ pc'[t] = "url" /\ barred'[t] = blacklist
  BY <1>1, GotoFacts DEF OthersUnchanged, OfThreads
<1>. QED
  BY <1>1, <1>2, QuietStep DEF dns

LEMMA LoadPositionKeeps ==
    ASSUME LookupInvariant, NEW t \in Threads,
           NEW from, NEW to, from # "write", to \notin {"write", "fetch"},
           LoadPosition(t, from, to)
    PROVE  LookupInvariant'
<1>1. /\ DOMAIN local' = Threads /\ \A u \in Threads \ {t} : local'[u] = local[u]
      /\ Goto(t, to) /\ pc[t] # "write" /\ UNCHANGED <<clients, dnsLock, blacklist>>
  BY DEF LookupInvariant, OfThreads, LoadPosition, dns
<1>. QED
  BY <1>1, GotoKeeps

LEMMA ReadTokenKeeps ==
    ASSUME LookupInvariant, NEW t \in Threads, NEW field, NEW d,
           NEW from, NEW to, from # "write", to \notin {"write", "fetch"},
           ReadToken(t, from, field, d, to)
    PROVE  LookupInvariant'
<1>1. /\ DOMAIN local' = Threads /\ \A u \in Threads \ {t} : local'[u] = local[u]
      /\ Goto(t, to) /\ pc[t] # "write" /\ UNCHANGED <<clients, dnsLock, blacklist>>
  BY DEF LookupInvariant, OfThreads, ReadToken, dns
<1>. QED
  BY <1>1, GotoKeeps

\* The steps that parse a request and look its host up.
LEMMA LookUpKeeps ==
    ASSUME LookupInvariant, NEW t \in Threads,
           \/ Parse(t) \/ LookUpPage(t) \/ LookUpHost(t) \/ ReadLine(t)
           \/ Resolve(t) \/ CopyAddress(t)
    PROVE  LookupInvariant'
<1>0. OfThreads
  BY DEF LookupInvariant
<1>1. CASE Parse(t)
  <2>1. UNCHANGED <<dnsLock, blacklist>> /\ pc[t] # "write"
    BY <1>1 DEF Parse, dns
  <2>2. CASE End(t)
    BY <2>1, <2>2, EndKeeps DEF End
  <2>3. CASE ~End(t)
    <3>1. /\ Goto(t, "cache") /\ UNCHANGED clients
          /\ DOMAIN local' = Threads /\ \A u \in Threads \ {t} : local'[u] = local[u]
      BY <1>0, <1>1, <2>3 DEF OfThreads, Parse
    <3>. QED
      BY <2>1, <3>1, GotoKeeps
  <2>. QED
    BY <2>2, <2>3
<1>2. CASE LookUpPage(t)
  <2>1. UNCHANGED <<dnsLock, blacklist>> /\ pc[t] # "write"
    BY <1>2 DEF LookUpPage, dns
  <2>2. CASE Leave(t)
    BY <2>1, <2>2, EndKeeps
  <2>3. CASE ~Leave(t)
    <3>1. /\ Goto(t, "dns") /\ UNCHANGED clients
          /\ DOMAIN local' = Threads /\ \A u \in Threads \ {t} : local'[u] = local[u]
      BY <1>0, <1>2, <2>3 DEF OfThreads, LookUpPage, Send
    <3>. QED
      BY <2>1, <3>1, GotoKeeps
  <2>. QED
    BY <2>2, <2>3
<1>3. CASE LookUpHost(t)
  <2>1. /\ UNCHANGED <<clients, dnsLock, blacklist>> /\ pc[t] # "write"
        /\ DOMAIN local' = Threads /\ \A u \in Threads \ {t} : local'[u] = local[u]
    BY <1>0, <1>3 DEF OfThreads, LookUpHost, dns
  <2>2. Goto(t, "resolve") \/ Goto(t, "line")
    BY <1>3 DEF LookUpHost
  <2>. QED
    BY <2>1, <2>2, GotoKeeps
<1>4. CASE ReadLine(t)
  <2>1. UNCHANGED <<dnsLock, blacklist>> /\ pc[t] # "write"
    BY <1>4 DEF ReadLine, dns
  <2>2. CASE End(t)
    BY <2>1, <2>2, EndKeeps DEF End
  <2>3. CASE ~End(t)
    <3>1. /\ Goto(t, "list") \/ Goto(t, "resolve")
          /\ UNCHANGED clients
          /\ DOMAIN local' = Threads /\ \A u \in Threads \ {t} : local'[u] = local[u]
      BY <1>0, <1>4, <2>3 DEF OfThreads, ReadLine
    <3>. QED
      BY <2>1, <3>1, GotoKeeps
  <2>. QED
    BY <2>2, <2>3
<1>5. CASE Resolve(t)
  <2>1. UNCHANGED <<dnsLock, blacklist>> /\ pc[t] # "write"
    BY <1>5 DEF Resolve, dns
  <2>2. CASE End(t)
    BY <2>1, <2>2, EndKeeps DEF End
  <2>3. CASE ~End(t)
    <3>1. /\ Goto(t, "copy") /\ UNCHANGED clients
          /\ DOMAIN local' = Threads /\ \A u \in Threads \ {t} : local'[u] = local[u]
      BY <1>0, <1>5, <2>3 DEF OfThreads, Resolve
    <3>. QED
      BY <2>1, <3>1, GotoKeeps
  <2>. QED
    BY <2>2, <2>3
<1>6. CASE CopyAddress(t)
  <2>1. /\ UNCHANGED <<clients, dnsLock, blacklist>> /\ pc[t] # "write" /\ Goto(t, "add")
        /\ DOMAIN local' = Threads /\ \A u \in Threads \ {t} : local'[u] = local[u]
    BY <1>0, <1>6 DEF OfThreads, CopyAddress, dns
  <2>. QED
    BY <2>1, GotoKeeps
<1>. QED
  BY <1>1, <1>2, <1>3, <1>4, <1>5, <1>6

\* addIpToCache finds room for the entry, so it does write.
LEMMA EntryHasRoom ==
    ASSUME TypeInvariant, TextInvariant, RoomInvariant, NEW t \in Threads, AddIpToCache(t)
    PROVE  LET entry == Entry(HostName(t), local[t].address)
           IN  /\ entry \in Seq(Symbols) /\ Len(entry) \in 1 .. EntryRoom
               /\ dnsLock = None /\ dnsLock' = t
               /\ pc' = [pc EXCEPT ![t] = "write"] /\ pc'[t] = "write"
               /\ local' = [local EXCEPT ![t].entry = [at |-> FirstLine + 1, rest |-> entry]]
               /\ local'[t].entry = [at |-> FirstLine + 1, rest |-> entry]
<1>. DEFINE entry == Entry(HostName(t), local[t].address)
            full  == FirstLine # 0 /\ FirstLine + Len(entry) > TextRoom
            e     == [at |-> FirstLine + 1, rest |-> entry]
<1>1. pc[t] = "add" /\ dnsLock = None /\ dnsLock' = t
  BY DEF AddIpToCache
<1>2. /\ local' = IF full THEN local ELSE [local EXCEPT ![t].entry = e]
      /\ pc' = [pc EXCEPT ![t] = IF full THEN "list" ELSE "write"]
  BY DEF AddIpToCache, Goto, FirstLine
<1>3. entry \in Seq(Symbols) /\ Len(entry) \in 1 .. EntryRoom
  BY <1>1, NextEntry
<1>. HIDE DEF entry
<1>4. ~full
  <2>1. FirstLine \in Nat
    BY PlaceFacts DEF FirstLine
  <2>. QED
    BY <1>3, <2>1, ConstantsAssumption DEF RoomInvariant
<1>. HIDE DEF e, full
<1>5. local' = [local EXCEPT ![t].entry = e] /\ pc' = [pc EXCEPT ![t] = "write"]
  BY <1>2, <1>4
<1>6. local'[t].entry = e /\ pc'[t] = "write"
  <2>1. LocalTyped(t) /\ local'[t] = [local[t] EXCEPT !.entry = e]
    BY <1>5 DEF TypeInvariant
  <2>. QED
    BY <1>5, <2>1 DEF TypeInvariant, LocalTyped
<1>. QED
  BY <1>1, <1>3, <1>5, <1>6 DEF e, entry

\* addIpToCache: the lock is taken by who begins to write, and left with the last symbol.
LEMMA AddKeeps ==
    ASSUME LookupInvariant, TypeInvariant, TextInvariant, RoomInvariant,
           NEW t \in Threads, AddIpToCache(t) \/ WriteEntry(t)
    PROVE  LookupInvariant'
<1>1. OfThreads /\ barred' = barred /\ blacklist' = blacklist
  BY DEF LookupInvariant, AddIpToCache, WriteEntry, clients
<1>2. DOMAIN local' = Threads /\ \A u \in Threads \ {t} : local'[u] = local[u]
  BY <1>1 DEF OfThreads, AddIpToCache, WriteEntry
<1>3. PICK label \in {"write", "list"} : Goto(t, label)
  BY DEF AddIpToCache, WriteEntry
<1>4. OthersUnchanged(t) /\ pc'[t] = label
  BY <1>1, <1>2, <1>3, GotoFacts DEF OthersUnchanged, OfThreads
<1>5. CheckedBeforeFetch'
  BY <1>1, <1>4 DEF LookupInvariant, CheckedBeforeFetch, OthersUnchanged
<1>6. LockHeldByWriter'
  <2>1. CASE AddIpToCache(t)
    <3>1. dnsLock = None /\ dnsLock' = t /\ pc'[t] = "write"
      BY <1>1, <2>1, EntryHasRoom
    <3>. QED
      BY <1>4, <3>1, ConstantsAssumption DEF LookupInvariant, LockHeldByWriter, OthersUnchanged
  <2>2. CASE WriteEntry(t)
    <3>1. dnsLock = t
      BY <2>2 DEF LookupInvariant, LockHeldByWriter, WriteEntry
    <3>2. \/ dnsLock' = None /\ pc'[t] = "list"
          \/ dnsLock' = dnsLock /\ pc'[t] = "write"
      BY <1>1, <2>2, GotoFacts DEF WriteEntry
    <3>. QED
      BY <1>4, <3>1, <3>2, ConstantsAssumption
      DEF LookupInvariant, LockHeldByWriter, OthersUnchanged
  <2>. QED
    BY <2>1, <2>2
<1>. QED
  BY <1>4, <1>5, <1>6 DEF LookupInvariant, OthersUnchanged

\* The blacklist is asked last, so what it says holds of who goes on to fetch.
LEMMA CheckBlacklistKeeps ==
    ASSUME LookupInvariant, NEW t \in Threads, CheckBlacklist(t)
    PROVE  LookupInvariant'
<1>1. OfThreads /\ UNCHANGED <<dnsLock, blacklist>> /\ pc[t] = "list"
  BY DEF LookupInvariant, CheckBlacklist, dns
<1>2. CASE End(t)
  BY <1>1, <1>2, EndKeeps DEF End
<1>3. CASE ~End(t)
  <2>1. Goto(t, "fetch") /\ UNCHANGED <<local, clients>> /\ ~IsBlackListed(t)
    BY <1>3 DEF CheckBlacklist
  <2>2. OthersUnchanged(t) /\ pc'[t] = "fetch" /\ barred' = barred
    BY <1>1, <2>1, GotoFacts DEF OthersUnchanged, OfThreads, clients
  <2>3. \A line \in barred[t] : ~Occurs(local[t].address, line)
    BY <2>1 DEF LookupInvariant, CheckedBeforeFetch, IsBlackListed
  <2>4. CheckedBeforeFetch'
    BY <1>1, <2>1, <2>2, <2>3 DEF LookupInvariant, CheckedBeforeFetch, OthersUnchanged
  <2>5. LockHeldByWriter'
    BY <1>1, <2>2 DEF LookupInvariant, LockHeldByWriter, OthersUnchanged
  <2>. QED
    BY <2>2, <2>4, <2>5 DEF LookupInvariant, OthersUnchanged
<1>. QED
  BY <1>2, <1>3

LEMMA FetchKeeps ==
    ASSUME LookupInvariant, NEW t \in Threads, Fetch(t)
    PROVE  LookupInvariant'
<1>1. Leave(t) /\ pc[t] # "write" /\ UNCHANGED <<dnsLock, blacklist>>
  BY DEF Fetch, Send, dns
<1>. QED
  BY <1>1, EndKeeps

LEMMA ForbidKeeps ==
    ASSUME LookupInvariant, NEW line \in Lines, Forbid(line)
    PROVE  LookupInvariant'
<1>1. /\ UNCHANGED <<pc, local, barred, dnsLock>> /\ blacklist \subseteq blacklist'
  BY DEF Forbid, clients, dns
<1>. QED
  BY <1>1 DEF LookupInvariant, OfThreads, LockHeldByWriter, CheckedBeforeFetch

\* One symbol of an entry is written, behind the last or over an older one.
LEMMA SymbolWritten ==
    ASSUME TextInvariant, TypeInvariant, RoomInvariant, NEW t \in Threads, WriteEntry(t)
    PROVE  LET e == local[t].entry
           IN  /\ e.rest \in Seq(Symbols) /\ Len(e.rest) \in Nat \ {0}
               /\ e.at \in 1 .. Len(dnsCache) + 1
               /\ dnsCache \in Seq(Symbols) /\ dnsCache' \in Seq(Symbols)
               /\ Len(dnsCache') = IF e.at > Len(dnsCache) THEN Len(dnsCache) + 1
                                   ELSE Len(dnsCache)
               /\ \A i \in 1 .. Len(dnsCache') :
                     dnsCache'[i] = IF i = e.at THEN e.rest[1] ELSE dnsCache[i]
               /\ Len(e.rest) = 1 => pc'[t] = "list" /\ dnsLock' = None
               /\ Len(e.rest) # 1 =>
                     /\ pc'[t] = "write" /\ dnsLock' = dnsLock
                     /\ local'[t].entry = [at |-> e.at + 1, rest |-> Tail(e.rest)]
                     /\ Tail(e.rest) \in Seq(Symbols) /\ Len(Tail(e.rest)) = Len(e.rest) - 1
                     /\ \A i \in 1 .. Len(e.rest) - 1 : Tail(e.rest)[i] = e.rest[i + 1]
<1>. DEFINE e == local[t].entry
            x == e.rest
<1>1. /\ pc[t] = "write"
      /\ dnsCache' = IF e.at > Len(dnsCache) THEN Append(dnsCache, Head(x))
                     ELSE [dnsCache EXCEPT ![e.at] = Head(x)]
      /\ local' = [local EXCEPT ![t].entry =
            IF Len(x) = 1 THEN Fresh.entry ELSE [at |-> e.at + 1, rest |-> Tail(x)]]
      /\ dnsLock' = IF Len(x) = 1 THEN None ELSE dnsLock
      /\ pc' = [pc EXCEPT ![t] = IF Len(x) = 1 THEN "list" ELSE "write"]
  BY DEF WriteEntry, Goto
<1>2. /\ x \in Seq(Symbols) /\ x # <<>> /\ e.at \in Nat \ {0} /\ e.at <= Len(dnsCache) + 1
      /\ dnsCache \in Seq(Symbols) /\ LocalTyped(t)
  <2>1. TextOf(t) /\ LocalTyped(t)
    BY DEF TextInvariant, TypeInvariant
  <2>. QED
    BY <1>1, <2>1 DEF TextOf, LocalTyped, TextInvariant, RoomInvariant
<1>3. /\ Len(x) \in Nat \ {0} /\ Head(x) = x[1] /\ x[1] \in Symbols
      /\ Tail(x) \in Seq(Symbols) /\ Len(Tail(x)) = Len(x) - 1
      /\ \A i \in 1 .. Len(x) - 1 : Tail(x)[i] = x[i + 1]
  <2>1. x \in Seq(Symbols) /\ x # <<>>
    BY <1>2
  <2>. HIDE DEF x
  <2>2. Len(x) \in Nat \ {0} /\ Head(x) = x[1] /\ Head(x) \in Symbols
    BY <2>1, EmptySeq
  <2>3. /\ Tail(x) \in Seq(Symbols) /\ Len(Tail(x)) = Len(x) - 1
        /\ \A i \in 1 .. Len(x) - 1 : Tail(x)[i] = x[i + 1]
    BY <2>1, <2>2, HeadTailProperties
  <2>. QED
    BY <2>2, <2>3
<1>4. Len(dnsCache) \in Nat /\ e.at \in 1 .. Len(dnsCache) + 1
  BY <1>2
<1>5. /\ pc'[t] = IF Len(x) = 1 THEN "list" ELSE "write"
      /\ Len(x) # 1 => local'[t].entry = [at |-> e.at + 1, rest |-> Tail(x)]
  <2>1. DOMAIN pc = Threads /\ DOMAIN local = Threads
    BY DEF TypeInvariant
  <2>2. CASE Len(x) # 1
    <3>1. local' = [local EXCEPT ![t].entry = [at |-> e.at + 1, rest |-> Tail(x)]]
      BY <1>1, <2>2
    <3>2. local'[t] = [local[t] EXCEPT !.entry = [at |-> e.at + 1, rest |-> Tail(x)]]
      BY <2>1, <3>1
    <3>. QED
      BY <1>1, <1>2, <2>1, <3>2 DEF LocalTyped
  <2>3. CASE Len(x) = 1
    BY <1>1, <2>1, <2>3
  <2>. QED
    BY <2>2, <2>3
<1>6. /\ dnsCache' \in Seq(Symbols)
      /\ Len(dnsCache') = IF e.at > Len(dnsCache) THEN Len(dnsCache) + 1 ELSE Len(dnsCache)
      /\ \A i \in 1 .. Len(dnsCache') : dnsCache'[i] = IF i = e.at THEN x[1] ELSE dnsCache[i]
  <2>. DEFINE n == e.at
              c == x[1]
              s == dnsCache
  <2>1. s \in Seq(Symbols) /\ c \in Symbols /\ n \in 1 .. Len(s) + 1 /\ Len(s) \in Nat
    BY <1>2, <1>3, <1>4
  <2>2. s' = IF n > Len(s) THEN Append(s, c) ELSE [s EXCEPT ![n] = c]
    BY <1>1, <1>3
  <2>. HIDE DEF n, c
  <2>3. CASE n > Len(s)
    <3>1. s' = Append(s, c) /\ n = Len(s) + 1
      BY <2>1, <2>2, <2>3
    <3>. QED
      BY <2>1, <3>1, AppendProperties DEF n, c
  <2>4. CASE ~(n > Len(s))
    <3>1. s' = [s EXCEPT ![n] = c] /\ n \in 1 .. Len(s)
      BY <2>1, <2>2, <2>4
    <3>. QED
      BY <2>1, <3>1, ExceptSeq DEF n, c
  <2>. QED
    BY <2>3, <2>4
<1>. HIDE DEF e
<1>. QED
  BY <1>1, <1>2, <1>3, <1>4, <1>5, <1>6 DEF e

\* The first line is an entry, and so is what is written behind it.
LEMMA WriteKeepsRoom ==
    ASSUME LookupInvariant, TypeInvariant, TextInvariant, RoomInvariant,
           NEW t \in Threads, StepOf(t), WriteEntry(t)
    PROVE  RoomInvariant'
<1>. DEFINE e == local[t].entry
            n == Len(e.rest)
            c == e.rest[1]
<1>1. /\ e.rest \in Seq(Symbols) /\ n \in Nat \ {0} /\ e.at \in 1 .. Len(dnsCache) + 1
      /\ dnsCache \in Seq(Symbols) /\ dnsCache' \in Seq(Symbols)
      /\ Len(dnsCache') = IF e.at > Len(dnsCache) THEN Len(dnsCache) + 1 ELSE Len(dnsCache)
      /\ \A i \in 1 .. Len(dnsCache') : dnsCache'[i] = IF i = e.at THEN c ELSE dnsCache[i]
      /\ n = 1 => pc'[t] = "list"
      /\ n # 1 => /\ local'[t].entry = [at |-> e.at + 1, rest |-> Tail(e.rest)]
                  /\ Len(Tail(e.rest)) = n - 1
  BY SymbolWritten
<1>2. /\ FirstLine <= EntryRoom /\ Len(dnsCache) <= FirstLine + EntryRoom
      /\ FirstLine < e.at /\ e.at + n <= FirstLine + EntryRoom + 1
      /\ pc[t] = "write"
  BY DEF RoomInvariant, WriteEntry
<1>3. FirstLine \in Nat /\ EntryRoom \in Nat /\ Len(dnsCache) \in Nat /\ c \in Symbols
  <2>1. FirstLine \in Nat
    BY PlaceFacts DEF FirstLine
  <2>2. c \in Symbols
    BY <1>1, ElementOfSeq
  <2>. QED
    BY <1>1, <2>1, <2>2, ConstantsAssumption
<1>. HIDE DEF n, c
<1>4. FirstLine' = IF FirstLine = 0 /\ c = "\n" THEN e.at ELSE FirstLine
  <2>. DEFINE p == e.at
  <2>1. p \in 1 .. Len(dnsCache) + 1 /\ Place(<<"\n">>, dnsCache) < p
    BY <1>1, <1>2 DEF FirstLine
  <2>. HIDE DEF p
  <2>2. Place(<<"\n">>, dnsCache') = IF Place(<<"\n">>, dnsCache) = 0 /\ c = "\n" THEN p
                                   ELSE Place(<<"\n">>, dnsCache)
    BY <1>1, <1>3, <2>1, FirstLineStays DEF p
  <2>. QED
    BY <2>2 DEF FirstLine, p
<1>5. \A u \in Threads : pc'[u] = "write" => u = t
  <2>1. OthersAsBefore(t)
    BY OthersUntouched
  <2>. QED
    BY <1>2, <2>1 DEF OthersAsBefore, LookupInvariant, LockHeldByWriter
<1>6. FirstLine' <= EntryRoom /\ Len(dnsCache') <= FirstLine' + EntryRoom
  <2>. DEFINE p == e.at
  <2>1. p \in Nat /\ p <= FirstLine + EntryRoom /\ FirstLine < p /\ p <= Len(dnsCache) + 1
    BY <1>1, <1>2, <1>3
  <2>2. FirstLine' \in {FirstLine, p} /\ (FirstLine' = p => FirstLine = 0 \/ p = FirstLine)
    BY <1>4
  <2>3. Len(dnsCache') = IF p > Len(dnsCache) THEN Len(dnsCache) + 1 ELSE Len(dnsCache)
    BY <1>1
  <2>. HIDE DEF p
  <2>. QED
    BY <1>2, <1>3, <2>1, <2>2, <2>3
<1>7. ASSUME pc'[t] = "write"
      PROVE  LET d == local'[t].entry
             IN  /\ FirstLine' < d.at /\ d.at <= Len(dnsCache') + 1
                 /\ d.at + Len(d.rest) <= FirstLine' + EntryRoom + 1
  <2>1. /\ local'[t].entry = [at |-> e.at + 1, rest |-> Tail(e.rest)]
        /\ Len(Tail(e.rest)) = n - 1
    BY <1>1, <1>7
  <2>2. local'[t].entry.at = e.at + 1 /\ Len(local'[t].entry.rest) = n - 1
    BY <2>1
  <2>3. PICK p, k, m, f, g :
          p = e.at /\ k = local'[t].entry.at /\ m = Len(local'[t].entry.rest)
            /\ f = FirstLine /\ g = FirstLine'
    OBVIOUS
  <2>4. /\ p \in Nat /\ f \in Nat /\ p + n <= f + EntryRoom + 1 /\ f < p /\ g \in {f, p}
        /\ k = p + 1 /\ m = n - 1 /\ n \in Nat /\ EntryRoom \in Nat
    BY <1>1, <1>2, <1>3, <1>4, <2>2, <2>3
  <2>5. g < k /\ k + m <= g + EntryRoom + 1
    BY <2>4
  <2>6. k <= Len(dnsCache') + 1
    <3>1. PICK a, b : a = Len(dnsCache) /\ b = Len(dnsCache')
      OBVIOUS
    <3>2. p \in 1 .. a + 1 /\ a \in Nat /\ b = IF p > a THEN a + 1 ELSE a
      BY <1>1, <1>3, <2>3, <3>1
    <3>3. k <= b + 1
      BY <2>4, <3>2
    <3>. QED
      BY <3>1, <3>3
  <2>. QED
    BY <2>3, <2>5, <2>6
<1>. QED
  BY <1>5, <1>6, <1>7 DEF RoomInvariant

LEMMA AddKeepsRoom ==
    ASSUME LookupInvariant, TypeInvariant, TextInvariant, RoomInvariant,
           NEW t \in Threads, AddIpToCache(t)
    PROVE  RoomInvariant'
<1>. DEFINE x == Entry(HostName(t), local[t].address)
<1>1. /\ Len(x) \in 1 .. EntryRoom /\ dnsLock = None
      /\ pc' = [pc EXCEPT ![t] = "write"]
      /\ local'[t].entry = [at |-> FirstLine + 1, rest |-> x]
  BY EntryHasRoom
<1>. HIDE DEF x
<1>2. local'[t].entry.at = FirstLine + 1 /\ local'[t].entry.rest = x
  BY <1>1
<1>3. /\ FirstLine \in Nat /\ EntryRoom \in Nat /\ Len(dnsCache) \in Nat
      /\ FirstLine <= Len(dnsCache) /\ dnsCache' = dnsCache /\ FirstLine' = FirstLine
  <2>1. dnsCache \in Seq(Symbols) /\ dnsCache' = dnsCache
    BY DEF TextInvariant, AddIpToCache
  <2>2. FirstLine \in Nat /\ (FirstLine # 0 => FirstLine \in 1 .. Len(dnsCache))
    BY <2>1, EndOfLine, PlaceFacts DEF FirstLine
  <2>. QED
    BY <2>1, <2>2, ConstantsAssumption DEF FirstLine
<1>4. \A u \in Threads : pc'[u] = "write" => u = t
  BY <1>1, ConstantsAssumption DEF TypeInvariant, LookupInvariant, LockHeldByWriter
<1>. QED
  BY <1>1, <1>2, <1>3, <1>4 DEF RoomInvariant

\* The other steps leave the text alone, and nobody begins to write.
LEMMA OnlyAddWrites ==
    ASSUME TypeInvariant, NEW t \in Threads, StepOf(t), ~AddIpToCache(t), ~WriteEntry(t)
    PROVE  UNCHANGED dns /\ pc[t] # "write" /\ pc'[t] # "write"
<1>0. DOMAIN pc = Threads
  BY DEF TypeInvariant
<1>1. ASSUME NEW r \in Requests, Accept(t, r)
      PROVE  UNCHANGED dns /\ pc[t] # "write" /\ pc'[t] # "write"
  BY <1>0, <1>1 DEF Accept, Goto
<1>2. CASE \/ LoadPosition(t, "url", "urlEnd") \/ LoadPosition(t, "version", "versionEnd")
           \/ LoadPosition(t, "line", "lineEnd")
  BY <1>0, <1>2 DEF LoadPosition, Goto
<1>3. CASE \/ ReadToken(t, "urlEnd", "hostName", Space, "version")
           \/ ReadToken(t, "versionEnd", "version", "\r", "parse")
  BY <1>0, <1>3 DEF ReadToken, Goto
<1>4. CASE Parse(t) \/ LookUpPage(t) \/ LookUpHost(t) \/ ReadLine(t)
  BY <1>0, <1>4 DEF Parse, LookUpPage, LookUpHost, ReadLine, Goto, End, Send, Leave
<1>5. CASE Resolve(t) \/ CopyAddress(t) \/ CheckBlacklist(t) \/ Fetch(t)
  BY <1>0, <1>5 DEF Resolve, CopyAddress, CheckBlacklist, Fetch, Goto, End, Send, Leave
<1>. QED
  BY <1>1, <1>2, <1>3, <1>4, <1>5 DEF StepOf, ThreadStep

LEMMA OthersKeepRoom ==
    ASSUME TypeInvariant, RoomInvariant, NEW t \in Threads, StepOf(t),
           ~AddIpToCache(t), ~WriteEntry(t)
    PROVE  RoomInvariant'
<1>1. OthersAsBefore(t) /\ dnsCache' = dnsCache /\ pc'[t] # "write"
  BY OthersUntouched, OnlyAddWrites DEF dns
<1>2. FirstLine' = FirstLine
  BY <1>1 DEF FirstLine
<1>. QED
  BY <1>1, <1>2 DEF RoomInvariant, OthersAsBefore

LEMMA LookupInvariantHolds == Spec => [](LookupInvariant /\ RoomInvariant)
<1>1. Init => LookupInvariant /\ RoomInvariant
  <2> SUFFICES ASSUME Init PROVE LookupInvariant /\ RoomInvariant
    OBVIOUS
  <2>1. LookupInvariant
    BY ConstantsAssumption
    DEF Init, LookupInvariant, OfThreads, LockHeldByWriter, CheckedBeforeFetch
  <2>2. dnsCache = <<>> /\ dnsCache \in Seq(Symbols) /\ Len(dnsCache) = 0 /\ EntryRoom \in Nat
    BY ConstantsAssumption DEF Init
  <2>3. FirstLine = 0
    <3>1. FirstLine # 0 => FirstLine \in 1 .. Len(dnsCache)
      BY <2>2, EndOfLine DEF FirstLine
    <3>. QED
      BY <2>2, <3>1
  <2>4. \A t \in Threads : pc[t] # "write"
    BY DEF Init
  <2>. QED
    BY <2>1, <2>2, <2>3, <2>4 DEF RoomInvariant
<1>2. TypeInvariant /\ TextInvariant /\ LookupInvariant /\ RoomInvariant /\ [Next]_vars
        => LookupInvariant' /\ RoomInvariant'
  <2> SUFFICES ASSUME TypeInvariant, TextInvariant, LookupInvariant, RoomInvariant, [Next]_vars
               PROVE  LookupInvariant' /\ RoomInvariant'
    OBVIOUS
  <2>1. CASE UNCHANGED vars
    <3>1. FirstLine' = FirstLine
      BY <2>1 DEF vars, dns, FirstLine
    <3>. QED
      BY <2>1, <3>1
      DEF vars, clients, dns, LookupInvariant, OfThreads, LockHeldByWriter, CheckedBeforeFetch,
          RoomInvariant
  <2>2. ASSUME NEW t \in Threads, NEW r \in Requests, Accept(t, r)
        PROVE  LookupInvariant'
    BY <2>2, AcceptKeeps
  <2>3. ASSUME NEW t \in Threads, ThreadStep(t)
        PROVE  LookupInvariant'
    <3>1. CASE \/ LoadPosition(t, "url", "urlEnd") \/ LoadPosition(t, "version", "versionEnd")
               \/ LoadPosition(t, "line", "lineEnd")
      BY <3>1, LoadPositionKeeps
    <3>2. CASE ReadToken(t, "urlEnd", "hostName", Space, "version")
      BY <3>2, ReadTokenKeeps
    <3>3. CASE ReadToken(t, "versionEnd", "version", "\r", "parse")
      BY <3>3, ReadTokenKeeps
    <3>. QED
      BY <2>3, <3>1, <3>2, <3>3, LookUpKeeps, AddKeeps, CheckBlacklistKeeps, FetchKeeps DEF ThreadStep
  <2>4. ASSUME NEW line \in Lines, Forbid(line)
        PROVE  LookupInvariant' /\ RoomInvariant'
    <3>1. UNCHANGED <<pc, local, dnsCache>>
      BY <2>4 DEF Forbid, dns
    <3>2. FirstLine' = FirstLine
      BY <3>1 DEF FirstLine
    <3>. QED
      BY <2>4, <3>1, <3>2, ForbidKeeps DEF RoomInvariant
  <2>5. ASSUME NEW t \in Threads, StepOf(t)
        PROVE  RoomInvariant'
    BY <2>5, AddKeepsRoom, WriteKeepsRoom, OthersKeepRoom
  <2>. QED
    BY <2>1, <2>2, <2>3, <2>4, <2>5 DEF Next, StepOf
<1>. QED
  BY <1>1, <1>2, TypeInvariantHolds, TextInvariantHolds, PTL DEF Spec

\* Whatever the threads of the proxy do to each other's texts, one of them can go on:
\* dns_lock is only ever held by a thread that is writing an entry (addIpToCache).
THEOREM NobodyStuckCorrect == Spec => []NobodyStuck
<1>1. LookupInvariant => NobodyStuck
  <2> SUFFICES ASSUME LookupInvariant, up, NEW t \in Threads, pc[t] # "idle"
               PROVE  \E u \in Threads : CanStep(u)
    BY DEF NobodyStuck
  <2>1. CASE pc[t] # "add" \/ dnsLock = None
    BY <2>1 DEF CanStep
  <2>2. CASE dnsLock \in Threads
    <3>1. pc[dnsLock] = "write"
      BY <2>2 DEF LookupInvariant, LockHeldByWriter
    <3>2. CanStep(dnsLock)
      BY <3>1 DEF CanStep
    <3>. QED
      BY <2>2, <3>2
  <2>. QED
    BY <2>1, <2>2 DEF LookupInvariant, LockHeldByWriter
<1>. QED
  BY <1>1, LookupInvariantHolds, PTL

\* No page is fetched from an address that was in the file blacklist when the request
\* came (isBlackListed, then connect), whatever the threads race for.
THEOREM ForbiddenNotFetchedCorrect == Spec => ForbiddenNotFetched
<1>1. LookupInvariant /\ [Next]_vars =>
          [\A t \in Threads :
              Fetch(t) => \A line \in barred[t] : ~Occurs(reply'.page.from, line)]_vars
  <2> SUFFICES ASSUME LookupInvariant, NEW t \in Threads, Fetch(t), NEW line \in barred[t]
               PROVE  ~Occurs(reply'.page.from, line)
    OBVIOUS
  <2>1. reply'.page.from = local[t].address /\ pc[t] = "fetch"
    BY DEF Fetch, Send
  <2>. QED
    BY <2>1 DEF LookupInvariant, CheckedBeforeFetch
<1>. QED
  BY <1>1, LookupInvariantHolds, PTL DEF Spec, ForbiddenNotFetched


LEMMA TypeImplied == LookupInvariant /\ TypeInvariant => TypeOK
<1> SUFFICES ASSUME LookupInvariant, TypeInvariant PROVE TypeOK
  OBVIOUS
<1>1. \A t \in Threads : pc[t] = "write" <=> local[t].entry # Fresh.entry
  BY DEF TypeInvariant, LocalTyped, Fresh
<1>. QED
  BY <1>1 DEF TypeInvariant, TypeOK, LocalTyped, SharedTyped, Labelled,
      LookupInvariant, LockHeldByWriter

\* The type invariant of the lookup, whatever its threads race for: a pointer is into
\* the text of some thread, and dns_lock is held exactly while an entry is copied.
THEOREM TypeCorrect == Spec => []TypeOK
BY LookupInvariantHolds, TypeInvariantHolds, TypeImplied, PTL

-----------------------------------------------------------------------------
(* Who tokenizes. *)

\* Who tokenizes has done so before or begins while nobody else does, as long as no
\* race is counted; and only who tokenizes moves strtok's position.
LEMMA BeginsAlone ==
    ASSUME TypeInvariant, NEW t \in Threads, StepOf(t)
    PROVE  /\ pc'[t] \in Tokenizing /\ pc[t] \notin Tokenizing =>
                "strtok" \in races' \/ ~OthersTokenize(t)
           /\ saved' # saved => pc[t] \in Tokenizing \/ pc'[t] \in Tokenizing
<1>0. DOMAIN pc = Threads
  BY DEF TypeInvariant
<1>1. ASSUME NEW r \in Requests, Accept(t, r)
      PROVE  ("strtok" \in races' \/ ~OthersTokenize(t)) /\ pc'[t] \in Tokenizing
  BY <1>0, <1>1 DEF Accept, Raced, Goto, Tokenizing
<1>2. ASSUME NEW from \in Tokenizing, NEW to, LoadPosition(t, from, to) PROVE pc[t] \in Tokenizing
  BY <1>2 DEF LoadPosition
<1>3. ASSUME NEW from \in Tokenizing, NEW field, NEW d, NEW to, ReadToken(t, from, field, d, to)
      PROVE  pc[t] \in Tokenizing
  BY <1>3 DEF ReadToken
<1>4. CASE Parse(t) \/ ReadLine(t)
  <2>1. pc[t] \in Tokenizing
    BY <1>4 DEF Parse, ReadLine, Tokenizing
  <2>. QED
    BY <2>1
<1>5. CASE LookUpHost(t)
  <2>1. CASE Place(HostName(t), dnsCache) = 0
    <3>1. saved' = saved /\ pc'[t] = "resolve"
      BY <1>0, <1>5, <2>1 DEF LookUpHost, Goto
    <3>. QED
      BY <3>1 DEF Tokenizing
  <2>2. CASE Place(HostName(t), dnsCache) # 0
    <3>1. ("strtok" \in races' \/ ~OthersTokenize(t)) /\ pc'[t] = "line"
      BY <1>0, <1>5, <2>2 DEF LookUpHost, Goto
    <3>. QED
      BY <3>1 DEF Tokenizing
  <2>. QED
    BY <2>1, <2>2
<1>6. CASE LookUpPage(t) \/ Resolve(t) \/ CopyAddress(t) \/ AddIpToCache(t) \/ WriteEntry(t)
           \/ CheckBlacklist(t) \/ Fetch(t)
  <2>1. saved' = saved
    BY <1>6 DEF LookUpPage, Resolve, CopyAddress, AddIpToCache, WriteEntry, CheckBlacklist, Fetch
  <2>2. pc'[t] \in {"idle", "dns", "copy", "add", "write", "list", "fetch"}
    BY <1>0, <1>6 DEF LookUpPage, Resolve, CopyAddress, AddIpToCache, WriteEntry,
       CheckBlacklist, Fetch, Goto, End, Send, Leave
  <2>. QED
    BY <2>1, <2>2 DEF Tokenizing
<1>7. {"url", "urlEnd", "version", "versionEnd", "line"} \subseteq Tokenizing
  BY DEF Tokenizing
<1>. QED
  BY <1>1, <1>2, <1>3, <1>4, <1>5, <1>6, <1>7 DEF StepOf, ThreadStep

-----------------------------------------------------------------------------
(* The parsing of a request: each thread is where it should be. *)

LEMMA OneStillTokenizes ==
    ASSUME TypeInvariant, OneTokenizes, NEW t \in Threads, StepOf(t), "strtok" \notin races'
    PROVE  OneTokenizes'
<1>1. OthersAsBefore(t)
  BY OthersUntouched
<1>2. pc'[t] \in Tokenizing => \A u \in Threads \ {t} : pc[u] \notin Tokenizing
  BY BeginsAlone DEF OneTokenizes, OthersTokenize
<1>. QED
  BY <1>1, <1>2 DEF OneTokenizes, OthersAsBefore

\* A thread that takes no step is where it was.
LEMMA OthersReadOn ==
    ASSUME TypeInvariant, OneTokenizes, NEW t \in Threads, StepOf(t), "strtok" \notin races',
           NEW u \in Threads \ {t}, ReadSoFar(u),
           text'[<<u, "receivedBuf">>] = text[<<u, "receivedBuf">>]
    PROVE  ReadSoFar(u)'
<1>1. pc'[u] = pc[u] /\ local'[u] = local[u] /\ asked'[u] = asked[u]
  BY OthersUntouched DEF OthersAsBefore
<1>2. pc[u] \in {"url", "version", "line"} => saved' = saved
  <2>1. {"url", "version", "line"} \subseteq Tokenizing
    BY DEF Tokenizing
  <2>2. saved' # saved => pc[u] \notin Tokenizing
    BY <1>1, OneStillTokenizes, BeginsAlone DEF OneTokenizes
  <2>. QED
    BY <2>1, <2>2
<1>. QED
  BY <1>1, <1>2 DEF ReadSoFar

\* What a thread writes is a text of its own.
OthersTextsKept(t) ==
    \A u \in Threads \ {t}, k \in {"receivedBuf", "tempBuf"} :
        text'[<<u, k>>] = text[<<u, k>>]

LEMMA ReadStep ==
    ASSUME TypeInvariant, ReadInvariant, NEW t \in Threads, StepOf(t),
           "strtok" \notin races' => OthersTextsKept(t) /\ ReadSoFar(t)'
    PROVE  ReadInvariant'
<1>. SUFFICES ASSUME "strtok" \notin races'
              PROVE  OneTokenizes' /\ \A u \in Threads : ReadSoFar(u)'
  BY DEF ReadInvariant
<1>1. OneTokenizes /\ \A u \in Threads : ReadSoFar(u)
  BY OthersUntouched DEF ReadInvariant
<1>. QED
  BY <1>1, OneStillTokenizes, OthersReadOn DEF OthersTextsKept

LEMMA UrlSymbols ==
    ASSUME NEW r \in Requests, NEW s, NEW c, NEW d, RequestLine(s, r, c, d)
    PROVE  /\ \A k \in 3 .. UrlEnd(r) - 1 : s[k] # Nul /\ s[k] # Space
           /\ UrlEnd(r) \in Nat /\ UrlEnd(r) > 5
<1>. DEFINE h == r.host
            f == FileText(r.file)
<1>0. PICK n, m, e : n = Len(h) /\ m = Len(f) /\ e = UrlEnd(r)
  OBVIOUS
<1>1. /\ n \in Nat \ {0} /\ m \in Nat /\ e \in Nat
      /\ \A i \in 1 .. n : h[i] \notin {"/", Space, Nul}
      /\ r.file = Default => m = 0
      /\ r.file # Default => m = 1
  <2>1. r.host \in Hosts /\ f \in Seq(Symbols)
    BY RequestFacts
  <2>. QED
    BY <1>0, <2>1, RequestFacts, HostFacts
<1>2. e = n + m + 5
  BY <1>0 DEF UrlEnd
<1>3. /\ s[3] = "http://" /\ (\A i \in 1 .. n : s[i + 3] = h[i]) /\ s[n + 4] = "/"
      /\ r.file # Default => s[n + 5] = r.file
  BY <1>0 DEF RequestLine
<1>. HIDE DEF h, f
<1>4. ASSUME NEW k \in 3 .. e - 1 PROVE s[k] # Nul /\ s[k] # Space
  <2>1. CASE k = 3
    BY <1>3, <2>1, SpaceDiffers, NulDiffers
  <2>2. CASE k \in 4 .. n + 3
    <3>1. k - 3 \in 1 .. n /\ (k - 3) + 3 = k
      BY <1>1, <2>2
    <3>2. s[k] = h[k - 3]
      BY <1>3, <3>1
    <3>. QED
      BY <1>1, <3>1, <3>2
  <2>3. CASE k = n + 4
    BY <1>3, <2>3, SpaceDiffers, NulDiffers
  <2>4. CASE k = n + 5 /\ r.file # Default
    BY <1>3, <2>4, RequestFacts
  <2>. QED
    BY <1>1, <1>2, <2>1, <2>2, <2>3, <2>4
<1>. QED
  BY <1>0, <1>1, <1>2, <1>4

\* Overwriting what follows the URL, and what follows the version.
LEMMA CutLine ==
    ASSUME NEW r \in Requests, NEW s, NEW c, NEW d, RequestLine(s, r, c, d)
    PROVE  /\ RequestLine([s EXCEPT ![UrlEnd(r)] = Nul], r, Nul, d)
           /\ RequestLine([s EXCEPT ![UrlEnd(r) + 2] = Nul], r, c, Nul)
<1>. DEFINE h == r.host
<1>0. PICK n, m, e : n = Len(h) /\ m = Len(FileText(r.file)) /\ e = UrlEnd(r)
  OBVIOUS
<1>1. /\ n \in Nat \ {0} /\ m \in Nat /\ (r.file # Default => m = 1)
  <2>1. r.host \in Hosts /\ FileText(r.file) \in Seq(Symbols)
    BY RequestFacts
  <2>. QED
    BY <1>0, <2>1, RequestFacts, HostFacts
<1>2. e = n + m + 5
  BY <1>0 DEF UrlEnd
<1>3. /\ s \in Seq(Symbols) /\ Len(s) = e + 3
      /\ s[3] = "http://" /\ (\A i \in 1 .. n : s[i + 3] = h[i]) /\ s[n + 4] = "/"
      /\ r.file # Default => s[n + 5] = r.file
      /\ s[e] = c /\ s[e + 1] = "HTTP/1.1" /\ s[e + 2] = d
  BY <1>0 DEF RequestLine
<1>. HIDE DEF h
<1>4. ASSUME NEW j \in {e, e + 2}, NEW z, z = [s EXCEPT ![j] = Nul]
      PROVE  RequestLine(z, r, IF j = e THEN Nul ELSE c, IF j = e THEN d ELSE Nul)
  <2>1. Nul \in Symbols /\ j \in 1 .. Len(s)
    BY <1>1, <1>2, <1>3 DEF Symbols
  <2>2. /\ z \in Seq(Symbols) /\ Len(z) = Len(s)
        /\ \A k \in 1 .. Len(s) : z[k] = IF k = j THEN Nul ELSE s[k]
    BY <1>3, <1>4, <2>1, ExceptSeq
  <2>3. /\ z[3] = "http://" /\ (\A i \in 1 .. n : z[i + 3] = h[i]) /\ z[n + 4] = "/"
        /\ r.file # Default => z[n + 5] = r.file
        /\ z[e + 1] = "HTTP/1.1"
    BY <1>1, <1>2, <1>3, <2>2
  <2>4. z[e] = (IF j = e THEN Nul ELSE c) /\ z[e + 2] = (IF j = e THEN d ELSE Nul)
    BY <1>1, <1>2, <1>3, <2>2
  <2>. QED
    BY <1>0, <1>3, <2>2, <2>3, <2>4 DEF RequestLine, h
<1>5. e \in {e, e + 2} /\ e + 2 \in {e, e + 2} /\ e + 2 # e
  BY <1>1, <1>2
<1>. QED
  BY <1>0, <1>4, <1>5

LEMMA IdleReads ==
    ASSUME NEW t \in Threads, pc'[t] = "idle" PROVE ReadSoFar(t)'
BY DEF ReadSoFar, Parsed

LEMMA OwnBuffers ==
    ASSUME NEW t \in Threads
    PROVE  /\ <<t, "receivedBuf">> \in Buffers /\ <<t, "tempBuf">> \in Buffers
           /\ \A u \in Threads : <<u, "receivedBuf">> # <<t, "tempBuf">>
           /\ \A u \in Threads \ {t}, k \in {"receivedBuf", "tempBuf"} :
                 <<u, k>> \in Buffers /\ \A l : <<u, k>> # <<t, l>>
BY DEF Buffers

\* Once it is parsed, a request stays as it is until its thread ends.
LEMMA StaysParsed ==
    ASSUME NEW t \in Threads, ReadSoFar(t), pc[t] \in Parsed \cup {"line", "lineEnd"},
           pc'[t] \in Parsed \cup {"line", "lineEnd"},
           text'[<<t, "receivedBuf">>] = text[<<t, "receivedBuf">>],
           local'[t].hostName = local[t].hostName, local'[t].page = local[t].page,
           asked'[t] = asked[t],
           pc'[t] = "line" => saved'.buf = <<t, "tempBuf">>,
           pc'[t] = "lineEnd" => local'[t].cursor.buf = <<t, "tempBuf">>
    PROVE  ReadSoFar(t)'
BY DEF ReadSoFar, Parsed

LEMMA AcceptReads ==
    ASSUME TypeInvariant, NEW t \in Threads, NEW r \in Requests, Accept(t, r)
    PROVE  OthersTextsKept(t) /\ ReadSoFar(t)'
<1>1. DOMAIN pc = Threads /\ DOMAIN text = Buffers /\ DOMAIN asked = Threads
  BY DEF TypeInvariant, SharedTyped
<1>2. /\ pc'[t] = "url" /\ asked'[t] = r /\ saved' = Pointer(<<t, "receivedBuf">>, 3)
      /\ text' = [text EXCEPT ![<<t, "receivedBuf">>] = [RequestText(r) EXCEPT ![2] = Nul]]
  BY <1>1 DEF Accept, Goto
<1>3. /\ text'[<<t, "receivedBuf">>] = [RequestText(r) EXCEPT ![2] = Nul]
      /\ OthersTextsKept(t)
  BY <1>1, <1>2, OwnBuffers DEF OthersTextsKept
<1>4. RequestLine(text'[<<t, "receivedBuf">>], r, Space, "\r")
  BY <1>3, RequestTextLine
<1>5. ReadSoFar(t)'
  BY <1>2, <1>4 DEF ReadSoFar, Parsed
<1>. QED
  BY <1>3, <1>5

LEMMA LoadPositionReads ==
    ASSUME TypeInvariant, NEW t \in Threads, ReadSoFar(t),
           \/ LoadPosition(t, "url", "urlEnd") \/ LoadPosition(t, "version", "versionEnd")
           \/ LoadPosition(t, "line", "lineEnd")
    PROVE  OthersTextsKept(t) /\ ReadSoFar(t)'
<1>1. DOMAIN pc = Threads /\ DOMAIN local = Threads /\ LocalTyped(t)
  BY DEF TypeInvariant
<1>2. /\ local' = [local EXCEPT ![t].cursor = saved] /\ text' = text /\ asked' = asked
  BY DEF LoadPosition, clients
<1>3. /\ local'[t].cursor = saved /\ local'[t].hostName = local[t].hostName
      /\ local'[t].page = local[t].page
  BY <1>1, <1>2 DEF LocalTyped
<1>4. \/ pc[t] = "url" /\ pc'[t] = "urlEnd"
      \/ pc[t] = "version" /\ pc'[t] = "versionEnd"
      \/ pc[t] = "line" /\ pc'[t] = "lineEnd"
  BY <1>1 DEF LoadPosition, Goto
<1>. QED
  BY <1>2, <1>3, <1>4 DEF OthersTextsKept, ReadSoFar, Parsed

LEMMA ReadUrlReads ==
    ASSUME TypeInvariant, NEW t \in Threads, ReadSoFar(t),
           ReadToken(t, "urlEnd", "hostName", Space, "version")
    PROVE  OthersTextsKept(t) /\ ReadSoFar(t)'
<1>. DEFINE r == asked[t]
            b == <<t, "receivedBuf">>
            p == local[t].cursor
            k == Strtok(p, Space)
            s == text[b]
            e == UrlEnd(r)
<1>1. DOMAIN pc = Threads /\ DOMAIN local = Threads /\ LocalTyped(t) /\ DOMAIN text = Buffers
  BY DEF TypeInvariant, SharedTyped
<1>2. /\ local' = [local EXCEPT ![t].hostName = k.token] /\ text' = k.text /\ asked' = asked
      /\ saved' = k.next /\ pc'[t] = "version" /\ pc[t] = "urlEnd"
  BY <1>1 DEF ReadToken, clients, Goto
<1>3. r \in Requests /\ RequestLine(s, r, Space, "\r") /\ p = Pointer(b, 3)
  BY <1>2 DEF ReadSoFar
<1>4. p.buf = b /\ p.at = 3
  BY <1>3 DEF Pointer
<1>5. /\ s \in Seq(Symbols) /\ Len(s) = e + 3 /\ s[e] = Space
      /\ e \in Nat /\ e > 5 /\ \A i \in 3 .. e - 1 : s[i] # Nul /\ s[i] # Space
  BY <1>3, UrlSymbols DEF RequestLine
<1>6. /\ k.token = Pointer(b, 3) /\ k.next = Pointer(b, e + 1)
      /\ k.text = [text EXCEPT ![b][e] = Nul]
  <2>1. e \in p.at + 1 .. Len(text[p.buf]) /\ p.at \in Nat \ {0}
    BY <1>4, <1>5
  <2>2. /\ text[p.buf] \in Seq(Symbols) /\ text[p.buf][e] = Space /\ Space # Nul
        /\ \A i \in p.at .. e - 1 : text[p.buf][i] # Nul /\ text[p.buf][i] # Space
    BY <1>4, <1>5, SpaceDiffers
  <2>3. /\ k.token = Pointer(p.buf, p.at) /\ k.next = Pointer(p.buf, e + 1)
        /\ k.text = [text EXCEPT ![p.buf][e] = Nul]
    <3>. HIDE DEF p, e
    <3>1. Takes(p, Space, e)
      BY <2>1, <2>2, StrtokAt
    <3>2. e <= Len(text[p.buf])
      BY <2>1
    <3>. QED
      BY <3>1, <3>2 DEF Takes
  <2>. QED
    BY <1>4, <2>3
<1>. HIDE DEF k
<1>7. text'[b] = [s EXCEPT ![e] = Nul] /\ OthersTextsKept(t)
  BY <1>1, <1>2, <1>6, OwnBuffers DEF OthersTextsKept
<1>8. RequestLine(text'[b], r, Nul, "\r")
  <2>1. RequestLine([s EXCEPT ![e] = Nul], r, Nul, "\r")
    <3>. HIDE DEF r, s
    <3>. QED
      BY <1>3, CutLine
  <2>. QED
    BY <1>7, <2>1
<1>9. local'[t].hostName = Pointer(b, 3)
  BY <1>1, <1>2, <1>6 DEF LocalTyped
<1>. QED
  BY <1>2, <1>3, <1>6, <1>7, <1>8, <1>9 DEF ReadSoFar, Parsed

LEMMA ReadVersionReads ==
    ASSUME TypeInvariant, NEW t \in Threads, ReadSoFar(t),
           ReadToken(t, "versionEnd", "version", "\r", "parse")
    PROVE  OthersTextsKept(t) /\ ReadSoFar(t)'
<1>. DEFINE r == asked[t]
            b == <<t, "receivedBuf">>
            p == local[t].cursor
            k == Strtok(p, "\r")
            s == text[b]
            e == UrlEnd(r)
<1>1. DOMAIN pc = Threads /\ DOMAIN local = Threads /\ LocalTyped(t) /\ DOMAIN text = Buffers
  BY DEF TypeInvariant, SharedTyped
<1>2. /\ local' = [local EXCEPT ![t].version = k.token] /\ text' = k.text /\ asked' = asked
      /\ saved' = k.next /\ pc'[t] = "parse" /\ pc[t] = "versionEnd"
  BY <1>1 DEF ReadToken, clients, Goto
<1>3. /\ r \in Requests /\ RequestLine(s, r, Nul, "\r") /\ p = Pointer(b, e + 1)
      /\ local[t].hostName = Pointer(b, 3)
  BY <1>2 DEF ReadSoFar
<1>4. p.buf = b /\ p.at = e + 1
  BY <1>3 DEF Pointer
<1>5. /\ s \in Seq(Symbols) /\ Len(s) = e + 3 /\ s[e + 1] = "HTTP/1.1" /\ s[e + 2] = "\r"
      /\ e \in Nat /\ e > 5
  BY <1>3, UrlSymbols DEF RequestLine
<1>6. k.token = Pointer(b, e + 1) /\ k.text = [text EXCEPT ![b][e + 2] = Nul]
  <2>. HIDE DEF p, e
  <2>1. e + 2 \in p.at + 1 .. Len(text[p.buf]) /\ p.at \in Nat \ {0}
    BY <1>4, <1>5
  <2>2. \A i \in p.at .. (e + 2) - 1 : text[p.buf][i] # Nul /\ text[p.buf][i] # "\r"
    <3>1. \A i \in e + 1 .. (e + 2) - 1 : i = e + 1
      BY <1>5
    <3>2. s[e + 1] # Nul
      BY <1>5, NulDiffers
    <3>. QED
      BY <1>4, <1>5, <3>1, <3>2
  <2>3. text[p.buf] \in Seq(Symbols) /\ text[p.buf][e + 2] = "\r" /\ "\r" # Nul
    BY <1>4, <1>5, NulDiffers
  <2>4. /\ k.token = Pointer(p.buf, p.at) /\ k.text = [text EXCEPT ![p.buf][e + 2] = Nul]
    <3>1. Takes(p, "\r", e + 2)
      BY <2>1, <2>2, <2>3, StrtokAt
    <3>2. e + 2 <= Len(text[p.buf])
      BY <2>1
    <3>. QED
      BY <3>1, <3>2 DEF Takes
  <2>. QED
    BY <1>4, <2>4
<1>. HIDE DEF k
<1>7. text'[b] = [s EXCEPT ![e + 2] = Nul] /\ OthersTextsKept(t)
  BY <1>1, <1>2, <1>6, OwnBuffers DEF OthersTextsKept
<1>8. RequestLine(text'[b], r, Nul, Nul)
  <2>1. RequestLine([s EXCEPT ![e + 2] = Nul], r, Nul, Nul)
    <3>. HIDE DEF r, s
    <3>. QED
      BY <1>3, CutLine
  <2>. QED
    BY <1>7, <2>1
<1>9. local'[t].version = Pointer(b, e + 1) /\ local'[t].hostName = Pointer(b, 3)
  BY <1>1, <1>2, <1>3, <1>6 DEF LocalTyped
<1>. QED
  BY <1>2, <1>3, <1>7, <1>8, <1>9 DEF ReadSoFar, Parsed

\* The URL of request r behind http://, whose host has n letters.
IsUrl(url, r, n) ==
    /\ url \in Seq(Symbols) /\ n \in Nat \ {0}
    /\ Place(<<"/">>, url) = n + 1
    /\ SubSeq(url, 1, n) = r.host
    /\ r.file = Default => Len(url) = n + 1
    /\ r.file # Default => Len(url) = n + 2 /\ SubSeq(url, n + 2, Len(url)) = <<r.file>>

\* How Parse cuts it up.
LEMMA UrlFacts ==
    ASSUME NEW r \in Requests, NEW s, RequestLine(s, r, Nul, Nul),
           NEW url, url = String(s, 4), NEW n, n = Len(r.host)
    PROVE  /\ Place(<<"http://">>, String(s, 3)) = 1
           /\ IsUrl(url, r, n)
           /\ String([s EXCEPT ![n + 4] = Nul], 4) = r.host
<1>. DEFINE h == r.host
<1>0. PICK m, e : m = Len(FileText(r.file)) /\ e = UrlEnd(r)
  OBVIOUS
<1>1. /\ n \in Nat \ {0} /\ m \in Nat /\ e \in Nat /\ h \in Seq(Symbols)
      /\ r.file = Default => m = 0
      /\ r.file # Default => m = 1
      /\ \A i \in 1 .. n : h[i] \notin {"/", Space, Nul}
  <2>1. r.host \in Hosts /\ FileText(r.file) \in Seq(Symbols)
    BY RequestFacts
  <2>. QED
    BY <1>0, <2>1, RequestFacts, HostFacts
<1>2. e = n + m + 5
  BY <1>0 DEF UrlEnd
<1>3. /\ s \in Seq(Symbols) /\ Len(s) = e + 3
      /\ s[3] = "http://" /\ (\A i \in 1 .. n : s[i + 3] = h[i]) /\ s[n + 4] = "/"
      /\ r.file # Default => s[n + 5] = r.file
      /\ s[e] = Nul
  BY <1>0 DEF RequestLine
<1>4. \A i \in 3 .. e - 1 : s[i] # Nul
  BY <1>0, UrlSymbols
<1>. HIDE DEF h
<1>5. Place(<<"http://">>, String(s, 3)) = 1
  <2>. DEFINE x == SubSeq(s, 3, e - 1)
  <2>1. String(s, 3) = x
    <3>1. e \in 3 .. 3 + Len(s) /\ 3 \in Nat \ {0} /\ \A i \in 3 .. e - 1 : i <= Len(s)
      BY <1>1, <1>2, <1>3
    <3>. QED
      BY <1>3, <1>4, <3>1, StringAt
  <2>2. x \in Seq(Symbols) /\ Len(x) = n + m + 2 /\ x[1] = s[3]
    <3>1. e - 1 \in Nat /\ 3 <= e - 1 + 1 /\ e - 1 <= Len(s) /\ e - 1 + 1 - 3 = n + m + 2
          /\ 3 + 1 - 1 = 3 /\ 1 \in 1 .. n + m + 2
      BY <1>1, <1>2, <1>3
    <3>. QED
      BY <1>3, <3>1, PartFacts
  <2>. HIDE DEF x
  <2>3. "http://" \in Symbols /\ 1 \in 1 .. Len(x) /\ \A j \in 1 .. 1 - 1 : x[j] # "http://"
    BY <1>1, <2>2 DEF Symbols
  <2>. QED
    BY <1>3, <2>1, <2>2, <2>3, SymbolAt
<1>6. /\ url \in Seq(Symbols) /\ Len(url) = n + m + 1
      /\ \A k \in 1 .. n + m + 1 : url[k] = s[k + 3]
  <2>1. url = SubSeq(s, 4, e - 1)
    <3>1. e \in 4 .. 4 + Len(s) /\ 4 \in Nat \ {0} /\ \A i \in 4 .. e - 1 : s[i] # Nul /\ i <= Len(s)
      BY <1>1, <1>2, <1>3, <1>4
    <3>. QED
      BY <1>3, <3>1, StringAt
  <2>2. e - 1 \in Nat /\ 4 <= e - 1 + 1 /\ e - 1 <= Len(s) /\ e - 1 + 1 - 4 = n + m + 1
        /\ \A k \in 1 .. n + m + 1 : 4 + k - 1 = k + 3
    BY <1>1, <1>2, <1>3
  <2>3. /\ url \in Seq(Symbols) /\ Len(url) = n + m + 1
        /\ \A k \in 1 .. n + m + 1 : url[k] = s[4 + k - 1]
    <3>1. PICK j : j = e - 1
      OBVIOUS
    <3>2. j \in Nat /\ 4 <= j + 1 /\ j <= Len(s) /\ j + 1 - 4 = n + m + 1 /\ 4 \in Nat \ {0}
      BY <2>2, <3>1
    <3>3. /\ SubSeq(s, 4, j) \in Seq(Symbols) /\ Len(SubSeq(s, 4, j)) = j + 1 - 4
          /\ \A k \in 1 .. j + 1 - 4 : SubSeq(s, 4, j)[k] = s[4 + k - 1]
      BY <1>3, <3>2, PartFacts
    <3>4. url = SubSeq(s, 4, j)
      BY <2>1, <3>1
    <3>. QED
      BY <3>2, <3>3, <3>4
  <2>. QED
    BY <2>2, <2>3
<1>7. Place(<<"/">>, url) = n + 1
  <2>1. "/" \in Symbols /\ n + 1 \in 1 .. Len(url) /\ url[n + 1] = "/"
    BY <1>1, <1>3, <1>6 DEF Symbols
  <2>2. \A j \in 1 .. n + 1 - 1 : url[j] # "/"
    BY <1>1, <1>3, <1>6
  <2>. QED
    BY <1>6, <2>1, <2>2, SymbolAt
<1>8. SubSeq(url, 1, n) = h
  <2>1. /\ SubSeq(url, 1, n) \in Seq(Symbols) /\ Len(SubSeq(url, 1, n)) = n + 1 - 1
        /\ \A k \in 1 .. n + 1 - 1 : SubSeq(url, 1, n)[k] = url[1 + k - 1]
    BY <1>1, <1>6, PartFacts
  <2>. DEFINE x == SubSeq(url, 1, n)
  <2>. HIDE DEF x
  <2>2. x \in Seq(Symbols) /\ Len(x) = n /\ \A k \in 1 .. n : x[k] = h[k]
    BY <1>1, <1>3, <1>6, <2>1 DEF x
  <2>3. Len(h) = n
    BY DEF h
  <2>. QED
    BY <1>1, <2>2, <2>3, SeqEqual DEF x
<1>9. r.file # Default => SubSeq(url, n + 2, Len(url)) = <<r.file>>
  <2>. SUFFICES ASSUME r.file # Default PROVE SubSeq(url, n + 2, Len(url)) = <<r.file>>
    OBVIOUS
  <2>1. /\ Len(url) = n + 2 /\ n + 2 + 1 - (n + 2) = 1 /\ n + 2 + 1 - 1 = n + 2
        /\ n + 2 \in 1 .. n + m + 1 /\ n + 2 + 3 = n + 5
    BY <1>1, <1>6
  <2>2. /\ SubSeq(url, n + 2, n + 2) \in Seq(Symbols) /\ Len(SubSeq(url, n + 2, n + 2)) = 1
        /\ SubSeq(url, n + 2, n + 2)[1] = url[n + 2]
    BY <1>1, <1>6, <2>1, PartFacts
  <2>3. url[n + 2] = r.file
    BY <1>3, <1>6, <2>1
  <2>. DEFINE x == SubSeq(url, n + 2, n + 2)
  <2>. HIDE DEF x
  <2>4. x \in Seq(Symbols) /\ Len(x) = 1 /\ x[1] = r.file
    BY <2>2, <2>3 DEF x
  <2>5. x = <<r.file>>
    BY <2>4
  <2>. QED
    BY <2>1, <2>5 DEF x
<1>10. String([s EXCEPT ![n + 4] = Nul], 4) = h
  <2>. DEFINE z == [s EXCEPT ![n + 4] = Nul]
  <2>1. Nul \in Symbols /\ n + 4 \in 1 .. Len(s)
    BY <1>1, <1>2, <1>3 DEF Symbols
  <2>2. /\ z \in Seq(Symbols) /\ Len(z) = Len(s)
        /\ \A k \in 1 .. Len(s) : z[k] = IF k = n + 4 THEN Nul ELSE s[k]
    BY <1>3, <2>1, ExceptSeq
  <2>. HIDE DEF z
  <2>3. String(z, 4) = SubSeq(z, 4, n + 4 - 1)
    <3>1. n + 4 \in 4 .. 4 + Len(z) /\ 4 \in Nat \ {0} /\ z[n + 4] = Nul
      <4>1. n + 4 \in 1 .. Len(z)
        BY <2>1, <2>2
      <4>2. z[n + 4] = Nul
        BY <2>1, <2>2
      <4>3. 4 <= n + 4 /\ n + 4 \in Nat
        BY <1>1
      <4>4. Len(z) \in Nat
        BY <2>2
      <4>5. n + 4 \in 4 .. 4 + Len(z)
        BY <4>1, <4>3, <4>4
      <4>. QED
        BY <4>2, <4>5
    <3>2. ASSUME NEW k \in 4 .. n + 4 - 1 PROVE k <= Len(z) /\ z[k] # Nul
      <4>1. k \in 1 .. Len(s) /\ k <= Len(s) /\ k # n + 4 /\ k \in 3 .. e - 1
        BY <1>1, <1>2, <1>3
      <4>. QED
        BY <1>4, <2>2, <4>1
    <3>3. z \in Seq(Symbols)
      BY <2>2
    <3>. DEFINE j == n + 4
    <3>4. j \in 4 .. 4 + Len(z) /\ z[j] = Nul /\ \A k \in 4 .. j - 1 : k <= Len(z) /\ z[k] # Nul
      BY <3>1, <3>2
    <3>. HIDE DEF j
    <3>5. String(z, 4) = SubSeq(z, 4, j - 1)
      BY <3>1, <3>3, <3>4, StringAt
    <3>. QED
      BY <3>5 DEF j
  <2>4. /\ n + 4 - 1 \in Nat /\ 4 <= n + 4 - 1 + 1 /\ n + 4 - 1 <= Len(z) /\ n + 4 - 1 + 1 - 4 = n
        /\ \A k \in 1 .. n : 4 + k - 1 = k + 3 /\ k + 3 \in 1 .. Len(s) /\ k + 3 # n + 4
    BY <1>1, <1>2, <1>3, <2>2
  <2>5. /\ SubSeq(z, 4, n + 4 - 1) \in Seq(Symbols) /\ Len(SubSeq(z, 4, n + 4 - 1)) = n
        /\ \A k \in 1 .. n : SubSeq(z, 4, n + 4 - 1)[k] = z[4 + k - 1]
    BY <2>2, <2>4, PartFacts
  <2>. DEFINE x == SubSeq(z, 4, n + 4 - 1)
  <2>. HIDE DEF x
  <2>6. x \in Seq(Symbols) /\ Len(x) = n /\ \A k \in 1 .. n : x[k] = h[k]
    BY <1>3, <2>2, <2>4, <2>5 DEF x
  <2>7. Len(h) = n
    BY DEF h
  <2>8. x = h
    BY <1>1, <2>6, <2>7, SeqEqual
  <2>. QED
    BY <2>3, <2>8 DEF x, z
<1>11. /\ r.file = Default => Len(url) = n + 1
       /\ r.file # Default => Len(url) = n + 2
  BY <1>1, <1>6
<1>. QED
  BY <1>1, <1>5, <1>6, <1>7, <1>8, <1>9, <1>10, <1>11 DEF h, IsUrl

LEMMA PageNameFacts ==
    ASSUME NEW h \in Hosts, NEW f \in Symbols
    PROVE  h \o <<"/">> \o <<f>> = PageName(h, f)
<1>1. h \in Seq(Symbols) /\ <<"/">> \in Seq(Symbols) /\ <<f>> \in Seq(Symbols)
  BY HostFacts DEF Symbols
<1>2. (h \o <<"/">>) \o <<f>> = h \o (<<"/">> \o <<f>>)
  BY <1>1, ConcatAssociative
<1>3. <<"/">> \o <<f>> = <<"/", f>>
  <2>. DEFINE a == <<"/">>
              c == <<f>>
              x == a \o c
  <2>1. a \in Seq(Symbols) /\ Len(a) = 1 /\ a[1] = "/" /\ c \in Seq(Symbols) /\ Len(c) = 1 /\ c[1] = f
    BY <1>1
  <2>. HIDE DEF a, c
  <2>2. /\ x \in Seq(Symbols) /\ Len(x) = Len(a) + Len(c)
        /\ \A i \in 1 .. Len(a) : x[i] = a[i]
        /\ \A i \in 1 .. Len(c) : x[i + Len(a)] = c[i]
    BY <2>1, ConcatFacts
  <2>. HIDE DEF x
  <2>3. x[1] = "/" /\ x[1 + 1] = f
    BY <2>1, <2>2
  <2>4. x = <<"/", f>>
    BY <2>1, <2>2, <2>3
  <2>. QED
    BY <2>4 DEF x, a, c
<1>. QED
  BY <1>2, <1>3 DEF PageName

LEMMA ParseReads ==
    ASSUME TypeInvariant, NEW t \in Threads, ReadSoFar(t), Parse(t)
    PROVE  OthersTextsKept(t) /\ ReadSoFar(t)'
<1>1. /\ DOMAIN pc = Threads /\ DOMAIN local = Threads /\ LocalTyped(t) /\ DOMAIN text = Buffers
      /\ pc[t] = "parse"
  BY DEF TypeInvariant, SharedTyped, Parse
<1>2. CASE End(t) /\ UNCHANGED text
  <2>1. pc'[t] = "idle" /\ text' = text
    BY <1>1, <1>2 DEF End, Leave
  <2>. QED
    BY <2>1, IdleReads DEF OthersTextsKept
<1>3. CASE ~(End(t) /\ UNCHANGED text)
  <2>. DEFINE r == asked[t]
              b == <<t, "receivedBuf">>
              s == text[b]
              n == Len(r.host)
              p     == local[t].hostName
              host  == [p EXCEPT !.at = @ + Place(<<"http://">>, At(p))]
              url   == At(host)
              slash == Place(<<"/">>, url)
              name  == IF slash = 0 THEN url ELSE SubSeq(url, 1, slash - 1)
              file  == IF slash \in {0, Len(url)} THEN <<Default>>
                       ELSE SubSeq(url, slash + 1, Len(url))
  <2>1. /\ local' = [local EXCEPT ![t].hostName = host, ![t].page = name \o <<"/">> \o file]
        /\ text' = IF slash = 0 THEN text
                   ELSE [text EXCEPT ![host.buf][host.at + slash - 1] = Nul]
        /\ Goto(t, "cache") /\ asked' = asked
    BY <1>3, Zenon DEF Parse, clients
  <2>2. /\ r \in Requests /\ RequestLine(s, r, Nul, Nul) /\ p = Pointer(b, 3)
    BY <1>1 DEF ReadSoFar
  <2>3. host = Pointer(b, 4)
    <3>1. Place(<<"http://">>, String(s, 3)) = 1
      BY <2>2, UrlFacts
    <3>2. At(Pointer(b, 3)) = String(s, 3)
      BY DEF At, Pointer
    <3>3. host = [Pointer(b, 3) EXCEPT !.at = 3 + 1]
      BY <2>2, <3>1, <3>2 DEF Pointer
    <3>. QED
      BY <3>3 DEF Pointer
  <2>4. url = String(s, 4)
    <3>1. At(Pointer(b, 4)) = String(s, 4)
      BY DEF At, Pointer
    <3>. HIDE DEF host
    <3>. QED
      BY <2>3, <3>1
  <2>. HIDE DEF host, url
  <2>5. /\ url \in Seq(Symbols) /\ n \in Nat \ {0}
        /\ slash = n + 1
        /\ SubSeq(url, 1, n) = r.host
        /\ r.file = Default => Len(url) = n + 1
        /\ r.file # Default => Len(url) = n + 2 /\ SubSeq(url, n + 2, Len(url)) = <<r.file>>
        /\ String([s EXCEPT ![n + 4] = Nul], 4) = r.host
    <3>1. n = Len(r.host)
      OBVIOUS
    <3>. HIDE DEF r, s, n
    <3>2. IsUrl(url, r, n)
      BY <2>2, <2>4, <3>1, UrlFacts
    <3>3. /\ url \in Seq(Symbols) /\ n \in Nat \ {0} /\ slash = n + 1
          /\ SubSeq(url, 1, n) = r.host
          /\ r.file = Default => Len(url) = n + 1
          /\ r.file # Default => Len(url) = n + 2 /\ SubSeq(url, n + 2, Len(url)) = <<r.file>>
      BY <3>2 DEF IsUrl
    <3>4. String([s EXCEPT ![n + 4] = Nul], 4) = r.host
      BY <2>2, <2>4, <3>1, UrlFacts
    <3>. QED
      BY <3>3, <3>4
  <2>. HIDE DEF slash, n
  <2>6. name = r.host
    <3>1. slash # 0 /\ slash - 1 = n
      BY <2>5
    <3>. QED
      BY <2>5, <3>1
  <2>7. file = <<r.file>>
    <3>1. slash # 0 /\ slash + 1 = n + 2
      BY <2>5
    <3>2. CASE r.file = Default
      BY <2>5, <3>1, <3>2
    <3>3. CASE r.file # Default
      <4>1. slash \notin {0, Len(url)}
        BY <2>5, <3>1, <3>3
      <4>. QED
        BY <2>5, <3>1, <3>3, <4>1
    <3>. QED
      BY <3>2, <3>3
  <2>. HIDE DEF name, file
  <2>8. local'[t].hostName = Pointer(b, 4) /\ local'[t].page = PageName(r.host, r.file)
    <3>1. name \o <<"/">> \o file = PageName(r.host, r.file)
      BY <2>2, <2>6, <2>7, RequestFacts, PageNameFacts
    <3>2. local'[t].hostName = host /\ local'[t].page = name \o <<"/">> \o file
      BY <1>1, <2>1 DEF LocalTyped
    <3>. QED
      BY <2>3, <3>1, <3>2
  <2>9. text' = [text EXCEPT ![b][n + 4] = Nul]
    <3>1. slash # 0 /\ 4 + slash - 1 = n + 4 /\ host.buf = b /\ host.at = 4
      BY <2>3, <2>5 DEF Pointer
    <3>. QED
      BY <2>1, <3>1
  <2>10. text'[b] = [s EXCEPT ![n + 4] = Nul] /\ OthersTextsKept(t)
    BY <1>1, <2>9, OwnBuffers DEF OthersTextsKept
  <2>11. pc'[t] = "cache"
    BY <1>1, <2>1 DEF Goto
  <2>12. String(text'[b], 4) = r.host
    BY <2>5, <2>10
  <2>. QED
    BY <2>1, <2>2, <2>8, <2>10, <2>11, <2>12 DEF ReadSoFar, Parsed
<1>. QED
  BY <1>2, <1>3

\* The steps behind the parsing leave the request as it is.
LEMMA LookUpReads ==
    ASSUME TypeInvariant, NEW t \in Threads, ReadSoFar(t),
           \/ LookUpPage(t) \/ LookUpHost(t) \/ ReadLine(t) \/ Resolve(t) \/ CopyAddress(t)
           \/ AddIpToCache(t) \/ WriteEntry(t) \/ CheckBlacklist(t) \/ Fetch(t)
    PROVE  OthersTextsKept(t) /\ ReadSoFar(t)'
<1>1. DOMAIN pc = Threads /\ DOMAIN local = Threads /\ LocalTyped(t) /\ DOMAIN text = Buffers
  BY DEF TypeInvariant, SharedTyped
<1>2. pc[t] \in Parsed \cup {"lineEnd"}
  BY DEF LookUpPage, LookUpHost, ReadLine, Resolve, CopyAddress, AddIpToCache, WriteEntry,
     CheckBlacklist, Fetch, Parsed
<1>3. OthersTextsKept(t)
  <2>1. CASE LookUpHost(t)
    BY <1>1, <2>1, OwnBuffers DEF LookUpHost, OthersTextsKept
  <2>2. CASE Fetch(t)
    BY <1>1, <2>2, OwnBuffers DEF Fetch, OthersTextsKept
  <2>3. CASE ReadLine(t)
    <3>1. local[t].cursor.buf = <<t, "tempBuf">>
      BY <2>3 DEF ReadLine, ReadSoFar
    <3>. DEFINE r == Strtok(local[t].cursor, "\n")
    <3>2. \A u \in Threads \ {t}, k \in {"receivedBuf", "tempBuf"} : r.text[<<u, k>>] = text[<<u, k>>]
      BY <1>1, <3>1, OwnBuffers DEF Strtok
    <3>3. DOMAIN r.text = Buffers
      BY <1>1 DEF Strtok
    <3>4. text' = [r.text EXCEPT ![<<t, "tempBuf">>] = <<>>]
      BY <2>3 DEF ReadLine
    <3>. HIDE DEF r
    <3>. QED
      BY <3>2, <3>3, <3>4, OwnBuffers DEF OthersTextsKept
  <2>4. CASE text' = text
    BY <2>4 DEF OthersTextsKept
  <2>. QED
    BY <2>1, <2>2, <2>3, <2>4 DEF LookUpPage, Resolve, CopyAddress, AddIpToCache,
       WriteEntry, CheckBlacklist
<1>4. CASE Leave(t)
  BY <1>1, <1>3, <1>4, IdleReads DEF Leave
<1>5. CASE ~Leave(t)
  <2>1. text'[<<t, "receivedBuf">>] = text[<<t, "receivedBuf">>]
    <3>1. CASE LookUpHost(t)
      BY <1>1, <3>1, OwnBuffers DEF LookUpHost
    <3>2. CASE ReadLine(t)
      <4>1. local[t].cursor.buf = <<t, "tempBuf">>
        BY <3>2 DEF ReadLine, ReadSoFar
      <4>. DEFINE r == Strtok(local[t].cursor, "\n")
      <4>2. r.text[<<t, "receivedBuf">>] = text[<<t, "receivedBuf">>]
        BY <1>1, <4>1, OwnBuffers DEF Strtok
      <4>3. DOMAIN r.text = Buffers
        BY <1>1 DEF Strtok
      <4>4. text' = [r.text EXCEPT ![<<t, "tempBuf">>] = <<>>]
        BY <3>2 DEF ReadLine
      <4>. HIDE DEF r
      <4>. QED
        BY <4>2, <4>3, <4>4, OwnBuffers
    <3>3. CASE text' = text
      BY <3>3
    <3>. QED
      BY <1>5, <3>1, <3>2, <3>3 DEF LookUpPage, Resolve, CopyAddress, AddIpToCache,
         WriteEntry, CheckBlacklist, Fetch, Send
  <2>2. /\ asked'[t] = asked[t]
        /\ local'[t].hostName = local[t].hostName /\ local'[t].page = local[t].page
    <3>1. CASE local' = local
      BY <1>5, <3>1 DEF LookUpPage, LookUpHost, ReadLine, Resolve, CopyAddress, AddIpToCache,
         WriteEntry, CheckBlacklist, Fetch, Send, End, clients
    <3>2. CASE ReadLine(t)
      <4>1. PICK a : local' = [local EXCEPT ![t].address = a]
        BY <1>5, <3>2 DEF ReadLine, End
      <4>2. asked' = asked
        BY <1>5, <3>2 DEF ReadLine, End, clients
      <4>. QED
        BY <1>1, <4>1, <4>2 DEF LocalTyped
    <3>3. CASE CopyAddress(t)
      BY <1>1, <3>3 DEF LocalTyped, CopyAddress, clients
    <3>4. CASE (AddIpToCache(t) \/ WriteEntry(t)) /\ local' # local
      <4>1. PICK e : local' = [local EXCEPT ![t].entry = e]
        BY <3>4 DEF AddIpToCache, WriteEntry
      <4>2. asked' = asked
        BY <3>4 DEF AddIpToCache, WriteEntry, clients
      <4>. QED
        BY <1>1, <4>1, <4>2 DEF LocalTyped
    <3>. QED
      BY <1>5, <3>1, <3>2, <3>3, <3>4 DEF LookUpPage, LookUpHost, Resolve, CheckBlacklist,
         Fetch, Send, End
  <2>3. PICK label \in Parsed \cup {"line"} : Goto(t, label)
    BY <1>5 DEF LookUpPage, LookUpHost, ReadLine, Resolve, CopyAddress, AddIpToCache,
       WriteEntry, CheckBlacklist, Fetch, Send, End, Parsed
  <2>4. pc'[t] = label
    BY <1>1, <2>3 DEF Goto
  <2>5. pc'[t] = "line" => saved'.buf = <<t, "tempBuf">>
    <3>1. CASE LookUpHost(t)
      <4>1. CASE Place(HostName(t), dnsCache) = 0
        BY <1>1, <3>1, <4>1 DEF LookUpHost, Goto
      <4>2. CASE Place(HostName(t), dnsCache) # 0
        BY <3>1, <4>2 DEF LookUpHost, Pointer
      <4>. QED
        BY <4>1, <4>2
    <3>2. CASE ~LookUpHost(t)
      BY <1>1, <1>5, <3>2 DEF LookUpPage, ReadLine, Resolve, CopyAddress, AddIpToCache,
         WriteEntry, CheckBlacklist, Fetch, Send, End, Goto
    <3>. QED
      BY <3>1, <3>2
  <2>. QED
    BY <1>2, <1>3, <2>1, <2>2, <2>3, <2>4, <2>5, StaysParsed DEF Parsed
<1>. QED
  BY <1>4, <1>5

LEMMA ReadInvariantStep == TypeInvariant /\ ReadInvariant /\ [Next]_vars => ReadInvariant'
<1> SUFFICES ASSUME TypeInvariant, ReadInvariant, [Next]_vars PROVE ReadInvariant'
  OBVIOUS
<1>1. CASE UNCHANGED vars
  BY <1>1 DEF vars, clients, ReadInvariant, OneTokenizes, ReadSoFar
<1>2. ASSUME NEW t \in Threads, NEW r \in Requests, Accept(t, r)
      PROVE  ReadInvariant'
  BY <1>2, AcceptReads, ReadStep DEF StepOf
<1>3. ASSUME NEW t \in Threads, ThreadStep(t)
      PROVE  ReadInvariant'
  <2>1. StepOf(t)
    BY <1>3 DEF StepOf
  <2>2. "strtok" \notin races' => ReadSoFar(t)
    BY <2>1, OthersUntouched DEF ReadInvariant
  <2>3. ReadSoFar(t) => OthersTextsKept(t) /\ ReadSoFar(t)'
    <3>1. CASE \/ LoadPosition(t, "url", "urlEnd") \/ LoadPosition(t, "version", "versionEnd")
               \/ LoadPosition(t, "line", "lineEnd")
      BY <3>1, LoadPositionReads
    <3>2. CASE \/ ReadToken(t, "urlEnd", "hostName", Space, "version")
               \/ ReadToken(t, "versionEnd", "version", "\r", "parse")
      BY <3>2, ReadUrlReads, ReadVersionReads
    <3>3. CASE Parse(t)
      BY <3>3, ParseReads
    <3>. QED
      BY <1>3, <3>1, <3>2, <3>3, LookUpReads DEF ThreadStep
  <2>. QED
    BY <2>1, <2>2, <2>3, ReadStep
<1>4. ASSUME NEW line \in Lines, Forbid(line)
      PROVE  ReadInvariant'
  BY <1>4 DEF Forbid, clients, ReadInvariant, OneTokenizes, ReadSoFar
<1>. QED
  BY <1>1, <1>2, <1>3, <1>4 DEF Next

LEMMA ReadInvariantHolds == Spec => []ReadInvariant
<1>1. Init => ReadInvariant
  BY DEF Init, ReadInvariant, OneTokenizes, ReadSoFar, Tokenizing, Parsed
<1>. QED
  BY <1>1, ReadInvariantStep, TypeInvariantHolds, PTL DEF Spec

\* The name a thread looks for is the host its own client asked for.
LEMMA OwnName ==
    ASSUME NEW t \in Threads, ReadSoFar(t), pc[t] \in Parsed \cup {"line", "lineEnd"}
    PROVE  /\ asked[t] \in Requests /\ HostName(t) = asked[t].host
           /\ local[t].page = PageName(asked[t].host, asked[t].file)
<1>1. /\ asked[t] \in Requests
      /\ local[t].hostName = Pointer(<<t, "receivedBuf">>, 4)
      /\ String(text[<<t, "receivedBuf">>], 4) = asked[t].host
      /\ local[t].page = PageName(asked[t].host, asked[t].file)
  BY DEF ReadSoFar, Parsed
<1>. QED
  BY <1>1 DEF HostName, At, Pointer

\* A thread has its own client's host and page after the parsing unless another one
\* tokenized beside it: strtok's position is all that HostIsOwn fails for (echo).
THEOREM HostIsOwnUnlessRaced == Spec => []("strtok" \notin races => HostIsOwn)
<1>1. ReadInvariant => ("strtok" \notin races => HostIsOwn)
  BY OwnName DEF ReadInvariant, HostIsOwn, IsOwn
<1>. QED
  BY <1>1, ReadInvariantHolds, PTL

-----------------------------------------------------------------------------
(* The DNS text: writing an entry over what was there. *)

\* z is s with x written over it from p up to m.
IsWritten(z, s, x, p, m) ==
    /\ z \in Seq(Symbols) /\ Len(z) = IF Len(s) < m THEN m - 1 ELSE Len(s)
    /\ \A i \in 1 .. Len(z) : z[i] = IF p <= i /\ i < m THEN x[i + 1 - p] ELSE s[i]

LEMMA WrittenFacts ==
    ASSUME NEW s \in Seq(Symbols), NEW x \in Seq(Symbols), NEW p \in 1 .. Len(s) + 1,
           NEW e, e.at = p, e.rest = x, NEW m, m = p + Len(x)
    PROVE  IsWritten(Written(s, e), s, x, p, m)
<1>0. PICK n : n = IF Len(s) < p + Len(x) THEN p + Len(x) - 1 ELSE Len(s)
  OBVIOUS
<1>1. Len(s) \in Nat /\ Len(x) \in Nat /\ p \in Nat \ {0} /\ m \in Nat /\ n \in Nat
  BY <1>0
<1>. DEFINE f(i) == IF p <= i /\ i < p + Len(x) THEN x[i + 1 - p] ELSE s[i]
            z == [i \in 1 .. n |-> f(i)]
<1>2. Written(s, e) = z
  <2>1. Written(s, e) =
          [i \in 1 .. (IF Len(s) < p + Len(x) THEN p + Len(x) - 1 ELSE Len(s)) |-> f(i)]
    BY Zenon DEF Written
  <2>. QED
    BY <1>0, <2>1, Zenon
<1>3. ASSUME NEW i \in 1 .. n PROVE f(i) \in Symbols
  <2>1. CASE p <= i /\ i < p + Len(x)
    <3>1. i + 1 - p \in 1 .. Len(x)
      BY <1>1, <2>1
    <3>. QED
      BY <1>1, <2>1, <3>1, ElementOfSeq
  <2>2. CASE ~(p <= i /\ i < p + Len(x))
    <3>1. i \in 1 .. Len(s)
      BY <1>0, <1>1, <2>2
    <3>. QED
      BY <2>2, <3>1, ElementOfSeq
  <2>. QED
    BY <2>1, <2>2
<1>4. z \in Seq(Symbols) /\ Len(z) = n /\ \A i \in 1 .. n : z[i] = f(i)
  <2>1. z \in [1 .. n -> Symbols]
    BY <1>3
  <2>2. \A i \in 1 .. n : z[i] = f(i)
    OBVIOUS
  <2>. HIDE DEF z, f
  <2>. QED
    BY <1>1, <2>1, <2>2
<1>. QED
  <2>. HIDE DEF z
  <2>1. IsWritten(z, s, x, p, m)
    BY <1>0, <1>4 DEF IsWritten
  <2>. QED
    BY <1>2, <2>1, Zenon

\* Names and addresses have nothing in them that ends a name or a line.
LEMMA NamesFacts ==
    ASSUME NamesApart
    PROVE  /\ \A h \in Hosts : /\ h \in Seq(Symbols) /\ Len(h) \in Nat \ {0}
                               /\ \A j \in 1 .. Len(h) : h[j] \notin {":", "\n", Nul}
           /\ \A a \in Addresses : /\ a \in Seq(Symbols) /\ Len(a) \in Nat \ {0}
                                   /\ \A j \in 1 .. Len(a) : a[j] \notin {":", "\n", Nul}
<1>1. \A h \in Hosts : /\ h \in Seq(Symbols) /\ Len(h) \in Nat \ {0}
                       /\ \A j \in 1 .. Len(h) : h[j] \in Letters
  BY HostFacts
<1>2. Letters \cap {":", "\n", Nul} = {} /\ Digits \cap {":", "\n", Nul} = {}
  BY TextAssumption DEF NamesApart
<1>3. \A a \in Addresses : \A j \in 1 .. Len(a) : a[j] \in Digits
  <2>. SUFFICES ASSUME NEW a \in Addresses PROVE \A j \in 1 .. Len(a) : a[j] \in Digits
    OBVIOUS
  <2>1. a \in Seq(Digits)
    BY TextAssumption
  <2>. QED
    BY <2>1, ElementOfSeq
<1>4. \A h \in Hosts : \A j \in 1 .. Len(h) : h[j] \notin {":", "\n", Nul}
  BY <1>1, <1>2
<1>5. \A a \in Addresses : \A j \in 1 .. Len(a) : a[j] \notin {":", "\n", Nul}
  BY <1>2, <1>3
<1>. QED
  BY <1>1, <1>4, <1>5, AddressTyped

\* An entry has one colon and one end of a line, if it has room for them; one without
\* the end of a line is as long as an entry can be.
LEMMA EntrySymbols ==
    ASSUME NamesApart, NEW h \in Hosts, NEW a \in Addresses, NEW x, x = Entry(h, a)
    PROVE  /\ x \in Seq(Symbols) /\ Len(x) \in 1 .. EntryRoom
           /\ \A j \in 1 .. Len(x) : x[j] = "\n" <=> j = Len(h) + Len(a) + 2
           /\ \A j \in 1 .. Len(x) : x[j] = ":" <=> j = Len(h) + 1
           /\ x[Len(x)] # "\n" => Len(x) = EntryRoom
           /\ x[Len(x)] = "\n" => Len(x) = Len(h) + Len(a) + 2
           /\ Len(x) <= Len(h) + Len(a) + 2
<1>. DEFINE k == Len(h)
            l == Len(a)
            L == Len(x)
<1>1. /\ h \in Seq(Symbols) /\ k \in Nat \ {0} /\ \A j \in 1 .. k : h[j] \notin {":", "\n"}
      /\ a \in Seq(Symbols) /\ l \in Nat \ {0} /\ \A j \in 1 .. l : a[j] \notin {":", "\n"}
  BY NamesFacts
<1>2. /\ x \in Seq(Symbols) /\ L \in 1 .. EntryRoom
      /\ L = IF k + l + 2 <= EntryRoom THEN k + l + 2 ELSE EntryRoom
      /\ \A j \in 1 .. L :
            /\ j <= k => x[j] = h[j]
            /\ j = k + 1 => x[j] = ":"
            /\ j > k + 1 /\ j < k + l + 2 => x[j] = a[j - k - 1]
            /\ j = k + l + 2 => x[j] = "\n"
  BY <1>1, EntryFacts
<1>3. EntryRoom \in Nat \ {0}
  BY ConstantsAssumption
<1>. HIDE DEF k, l, L
<1>4. L <= k + l + 2 /\ L \in Nat \ {0}
  BY <1>1, <1>2, <1>3
<1>5. ASSUME NEW j \in 1 .. L
      PROVE  (x[j] = "\n" <=> j = k + l + 2) /\ (x[j] = ":" <=> j = k + 1)
  <2>1. CASE j <= k
    <3>1. j \in 1 .. k /\ x[j] = h[j] /\ j # k + 1 /\ j # k + l + 2
      BY <1>1, <1>2, <2>1
    <3>. QED
      BY <1>1, <3>1
  <2>2. CASE j = k + 1
    <3>1. x[j] = ":" /\ j # k + l + 2
      BY <1>1, <1>2, <2>2
    <3>. QED
      BY <2>2, <3>1
  <2>3. CASE j > k + 1 /\ j < k + l + 2
    <3>1. j - k - 1 \in 1 .. l /\ x[j] = a[j - k - 1] /\ j # k + 1 /\ j # k + l + 2
      BY <1>1, <1>2, <2>3
    <3>. QED
      BY <1>1, <3>1
  <2>4. CASE j = k + l + 2
    <3>1. x[j] = "\n" /\ j # k + 1
      BY <1>1, <1>2, <2>4
    <3>. QED
      BY <2>4, <3>1
  <2>5. j \in Nat /\ j <= k + l + 2
    BY <1>1, <1>4
  <2>. QED
    BY <1>1, <2>1, <2>2, <2>3, <2>4, <2>5
<1>6. L \in 1 .. L
  BY <1>4
<1>7. (x[L] # "\n" => L = EntryRoom) /\ (x[L] = "\n" => L = k + l + 2)
  BY <1>1, <1>2, <1>3, <1>5, <1>6
<1>. QED
  BY <1>2, <1>4, <1>5, <1>7 DEF k, l, L

\* The only name in an entry is the one it is of.
LEMMA NamesInEntry ==
    ASSUME NamesApart, NEW g \in Hosts, NEW h \in Hosts, NEW a \in Addresses,
           NEW q \in Places(g, Entry(h, a))
    PROVE  g = h /\ q = 1
<1>. DEFINE x == Entry(h, a)
            n == Len(g)
            k == Len(h)
            l == Len(a)
            L == Len(x)
<1>1. /\ g \in Seq(Symbols) /\ n \in Nat \ {0} /\ \A j \in 1 .. n : g[j] \notin {":", "\n"}
      /\ h \in Seq(Symbols) /\ k \in Nat \ {0}
      /\ a \in Seq(Symbols) /\ l \in Nat \ {0}
  BY NamesFacts
<1>2. /\ x \in Seq(Symbols) /\ L \in Nat /\ L <= k + l + 2
      /\ \A j \in 1 .. L : x[j] = "\n" <=> j = k + l + 2
      /\ \A j \in 1 .. L : x[j] = ":" <=> j = k + 1
  <2>1. L \in 1 .. EntryRoom => L \in Nat
    BY ConstantsAssumption
  <2>. QED
    BY <2>1, EntrySymbols
<1>3. \A j \in 1 .. L : /\ j <= k => x[j] = h[j]
                        /\ j > k + 1 /\ j < k + l + 2 => x[j] = a[j - k - 1]
  BY <1>1, EntryFacts
<1>4. q \in 1 .. L - n + 1 /\ \A j \in 1 .. n : x[q + j - 1] = g[j]
  BY <1>1, <1>2, PlacesFacts
<1>. HIDE DEF x, n, k, l, L
<1>5. q \in Nat \ {0} /\ q + n - 1 <= L
  BY <1>1, <1>2, <1>4
<1>6. \A m \in q .. q + n - 1 : m \in 1 .. L /\ x[m] \notin {":", "\n"}
  <2>. SUFFICES ASSUME NEW m \in q .. q + n - 1 PROVE m \in 1 .. L /\ x[m] \notin {":", "\n"}
    OBVIOUS
  <2>1. m - q + 1 \in 1 .. n /\ q + (m - q + 1) - 1 = m /\ m \in 1 .. L
    BY <1>1, <1>2, <1>5
  <2>. QED
    BY <1>1, <1>4, <2>1
<1>7. q <= k + 1 => q + n - 1 < k + 1
  <2>. SUFFICES ASSUME q <= k + 1, ~(q + n - 1 < k + 1) PROVE FALSE
    OBVIOUS
  <2>1. k + 1 \in q .. q + n - 1
    BY <1>1, <1>5
  <2>. QED
    BY <1>2, <1>6, <2>1
<1>8. CASE q <= k + 1
  <2>1. q + n - 1 <= k
    BY <1>1, <1>5, <1>7, <1>8
  <2>2. \A j \in 1 .. n : h[q + j - 1] = g[j]
    <3>. SUFFICES ASSUME NEW j \in 1 .. n PROVE h[q + j - 1] = g[j]
      OBVIOUS
    <3>1. q + j - 1 \in 1 .. L /\ q + j - 1 <= k
      BY <1>1, <1>2, <1>5, <2>1
    <3>. QED
      BY <1>3, <1>4, <3>1
  <2>3. q \in 1 .. k - n + 1
    BY <1>1, <1>5, <2>1
  <2>4. q \in Places(g, h)
    BY <1>1, <2>2, <2>3, PlacesFacts DEF n, k
  <2>5. g = h
    BY <2>4 DEF NamesApart, Occurs
  <2>6. n = k
    BY <2>5 DEF n, k
  <2>. QED
    BY <1>1, <1>5, <2>1, <2>5, <2>6
<1>9. CASE ~(q <= k + 1)
  <2>1. q + n - 1 < k + l + 2
    <3>. SUFFICES ASSUME ~(q + n - 1 < k + l + 2) PROVE FALSE
      OBVIOUS
    <3>1. k + l + 2 \in q .. q + n - 1
      BY <1>1, <1>2, <1>5
    <3>. QED
      BY <1>2, <1>6, <3>1
  <2>2. \A j \in 1 .. n : a[(q - k - 1) + j - 1] = g[j]
    <3>. SUFFICES ASSUME NEW j \in 1 .. n PROVE a[(q - k - 1) + j - 1] = g[j]
      OBVIOUS
    <3>1. /\ q + j - 1 \in 1 .. L /\ q + j - 1 > k + 1 /\ q + j - 1 < k + l + 2
          /\ (q + j - 1) - k - 1 = (q - k - 1) + j - 1
      BY <1>1, <1>2, <1>5, <1>9, <2>1
    <3>. QED
      BY <1>3, <1>4, <3>1
  <2>3. q - k - 1 \in 1 .. l - n + 1
    BY <1>1, <1>5, <1>9, <2>1
  <2>4. q - k - 1 \in Places(g, a)
    BY <1>1, <2>2, <2>3, PlacesFacts DEF n, l
  <2>. QED
    BY <2>4 DEF NamesApart, Occurs
<1>. QED
  BY <1>8, <1>9

\* Where addIpToCache writes.
LineBegins(s, p) == p = 1 \/ s[p - 1] = "\n"
OnlyAddresses(A) == \A h \in DOMAIN AddressOf : A[h] \subseteq Addresses

\* A text that was good is so with an entry written over it, at its beginning or behind
\* the end of a line, if there is not more of it than one entry: an entry that was cut
\* then ends the text, and behind another there is what an older one leaves of itself.
LEMMA OverwriteKeepsGood ==
    ASSUME NamesApart, NEW s \in Seq(Symbols), NEW A, GoodText(s, A), OnlyAddresses(A),
           NEW h \in DOMAIN AddressOf, NEW a \in A[h],
           NEW p \in 1 .. Len(s) + 1, LineBegins(s, p), Len(s) <= p - 1 + EntryRoom,
           NEW e, e.at = p, e.rest = Entry(h, a)
    PROVE  GoodText(Written(s, e), A)
<1>. DEFINE x == Entry(h, a)
            z == Written(s, e)
<1>0. PICK L : L = Len(x)
  OBVIOUS
<1>1. h \in Hosts /\ a \in Addresses
  BY DEF Hosts, OnlyAddresses
<1>2. /\ x \in Seq(Symbols) /\ L \in Nat \ {0} /\ EntryRoom \in Nat /\ L <= EntryRoom
      /\ x[L] # "\n" => L = EntryRoom
  <2>1. x \in Seq(Symbols) /\ L \in 1 .. EntryRoom /\ (x[L] # "\n" => L = EntryRoom)
    BY <1>0, <1>1, EntrySymbols
  <2>. QED
    BY <2>1, ConstantsAssumption
<1>3. e.rest = x
  OBVIOUS
<1>. HIDE DEF x
<1>4. Len(s) \in Nat /\ p \in Nat \ {0} /\ p <= Len(s) + 1
  OBVIOUS
<1>5. /\ z \in Seq(Symbols)
      /\ Len(z) = IF Len(s) < p + L THEN p + L - 1 ELSE Len(s)
      /\ \A i \in 1 .. Len(z) : z[i] = IF p <= i /\ i < p + L THEN x[i + 1 - p] ELSE s[i]
  <2>1. PICK m : m = p + L
    OBVIOUS
  <2>2. IsWritten(z, s, x, p, m)
    BY <1>0, <1>2, <1>3, <2>1, WrittenFacts
  <2>. HIDE DEF z
  <2>3. z \in Seq(Symbols) /\ Len(z) = IF Len(s) < m THEN m - 1 ELSE Len(s)
    BY <2>2, Zenon DEF IsWritten
  <2>4. \A i \in 1 .. Len(z) : z[i] = IF p <= i /\ i < m THEN x[i + 1 - p] ELSE s[i]
    BY <2>2, Zenon DEF IsWritten
  <2>. QED
    BY <1>2, <1>4, <2>1, <2>3, <2>4
<1>. HIDE DEF z
<1>6. /\ p + L - 1 <= Len(z) /\ Len(s) <= Len(z) /\ Len(z) \in Nat
      /\ \A i \in p .. p + L - 1 : z[i] = x[i + 1 - p]
      /\ \A i \in 1 .. p - 1 : z[i] = s[i] /\ i <= Len(s)
      /\ \A i \in p + L .. Len(z) : z[i] = s[i] /\ i <= Len(s) /\ Len(z) = Len(s)
  <2>1. p + L - 1 <= Len(z) /\ Len(s) <= Len(z) /\ Len(z) \in Nat
    BY <1>2, <1>4, <1>5
  <2>2. ASSUME NEW i \in p .. p + L - 1 PROVE z[i] = x[i + 1 - p]
    <3>1. i \in 1 .. Len(z) /\ p <= i /\ i < p + L
      BY <1>2, <1>4, <2>1
    <3>. QED
      BY <1>5, <3>1
  <2>3. ASSUME NEW i \in 1 .. p - 1 PROVE z[i] = s[i] /\ i <= Len(s)
    <3>1. i \in 1 .. Len(z) /\ ~(p <= i) /\ i <= Len(s)
      BY <1>4, <2>1
    <3>. QED
      BY <1>5, <3>1
  <2>4. \A i \in p + L .. Len(z) : z[i] = s[i] /\ i <= Len(s) /\ Len(z) = Len(s)
    BY <1>2, <1>4, <1>5, <2>1
  <2>. QED
    BY <2>1, <2>2, <2>3, <2>4
<1>7. x[L] # "\n" => Len(z) = p + L - 1
  <2>. SUFFICES ASSUME x[L] # "\n" PROVE Len(z) = p + L - 1
    OBVIOUS
  <2>1. L = EntryRoom /\ Len(s) <= p - 1 + L
    BY <1>2
  <2>. QED
    BY <1>2, <1>4, <1>5, <2>1
<1>8. ASSUME NEW g \in Hosts, NEW i \in Places(g, z) PROVE Followed(z, i, g, A)
  <2>0. PICK n : n = Len(g)
    OBVIOUS
  <2>1. /\ g \in Seq(Symbols) /\ n \in Nat \ {0} /\ \A j \in 1 .. n : g[j] \notin {":", "\n"}
    BY <2>0, NamesFacts
  <2>2. /\ i \in Nat \ {0} /\ i + n - 1 <= Len(z)
        /\ \A j \in 1 .. n : z[i + j - 1] = g[j]
    <3>1. /\ i \in 1 .. Len(z) - Len(g) + 1
          /\ \A j \in 1 .. Len(g) : z[i + j - 1] = g[j]
      BY <1>5, <2>1, PlacesFacts
    <3>. QED
      BY <1>6, <2>0, <2>1, <3>1
  <2>3. \A m \in i .. i + n - 1 : z[m] # "\n"
    <3>. SUFFICES ASSUME NEW m \in i .. i + n - 1 PROVE z[m] # "\n"
      OBVIOUS
    <3>1. m - i + 1 \in 1 .. n /\ i + (m - i + 1) - 1 = m
      BY <2>1, <2>2
    <3>. QED
      BY <2>1, <2>2, <3>1
  \* An older entry of g that the new one leaves alone.
  <2>4. ASSUME i + n - 1 <= Len(s), \A j \in 1 .. n : s[i + j - 1] = g[j]
        PROVE  \E b \in A[g], y \in Seq(Symbols), M \in Nat \ {0} :
                  /\ g \in DOMAIN AddressOf /\ y = Entry(g, b) /\ M = Len(y) /\ i + M - 1 <= Len(s)
                  /\ \A j \in 1 .. M : s[i + j - 1] = y[j]
                  /\ \A j \in 1 .. M - 1 : y[j] # "\n"
                  /\ y[M] # "\n" => i + M - 1 = Len(s)
    <3>1. i \in 1 .. Len(s) - Len(g) + 1
      BY <1>4, <2>0, <2>1, <2>2, <2>4
    <3>2. i \in Places(g, s)
      BY <2>0, <2>1, <2>4, <3>1, PlacesFacts
    <3>3. Followed(s, i, g, A)
      BY <3>2 DEF GoodText
    <3>4. PICK b \in A[g] : /\ g \in DOMAIN AddressOf /\ i \in Places(Entry(g, b), s)
                            /\ Entry(g, b)[Len(Entry(g, b))] # "\n" => i + Len(Entry(g, b)) - 1 = Len(s)
      BY <3>3 DEF Followed
    <3>5. PICK y, M : y = Entry(g, b) /\ M = Len(y)
      OBVIOUS
    <3>6. b \in Addresses
      BY <3>4 DEF OnlyAddresses
    <3>7. /\ y \in Seq(Symbols) /\ M \in Nat \ {0}
          /\ \A j \in 1 .. M : y[j] = "\n" <=> j = Len(g) + Len(b) + 2
          /\ M <= Len(g) + Len(b) + 2
      <4>1. /\ y \in Seq(Symbols) /\ M \in 1 .. EntryRoom
            /\ \A j \in 1 .. M : y[j] = "\n" <=> j = Len(g) + Len(b) + 2
            /\ M <= Len(g) + Len(b) + 2
        BY <3>5, <3>6, EntrySymbols
      <4>. QED
        BY <1>2, <4>1
    <3>8. Len(b) \in Nat
      BY <3>6, AddressTyped
    <3>9. \A j \in 1 .. M - 1 : y[j] # "\n"
      <4>. SUFFICES ASSUME NEW j \in 1 .. M - 1 PROVE y[j] # "\n"
        OBVIOUS
      <4>1. j \in 1 .. M /\ j # Len(g) + Len(b) + 2
        BY <2>0, <2>1, <3>7, <3>8
      <4>. QED
        BY <3>7, <4>1
    <3>10. i \in 1 .. Len(s) - M + 1 /\ \A j \in 1 .. M : s[i + j - 1] = y[j]
      BY <3>4, <3>5, <3>7, PlacesFacts
    <3>11. i + M - 1 <= Len(s)
      BY <1>4, <2>2, <3>7, <3>10
    <3>. QED
      BY <3>4, <3>5, <3>7, <3>9, <3>10, <3>11
  <2>5. CASE i + n <= p
    <3>1. ASSUME NEW j \in 1 .. n PROVE i + j - 1 \in 1 .. p - 1
      BY <1>4, <2>1, <2>2, <2>5
    <3>2. i + n - 1 <= Len(s) /\ p - 1 \in 1 .. p - 1 /\ p # 1 /\ p \in Nat \ {0, 1}
      BY <1>4, <2>1, <2>2, <2>5
    <3>3. s[p - 1] = "\n"
      BY <3>2 DEF LineBegins
    <3>4. PICK b \in A[g], y \in Seq(Symbols), M \in Nat \ {0} :
            /\ g \in DOMAIN AddressOf /\ y = Entry(g, b) /\ M = Len(y) /\ i + M - 1 <= Len(s)
            /\ \A j \in 1 .. M : s[i + j - 1] = y[j]
            /\ \A j \in 1 .. M - 1 : y[j] # "\n"
            /\ y[M] # "\n" => i + M - 1 = Len(s)
      BY <1>6, <2>2, <2>4, <3>1, <3>2
    <3>5. i + M - 1 <= p - 1
      <4>. SUFFICES ASSUME ~(i + M - 1 <= p - 1) PROVE FALSE
        OBVIOUS
      <4>1. p - i \in 1 .. M - 1 /\ p - i \in 1 .. M /\ i + (p - i) - 1 = p - 1
        BY <2>1, <2>2, <2>5, <3>2
      <4>. QED
        BY <3>3, <3>4, <4>1
    <3>6. y[M] = "\n"
      <4>. SUFFICES ASSUME y[M] # "\n" PROVE FALSE
        OBVIOUS
      <4>1. i + M - 1 = p - 1 /\ M \in 1 .. M
        BY <1>4, <2>2, <3>2, <3>4, <3>5
      <4>2. s[i + M - 1] = y[M]
        BY <3>4, <4>1
      <4>. QED
        BY <3>3, <4>1, <4>2
    <3>7. \A j \in 1 .. M : z[i + j - 1] = y[j]
      <4>. SUFFICES ASSUME NEW j \in 1 .. M PROVE z[i + j - 1] = y[j]
        OBVIOUS
      <4>1. i + j - 1 \in 1 .. p - 1
        BY <2>2, <3>2, <3>5
      <4>. QED
        BY <1>6, <3>4, <4>1
    <3>8. i \in 1 .. Len(z) - M + 1
      BY <1>6, <2>2, <3>4
    <3>9. i \in Places(y, z)
      BY <1>5, <3>4, <3>7, <3>8, PlacesFacts
    <3>. QED
      BY <3>4, <3>6, <3>9 DEF Followed
  <2>6. CASE p + L <= i
    <3>1. ASSUME NEW j \in 1 .. n PROVE i + j - 1 \in p + L .. Len(z)
      BY <1>2, <1>4, <1>6, <2>1, <2>2, <2>6
    <3>2. 1 \in 1 .. n
      BY <2>1
    <3>3. Len(z) = Len(s) /\ \A j \in 1 .. n : s[i + j - 1] = g[j]
      BY <1>6, <2>2, <3>1, <3>2
    <3>4. PICK b \in A[g], y \in Seq(Symbols), M \in Nat \ {0} :
            /\ g \in DOMAIN AddressOf /\ y = Entry(g, b) /\ M = Len(y) /\ i + M - 1 <= Len(s)
            /\ \A j \in 1 .. M : s[i + j - 1] = y[j]
            /\ \A j \in 1 .. M - 1 : y[j] # "\n"
            /\ y[M] # "\n" => i + M - 1 = Len(s)
      BY <2>2, <2>4, <3>3
    <3>5. \A j \in 1 .. M : z[i + j - 1] = y[j]
      <4>. SUFFICES ASSUME NEW j \in 1 .. M PROVE z[i + j - 1] = y[j]
        OBVIOUS
      <4>1. i + j - 1 \in p + L .. Len(z)
        BY <1>2, <1>4, <1>6, <2>2, <2>6, <3>3, <3>4
      <4>. QED
        BY <1>6, <3>4, <4>1
    <3>6. i \in 1 .. Len(z) - M + 1
      BY <1>6, <2>2, <3>3, <3>4
    <3>7. i \in Places(y, z)
      BY <1>5, <3>4, <3>5, <3>6, PlacesFacts
    <3>. QED
      BY <3>3, <3>4, <3>7 DEF Followed
  <2>7. CASE i < p /\ p < i + n
    <3>1. p - 1 \in i .. i + n - 1 /\ p # 1 /\ p - 1 \in 1 .. p - 1
      BY <1>4, <2>1, <2>2, <2>7
    <3>2. z[p - 1] = "\n"
      BY <1>6, <3>1 DEF LineBegins
    <3>. QED
      BY <2>3, <3>1, <3>2
  <2>8. CASE p <= i /\ i < p + L
    <3>1. i + n - 1 <= p + L - 1
      <4>1. CASE x[L] # "\n"
        BY <1>7, <2>2, <4>1
      <4>2. CASE x[L] = "\n"
        <5>. SUFFICES ASSUME ~(i + n - 1 <= p + L - 1) PROVE FALSE
          OBVIOUS
        <5>1. p + L - 1 \in i .. i + n - 1 /\ p + L - 1 \in p .. p + L - 1 /\ p + L - 1 + 1 - p = L
          BY <1>2, <1>4, <2>1, <2>2, <2>8
        <5>. QED
          BY <1>6, <2>3, <4>2, <5>1
      <4>. QED
        BY <4>1, <4>2
    <3>2. i - p + 1 \in Places(g, x)
      <4>1. i - p + 1 \in 1 .. Len(x) - Len(g) + 1
        BY <1>0, <1>2, <1>4, <2>0, <2>1, <2>2, <2>8, <3>1
      <4>2. ASSUME NEW j \in 1 .. Len(g) PROVE x[(i - p + 1) + j - 1] = g[j]
        <5>1. j \in 1 .. n
          BY <2>0
        <5>2. i \in Nat /\ j \in Nat /\ p \in Nat /\ L \in Nat /\ n \in Nat /\ 1 <= j /\ j <= n
          BY <1>2, <1>4, <2>1, <2>2, <5>1
        <5>3. p <= i + j - 1 /\ i + j - 1 <= p + L - 1
          BY <2>8, <3>1, <5>2
        <5>4. i + j - 1 \in p .. p + L - 1
          BY <5>2, <5>3
        <5>5. (i - p + 1) + j - 1 = (i + j - 1) + 1 - p
          BY <5>2
        <5>. QED
          BY <1>6, <2>2, <5>1, <5>4, <5>5
      <4>. QED
        BY <1>2, <2>1, <4>1, <4>2, PlacesFacts
    <3>3. g = h /\ i - p + 1 = 1
      BY <1>1, <3>2, NamesInEntry DEF x
    <3>4. i = p
      BY <1>4, <2>2, <3>3
    <3>5. p \in Places(x, z)
      <4>1. p \in 1 .. Len(z) - L + 1
        BY <1>2, <1>4, <1>6
      <4>2. ASSUME NEW j \in 1 .. L PROVE z[p + j - 1] = x[j]
        <5>1. p + j - 1 \in p .. p + L - 1 /\ (p + j - 1) + 1 - p = j
          BY <1>2, <1>4
        <5>. QED
          BY <1>6, <5>1
      <4>. QED
        BY <1>0, <1>2, <1>5, <4>1, <4>2, PlacesFacts
    <3>6. x[L] # "\n" => p + L - 1 = Len(z)
      BY <1>7
    <3>. QED
      BY <1>0, <3>3, <3>4, <3>5, <3>6 DEF Followed, x
  <2>. QED
    BY <1>2, <1>4, <2>1, <2>2, <2>5, <2>6, <2>7, <2>8
<1>. QED
  BY <1>8 DEF GoodText, z

-----------------------------------------------------------------------------
(* The answers of gethostbyname. *)

LEMMA AnswersGrow ==
    ASSUME races \subseteq races'
    PROVE  \A h \in DOMAIN AddressOf :
              /\ AddressOf[h] \in Answers'[h] /\ AddressOf[h] \in Addresses
              /\ Answers[h] \subseteq Addresses /\ Answers'[h] \subseteq Addresses
              /\ Answers[h] \subseteq Answers'[h]
              /\ "hostent" \in races' => Answers'[h] = Addresses
BY ConstantsAssumption DEF Answers

LEMMA AddressStep ==
    ASSUME TypeInvariant, ReadInvariant, AddressInvariant, NEW t \in Threads, StepOf(t)
    PROVE  AddressInvariant'
<1>. SUFFICES ASSUME "strtok" \notin races', NEW u \in Threads PROVE AddressKnown(u)'
  BY DEF AddressInvariant
<1>1. /\ OthersAsBefore(t) /\ races \subseteq races'
      /\ \A v \in Threads : AddressKnown(v) /\ ReadSoFar(v)
  BY OthersUntouched DEF AddressInvariant, ReadInvariant
<1>2. DOMAIN pc = Threads /\ DOMAIN local = Threads /\ LocalTyped(t)
  BY DEF TypeInvariant
<1>3. CASE u # t
  <2>1. pc'[u] = pc[u] /\ local'[u] = local[u] /\ asked'[u] = asked[u]
    BY <1>1, <1>3 DEF OthersAsBefore
  <2>2. pc[u] = "copy" => hostent' = hostent \/ (hostent' \in Addresses /\ "hostent" \in races')
    <3>1. CASE Resolve(t)
      BY <1>3, <3>1, AnswersGrow, <1>1 DEF Resolve, Raced
    <3>2. CASE ~Resolve(t)
      <4>1. ASSUME NEW r \in Requests, Accept(t, r) PROVE hostent' = hostent
        BY <4>1 DEF Accept
      <4>2. ASSUME NEW from, NEW to, LoadPosition(t, from, to) PROVE hostent' = hostent
        BY <4>2 DEF LoadPosition
      <4>3. ASSUME NEW from, NEW f, NEW d, NEW to, ReadToken(t, from, f, d, to)
            PROVE hostent' = hostent
        BY <4>3 DEF ReadToken
      <4>4. CASE Parse(t)
        BY <4>4 DEF Parse
      <4>5. CASE LookUpPage(t) \/ LookUpHost(t) \/ ReadLine(t)
        BY <4>5 DEF LookUpPage, LookUpHost, ReadLine
      <4>6. CASE \/ CopyAddress(t) \/ AddIpToCache(t) \/ WriteEntry(t) \/ CheckBlacklist(t)
                 \/ Fetch(t)
        BY <4>6 DEF CopyAddress, AddIpToCache, WriteEntry, CheckBlacklist, Fetch
      <4>. QED
        BY <3>2, <4>1, <4>2, <4>3, <4>4, <4>5, <4>6 DEF StepOf, ThreadStep
    <3>. QED
      BY <3>1, <3>2
  <2>3. AddressKnown(u)
    BY <1>1
  <2>. QED
    BY <1>1, <2>1, <2>2, <2>3, AnswersGrow DEF AddressKnown
<1>4. CASE u = t
  <2>1. CASE Resolve(t)
    <3>1. CASE pc'[t] = "copy"
      <4>1. /\ HostName(t) \in DOMAIN AddressOf /\ hostent' = AddressOf[HostName(t)]
            /\ asked' = asked /\ pc[t] = "resolve"
        BY <1>2, <2>1, <3>1 DEF Resolve, End, Leave, clients
      <4>2. HostName(t) = asked[t].host
        BY <1>1, <4>1, OwnName DEF Parsed
      <4>. QED
        BY <1>1, <1>4, <3>1, <4>1, <4>2, AnswersGrow DEF AddressKnown
    <3>2. CASE pc'[t] # "copy"
      <4>1. pc'[t] = "idle"
        BY <1>2, <2>1, <3>2 DEF Resolve, End, Leave, Goto
      <4>. QED
        BY <1>4, <4>1 DEF AddressKnown
    <3>. QED
      BY <3>1, <3>2
  <2>2. CASE CopyAddress(t)
    <3>1. /\ pc[t] = "copy" /\ pc'[t] = "add" /\ asked' = asked /\ local'[t].address = hostent
      BY <1>2, <2>2 DEF CopyAddress, Goto, clients, LocalTyped
    <3>2. AddressKnown(t)
      BY <1>1
    <3>. QED
      BY <1>1, <1>4, <3>1, <3>2, AnswersGrow DEF AddressKnown
  <2>3. CASE AddIpToCache(t) \/ WriteEntry(t)
    <3>1. /\ pc[t] \in {"add", "write"} /\ pc'[t] \in {"write", "list"} /\ asked' = asked
      BY <1>2, <2>3 DEF AddIpToCache, WriteEntry, Goto, clients
    <3>2. local' = local \/ \E e : local' = [local EXCEPT ![t].entry = e]
      BY <2>3 DEF AddIpToCache, WriteEntry
    <3>3. local'[t].address = local[t].address
      BY <1>2, <3>2 DEF LocalTyped
    <3>4. AddressKnown(t)
      BY <1>1
    <3>. QED
      BY <1>1, <1>4, <3>1, <3>3, <3>4, AnswersGrow DEF AddressKnown
  <2>4. CASE ~(Resolve(t) \/ CopyAddress(t) \/ AddIpToCache(t) \/ WriteEntry(t))
    <3>1. pc'[t] \notin {"copy", "add", "write"}
      <4>1. ASSUME NEW r \in Requests, Accept(t, r) PROVE pc'[t] \notin {"copy", "add", "write"}
        BY <1>2, <4>1 DEF Accept, Goto
      <4>2. CASE \/ LoadPosition(t, "url", "urlEnd") \/ LoadPosition(t, "version", "versionEnd")
                 \/ LoadPosition(t, "line", "lineEnd")
        BY <1>2, <4>2 DEF LoadPosition, Goto
      <4>3. CASE \/ ReadToken(t, "urlEnd", "hostName", Space, "version")
                 \/ ReadToken(t, "versionEnd", "version", "\r", "parse")
        BY <1>2, <4>3 DEF ReadToken, Goto
      <4>4. CASE Parse(t) \/ LookUpPage(t) \/ LookUpHost(t) \/ ReadLine(t) \/ CheckBlacklist(t)
                 \/ Fetch(t)
        BY <1>2, <4>4 DEF Parse, LookUpPage, LookUpHost, ReadLine, CheckBlacklist, Fetch,
           Goto, End, Send, Leave
      <4>. QED
        BY <2>4, <4>1, <4>2, <4>3, <4>4 DEF StepOf, ThreadStep
    <3>. QED
      BY <1>4, <3>1 DEF AddressKnown
  <2>. QED
    BY <2>1, <2>2, <2>3, <2>4
<1>. QED
  BY <1>3, <1>4

LEMMA AddressInvariantHolds == Spec => []AddressInvariant
<1>1. Init => AddressInvariant
  BY DEF Init, AddressInvariant, AddressKnown
<1>2. TypeInvariant /\ ReadInvariant /\ AddressInvariant /\ [Next]_vars => AddressInvariant'
  <2>. SUFFICES ASSUME TypeInvariant, ReadInvariant, AddressInvariant, [Next]_vars
                PROVE  AddressInvariant'
    OBVIOUS
  <2>1. CASE UNCHANGED vars
    BY <2>1 DEF vars, clients, AddressInvariant, AddressKnown, Answers
  <2>2. ASSUME NEW line \in Lines, Forbid(line) PROVE AddressInvariant'
    BY <2>2 DEF Forbid, clients, AddressInvariant, AddressKnown, Answers
  <2>3. ASSUME NEW t \in Threads, StepOf(t) PROVE AddressInvariant'
    BY <2>3, AddressStep
  <2>. QED
    BY <2>1, <2>2, <2>3 DEF Next, StepOf
<1>. QED
  BY <1>1, <1>2, TypeInvariantHolds, ReadInvariantHolds, PTL DEF Spec

-----------------------------------------------------------------------------
(* The entry, symbol by symbol. *)

\* Text y and the entry d that is left of e, whose rest is x, are as s and e are.
GoesOn(y, d, s, e, x) ==
    /\ y \in Seq(Symbols) /\ d.at \in 1 .. Len(y) + 1
    /\ d.rest \in Seq(Symbols)
    /\ Len(x) # 1 => d.rest # <<>>
    /\ Len(x) = 1 => y = Written(s, e)
    /\ Written(y, d) = Written(s, e)

\* With its first symbol written, the rest of an entry makes the same text.
LEMMA WriteOne ==
    ASSUME NEW s \in Seq(Symbols), NEW e, NEW x \in Seq(Symbols), x # <<>>, e.rest = x,
           NEW p \in 1 .. Len(s) + 1, e.at = p,
           NEW y, y = IF p > Len(s) THEN Append(s, Head(x)) ELSE [s EXCEPT ![p] = Head(x)],
           NEW d, d.at = p + 1, d.rest = Tail(x)
    PROVE  GoesOn(y, d, s, e, x)
<1>. DEFINE w == Tail(x)
<1>1. /\ Len(s) \in Nat /\ p \in Nat \ {0} /\ p <= Len(s) + 1 /\ Len(x) \in Nat \ {0}
      /\ Head(x) = x[1] /\ x[1] \in Symbols
  <2>1. Len(x) \in Nat \ {0}
    BY EmptySeq
  <2>. QED
    BY <2>1, ElementOfSeq
<1>2. /\ w \in Seq(Symbols) /\ Len(w) = Len(x) - 1
      /\ \A i \in 1 .. Len(w) : w[i] = x[i + 1]
  BY HeadTailProperties
<1>3. /\ y \in Seq(Symbols) /\ Len(y) = IF p > Len(s) THEN p ELSE Len(s)
      /\ \A i \in 1 .. Len(y) : y[i] = IF i = p THEN x[1] ELSE s[i]
  <2>1. CASE p > Len(s)
    <3>1. p = Len(s) + 1 /\ y = Append(s, x[1])
      BY <1>1, <2>1
    <3>2. /\ Append(s, x[1]) \in Seq(Symbols) /\ Len(Append(s, x[1])) = Len(s) + 1
          /\ \A i \in 1 .. Len(s) + 1 : Append(s, x[1])[i] = IF i = Len(s) + 1 THEN x[1] ELSE s[i]
      <4>1. /\ Append(s, x[1]) \in Seq(Symbols) /\ Len(Append(s, x[1])) = Len(s) + 1
            /\ \A i \in 1 .. Len(s) : Append(s, x[1])[i] = s[i]
            /\ Append(s, x[1])[Len(s) + 1] = x[1]
        BY <1>1, AppendProperties
      <4>. QED
        BY <1>1, <4>1
    <3>. QED
      BY <1>1, <2>1, <3>1, <3>2
  <2>2. CASE ~(p > Len(s))
    <3>1. p \in 1 .. Len(s) /\ y = [s EXCEPT ![p] = x[1]]
      BY <1>1, <2>2
    <3>. QED
      BY <1>1, <2>2, <3>1, ExceptSeq
  <2>. QED
    BY <2>1, <2>2
<1>. HIDE DEF w
<1>4. PICK m : m = p + Len(x)
  OBVIOUS
<1>5. m = p + 1 + Len(w) /\ m \in Nat /\ m > p /\ p + 1 \in 1 .. Len(y) + 1
  BY <1>1, <1>2, <1>3, <1>4
<1>. DEFINE z == Written(s, e)
            v == Written(y, d)
<1>6. IsWritten(z, s, x, p, m)
  BY <1>4, WrittenFacts
<1>7. IsWritten(v, y, w, p + 1, m)
  <2>1. d.rest = w
    BY DEF w
  <2>. QED
    BY <1>2, <1>3, <1>5, <2>1, WrittenFacts
<1>. HIDE DEF z, v
<1>8. /\ z \in Seq(Symbols) /\ Len(z) = IF Len(s) < m THEN m - 1 ELSE Len(s)
      /\ \A i \in 1 .. Len(z) : z[i] = IF p <= i /\ i < m THEN x[i + 1 - p] ELSE s[i]
  BY <1>6 DEF IsWritten
<1>9. /\ v \in Seq(Symbols) /\ Len(v) = IF Len(y) < m THEN m - 1 ELSE Len(y)
      /\ \A i \in 1 .. Len(v) : v[i] = IF p + 1 <= i /\ i < m THEN w[i + 1 - (p + 1)] ELSE y[i]
  BY <1>7 DEF IsWritten
<1>10. Len(v) = Len(z) /\ Len(z) \in Nat
  BY <1>1, <1>3, <1>5, <1>8, <1>9
<1>11. ASSUME NEW i \in 1 .. Len(z) PROVE v[i] = z[i]
  <2>1. CASE p + 1 <= i /\ i < m
    <3>1. w[i + 1 - (p + 1)] = x[i + 1 - p]
      <4>1. i + 1 - (p + 1) \in 1 .. Len(w) /\ i + 1 - (p + 1) + 1 = i + 1 - p
        BY <1>1, <1>2, <1>5, <2>1
      <4>. QED
        BY <1>2, <4>1
    <3>2. p <= i
      BY <1>1, <2>1
    <3>. QED
      BY <1>8, <1>9, <1>10, <2>1, <3>1, <3>2
  <2>2. CASE i = p
    <3>1. ~(p + 1 <= i) /\ p <= i /\ i < m /\ i + 1 - p = 1 /\ i \in 1 .. Len(y)
      BY <1>1, <1>3, <1>5, <2>2
    <3>. QED
      BY <1>3, <1>8, <1>9, <1>10, <2>2, <3>1
  <2>3. CASE ~(p <= i /\ i < m)
    <3>1. ~(p + 1 <= i /\ i < m) /\ i # p /\ i \in 1 .. Len(y)
      BY <1>1, <1>3, <1>5, <1>8, <2>3
    <3>. QED
      BY <1>3, <1>8, <1>9, <1>10, <2>3, <3>1
  <2>. QED
    BY <1>1, <2>1, <2>2, <2>3
<1>12. v = z
  BY <1>8, <1>9, <1>10, <1>11, SeqEqual
<1>13. Len(x) = 1 => y = z
  <2>. SUFFICES ASSUME Len(x) = 1 PROVE y = z
    OBVIOUS
  <2>1. Len(y) = Len(z) /\ m = p + 1
    BY <1>1, <1>3, <1>4, <1>8
  <2>2. ASSUME NEW i \in 1 .. Len(z) PROVE y[i] = z[i]
    <3>1. p <= i /\ i < m <=> i = p
      BY <1>1, <2>1
    <3>2. i = p => i + 1 - p = 1
      BY <1>1
    <3>. QED
      BY <1>3, <1>8, <2>1, <3>1, <3>2
  <2>. QED
    BY <1>3, <1>8, <2>1, <2>2, SeqEqual
<1>14. Len(x) # 1 => w # <<>>
  <2>. SUFFICES ASSUME Len(x) # 1, w = <<>> PROVE FALSE
    OBVIOUS
  <2>1. Len(w) = 0
    BY <1>2, EmptySeq
  <2>. QED
    BY <1>1, <1>2, <2>1
<1>. QED
  BY <1>2, <1>3, <1>5, <1>12, <1>13, <1>14 DEF GoesOn, v, z, w

\* What was right stays so when more is.
LEMMA GoodGrows ==
    ASSUME NEW s, NEW A, NEW B, GoodText(s, A), \A h \in DOMAIN AddressOf : A[h] \subseteq B[h]
    PROVE  GoodText(s, B)
BY DEF GoodText, Followed

-----------------------------------------------------------------------------
(* The DNS text holds no name without its address. *)

\* A step that leaves the text alone, and the entries that are being written.
LEMMA DnsStays ==
    ASSUME DnsInvariant, races \subseteq races', UNCHANGED dns,
           \A u \in Threads : pc'[u] = "write" =>
               pc[u] = "write" /\ local'[u].entry = local[u].entry
    PROVE  DnsInvariant'
<1>. SUFFICES ASSUME NamesApart, "strtok" \notin races'
              PROVE  /\ dnsCache' \in Seq(Symbols)
                     /\ dnsLock' = None => GoodText(dnsCache', Answers')
                     /\ \A t \in Threads : pc'[t] = "write" => EntryGood(t)'
  BY DEF DnsInvariant
<1>1. /\ dnsCache \in Seq(Symbols)
      /\ dnsLock = None => GoodText(dnsCache, Answers)
      /\ \A t \in Threads : pc[t] = "write" => EntryGood(t)
      /\ dnsCache' = dnsCache /\ dnsLock' = dnsLock
  BY DEF DnsInvariant, dns
<1>2. \A s : GoodText(s, Answers) => GoodText(s, Answers')
  BY AnswersGrow, GoodGrows
<1>3. ASSUME NEW t \in Threads, pc'[t] = "write" PROVE EntryGood(t)'
  <2>1. EntryGood(t) /\ local'[t].entry = local[t].entry
    BY <1>1, <1>3
  <2>. QED
    BY <1>1, <1>2, <2>1 DEF EntryGood
<1>. QED
  BY <1>1, <1>2, <1>3

LEMMA AddKeepsDns ==
    ASSUME LookupInvariant, RoomInvariant, TypeInvariant, TextInvariant, ReadInvariant,
           AddressInvariant, DnsInvariant, NEW t \in Threads, AddIpToCache(t)
    PROVE  DnsInvariant'
<1>. SUFFICES ASSUME NamesApart, "strtok" \notin races'
              PROVE  /\ dnsCache' \in Seq(Symbols)
                     /\ dnsLock' = None => GoodText(dnsCache', Answers')
                     /\ \A u \in Threads : pc'[u] = "write" => EntryGood(u)'
  BY DEF DnsInvariant
<1>. DEFINE p == FirstLine + 1
            a == local[t].address
            h == asked[t].host
            e == local'[t].entry
<1>1. /\ \A u \in Threads : pc[u] # "write"
      /\ pc[t] = "add" /\ dnsLock = None /\ t # None
      /\ dnsCache' = dnsCache /\ races' = races /\ DOMAIN pc = Threads
  BY ConstantsAssumption DEF TypeInvariant, LookupInvariant, LockHeldByWriter, AddIpToCache
<1>2. /\ dnsCache \in Seq(Symbols) /\ GoodText(dnsCache, Answers)
      /\ AddressKnown(t) /\ ReadSoFar(t)
  BY <1>1 DEF DnsInvariant, AddressInvariant, ReadInvariant
<1>3. HostName(t) = h /\ h \in DOMAIN AddressOf /\ a \in Answers[h]
  BY <1>1, <1>2, OwnName DEF AddressKnown, Parsed
<1>4. /\ Entry(h, a) \in Seq(Symbols) /\ Len(Entry(h, a)) \in 1 .. EntryRoom
      /\ dnsLock' = t /\ pc' = [pc EXCEPT ![t] = "write"]
      /\ e = [at |-> p, rest |-> Entry(h, a)]
  BY <1>3, EntryHasRoom
<1>5. e.at = p /\ e.rest = Entry(h, a)
  BY <1>4
<1>6. /\ p \in 1 .. Len(dnsCache) + 1 /\ LineBegins(dnsCache, p)
      /\ Len(dnsCache) <= p - 1 + EntryRoom
  <2>. DEFINE q == FirstLine
  <2>1. /\ q \in Nat /\ (q # 0 => q \in 1 .. Len(dnsCache) /\ dnsCache[q] = "\n")
        /\ Len(dnsCache) <= q + EntryRoom
    BY <1>2, EndOfLine, PlaceFacts DEF FirstLine, RoomInvariant
  <2>2. Len(dnsCache) \in Nat /\ EntryRoom \in Nat
    BY <1>2, ConstantsAssumption
  <2>3. p = q + 1
    OBVIOUS
  <2>. HIDE DEF q, p
  <2>. QED
    BY <2>1, <2>2, <2>3 DEF LineBegins
<1>. HIDE DEF p, a, h, e
<1>7. GoodText(Written(dnsCache, e), Answers)
  <2>1. OnlyAddresses(Answers)
    BY <1>1, AnswersGrow DEF OnlyAddresses
  <2>. QED
    BY <1>2, <1>3, <1>5, <1>6, <2>1, OverwriteKeepsGood
<1>8. Answers' = Answers
  BY <1>1 DEF Answers
<1>9. EntryGood(t)'
  <2>1. e.rest # <<>>
    BY <1>4, <1>5, EmptySeq
  <2>. QED
    BY <1>1, <1>4, <1>5, <1>6, <1>7, <1>8, <2>1 DEF EntryGood, e
<1>. QED
  BY <1>1, <1>2, <1>4, <1>9

LEMMA WriteKeepsDns ==
    ASSUME LookupInvariant, TypeInvariant, DnsInvariant, NEW t \in Threads, WriteEntry(t)
    PROVE  DnsInvariant'
<1>. SUFFICES ASSUME NamesApart, "strtok" \notin races'
              PROVE  /\ dnsCache' \in Seq(Symbols)
                     /\ dnsLock' = None => GoodText(dnsCache', Answers')
                     /\ \A u \in Threads : pc'[u] = "write" => EntryGood(u)'
  BY DEF DnsInvariant
<1>. DEFINE e == local[t].entry
            d == [at |-> e.at + 1, rest |-> Tail(e.rest)]
            y == IF e.at > Len(dnsCache) THEN Append(dnsCache, Head(e.rest))
                 ELSE [dnsCache EXCEPT ![e.at] = Head(e.rest)]
            done == Len(e.rest) = 1
<1>1. /\ DOMAIN pc = Threads /\ DOMAIN local = Threads /\ LocalTyped(t)
      /\ pc[t] = "write" /\ dnsLock = t /\ t # None
      /\ \A u \in Threads \ {t} : pc[u] # "write"
      /\ races' = races
  BY ConstantsAssumption DEF TypeInvariant, LookupInvariant, LockHeldByWriter, WriteEntry
<1>2. dnsCache \in Seq(Symbols) /\ EntryGood(t)
  BY <1>1 DEF DnsInvariant
<1>3. /\ e.rest \in Seq(Symbols) /\ e.rest # <<>> /\ e.at \in 1 .. Len(dnsCache) + 1
      /\ GoodText(Written(dnsCache, e), Answers)
  BY <1>2 DEF EntryGood
<1>4. /\ dnsCache' = y
      /\ local' = [local EXCEPT ![t].entry = IF done THEN Fresh.entry ELSE d]
      /\ dnsLock' = IF done THEN None ELSE dnsLock
      /\ pc' = [pc EXCEPT ![t] = IF done THEN "list" ELSE "write"]
  BY DEF WriteEntry, Goto
<1>5. d.at = e.at + 1 /\ d.rest = Tail(e.rest)
  OBVIOUS
<1>6. Answers' = Answers
  BY <1>1 DEF Answers
<1>7. /\ y \in Seq(Symbols) /\ d.at \in 1 .. Len(y) + 1 /\ d.rest \in Seq(Symbols)
      /\ ~done => d.rest # <<>>
      /\ done => y = Written(dnsCache, e)
      /\ Written(y, d) = Written(dnsCache, e)
  <2>1. y = IF e.at > Len(dnsCache) THEN Append(dnsCache, Head(e.rest))
            ELSE [dnsCache EXCEPT ![e.at] = Head(e.rest)]
    OBVIOUS
  <2>. HIDE DEF e, d, y
  <2>2. PICK x, p : x = e.rest /\ p = e.at
    OBVIOUS
  <2>3. /\ x \in Seq(Symbols) /\ x # <<>> /\ e.rest = x
        /\ p \in 1 .. Len(dnsCache) + 1 /\ e.at = p
        /\ d.at = p + 1 /\ d.rest = Tail(x)
        /\ dnsCache \in Seq(Symbols)
    BY <1>2, <1>3, <1>5, <2>2
  <2>4. y = IF p > Len(dnsCache) THEN Append(dnsCache, Head(x))
            ELSE [dnsCache EXCEPT ![p] = Head(x)]
    BY <2>1, <2>2
  <2>5. GoesOn(y, d, dnsCache, e, x)
    BY <2>3, <2>4, WriteOne
  <2>. QED
    BY <2>2, <2>5 DEF GoesOn
<1>8. \A u \in Threads \ {t} : pc'[u] = pc[u]
  BY <1>1, <1>4
<1>. HIDE DEF y
<1>9. CASE done
  <2>1. dnsLock' = None /\ pc'[t] = "list"
    BY <1>1, <1>4, <1>9
  <2>2. GoodText(dnsCache', Answers')
    BY <1>3, <1>4, <1>6, <1>7, <1>9
  <2>. QED
    BY <1>1, <1>4, <1>7, <1>8, <2>1, <2>2
<1>10. CASE ~done
  <2>1. dnsLock' = t /\ pc'[t] = "write" /\ local'[t].entry = d
    <3>. HIDE DEF d, done
    <3>. QED
      BY <1>1, <1>4, <1>10 DEF LocalTyped
  <2>. HIDE DEF d
  <2>2. EntryGood(t)'
    BY <1>3, <1>4, <1>6, <1>7, <1>10, <2>1 DEF EntryGood
  <2>. QED
    BY <1>1, <1>4, <1>7, <1>8, <2>1, <2>2
<1>. QED
  BY <1>9, <1>10

LEMMA DnsInvariantHolds == Spec => []DnsInvariant
<1>1. Init => DnsInvariant
  <2>. SUFFICES ASSUME Init, NamesApart
                PROVE  /\ dnsCache \in Seq(Symbols) /\ GoodText(dnsCache, Answers)
                       /\ \A t \in Threads : pc[t] # "write"
    BY DEF DnsInvariant
  <2>1. dnsCache = <<>> /\ \A t \in Threads : pc[t] # "write"
    BY DEF Init
  <2>2. ASSUME NEW h \in Hosts PROVE Places(h, dnsCache) = {}
    <3>1. Len(h) \in Nat \ {0} /\ Len(dnsCache) = 0
      BY <2>1, HostFacts
    <3>. QED
      BY <3>1 DEF Places
  <2>. QED
    BY <2>1, <2>2 DEF GoodText
<1>2. LookupInvariant /\ RoomInvariant /\ TypeInvariant /\ TextInvariant /\ ReadInvariant
        /\ AddressInvariant /\ DnsInvariant /\ [Next]_vars => DnsInvariant'
  <2>. SUFFICES ASSUME LookupInvariant, RoomInvariant, TypeInvariant, TextInvariant,
                       ReadInvariant, AddressInvariant, DnsInvariant, [Next]_vars
                PROVE  DnsInvariant'
    OBVIOUS
  <2>1. CASE UNCHANGED vars
    BY <2>1, DnsStays DEF vars
  <2>2. ASSUME NEW line \in Lines, Forbid(line) PROVE DnsInvariant'
    BY <2>2, DnsStays DEF Forbid
  <2>3. ASSUME NEW t \in Threads, StepOf(t), ~AddIpToCache(t), ~WriteEntry(t)
        PROVE  DnsInvariant'
    <3>1. OthersAsBefore(t) /\ races \subseteq races' /\ DOMAIN pc = Threads
      BY <2>3, OthersUntouched DEF TypeInvariant
    <3>2. UNCHANGED dns /\ pc'[t] # "write"
      BY <2>3, OnlyAddWrites
    <3>. QED
      BY <3>1, <3>2, DnsStays DEF OthersAsBefore
  <2>4. ASSUME NEW t \in Threads, AddIpToCache(t) \/ WriteEntry(t) PROVE DnsInvariant'
    BY <2>4, AddKeepsDns, WriteKeepsDns
  <2>. QED
    BY <2>1, <2>2, <2>3, <2>4 DEF Next, StepOf
<1>. QED
  BY <1>1, <1>2, LookupInvariantHolds, TypeInvariantHolds, TextInvariantHolds, ReadInvariantHolds,
     AddressInvariantHolds, PTL DEF Spec

\* Places of a part of l symbols that begins at f: counted from its beginning, and its end.
LEMMA WithinPart ==
    ASSUME NEW f \in Nat, NEW l \in Nat, NEW to, to = f + l, NEW m \in f .. to - 1
    PROVE  m - f + 1 \in 1 .. l /\ f + (m - f + 1) - 1 = m
OBVIOUS

LEMMA EndOfPart ==
    ASSUME NEW f \in Nat, NEW l \in Nat \ {0}, NEW to, to = f + l
    PROVE  to - 1 \in Nat /\ f <= (to - 1) + 1 /\ (to - 1) + 1 - f = l
OBVIOUS

\* Behind a name whose entry fits there is its address, up to the end of the line or of
\* the text.
LEMMA EntryGivesAddress ==
    ASSUME NamesApart, NEW s \in Seq(Symbols), NEW i,
           NEW h \in Hosts, NEW a \in Addresses, Len(h) + 1 + Len(a) <= EntryRoom,
           NEW x, x = Entry(h, a), i \in Places(x, s),
           x[Len(x)] # "\n" => i + Len(x) - 1 = Len(s),
           NEW from, from = i + Len(h) + 1
    PROVE  SubSeq(s, from, Find(s, from, {"\n"}) - 1) = a
<1>0. PICK k, l, L, to : k = Len(h) /\ l = Len(a) /\ L = Len(x) /\ to = from + l
  OBVIOUS
<1>1. /\ h \in Seq(Symbols) /\ k \in Nat \ {0}
      /\ a \in Seq(Symbols) /\ l \in Nat \ {0} /\ \A j \in 1 .. l : a[j] \notin {"\n", Nul}
  BY <1>0, NamesFacts
<1>2. /\ x \in Seq(Symbols) /\ EntryRoom \in Nat /\ k + 1 + l <= EntryRoom
      /\ L = IF k + l + 2 <= EntryRoom THEN k + l + 2 ELSE EntryRoom
      /\ \A j \in 1 .. L : /\ j > k + 1 /\ j < k + l + 2 => x[j] = a[j - k - 1]
                           /\ j = k + l + 2 => x[j] = "\n"
  <2>1. /\ x \in Seq(Symbols)
        /\ L = IF k + l + 2 <= EntryRoom THEN k + l + 2 ELSE EntryRoom
        /\ \A j \in 1 .. L : /\ j > k + 1 /\ j < k + l + 2 => x[j] = a[j - k - 1]
                             /\ j = k + l + 2 => x[j] = "\n"
    <3>1. /\ x \in Seq(Symbols)
          /\ Len(x) = IF Len(h) + Len(a) + 2 <= EntryRoom THEN Len(h) + Len(a) + 2 ELSE EntryRoom
          /\ \A j \in 1 .. Len(x) :
                /\ j > Len(h) + 1 /\ j < Len(h) + Len(a) + 2 => x[j] = a[j - Len(h) - 1]
                /\ j = Len(h) + Len(a) + 2 => x[j] = "\n"
      BY <1>1, EntryFacts
    <3>2. k + l + 2 = Len(h) + Len(a) + 2
      BY <1>0
    <3>. QED
      BY <1>0, <3>1, <3>2
  <2>2. EntryRoom \in Nat /\ k + 1 + l <= EntryRoom
    BY <1>0, ConstantsAssumption
  <2>. QED
    BY <2>1, <2>2
<1>3. i \in 1 .. Len(s) - L + 1 /\ \A j \in 1 .. L : s[i + j - 1] = x[j]
  <2>1. x \in Seq(Symbols)
    BY <1>2
  <2>2. i \in 1 .. Len(s) - Len(x) + 1 /\ \A j \in 1 .. Len(x) : s[i + j - 1] = x[j]
    BY <2>1, PlacesFacts
  <2>. QED
    BY <1>0, <2>2
<1>4. Len(s) \in Nat /\ L \in Nat \ {0} /\ (L = k + l + 1 \/ L = k + l + 2)
  BY <1>1, <1>2
<1>5. i \in Nat \ {0} /\ i + L - 1 <= Len(s)
  BY <1>3, <1>4
<1>6. from \in Nat \ {0} /\ to \in Nat /\ to - 1 <= Len(s) /\ from <= to /\ to = i + k + 1 + l
  <2>1. from = i + k + 1 /\ to = from + l /\ k \in Nat /\ l \in Nat
    BY <1>0, <1>1
  <2>. QED
    BY <1>4, <1>5, <2>1
<1>7. ASSUME NEW j \in 1 .. l PROVE from + j - 1 <= Len(s) /\ s[from + j - 1] = a[j]
  <2>1. /\ k + 1 + j \in 1 .. L /\ k + 1 + j > k + 1 /\ k + 1 + j < k + l + 2
        /\ (k + 1 + j) - k - 1 = j /\ i + (k + 1 + j) - 1 = from + j - 1
    BY <1>0, <1>1, <1>4, <1>5
  <2>2. s[from + j - 1] = a[j]
    BY <1>2, <1>3, <2>1
  <2>3. from + j - 1 <= Len(s)
    BY <1>0, <1>1, <1>6
  <2>. QED
    BY <2>2, <2>3
<1>8. to > Len(s) \/ s[to] = "\n"
  <2>1. CASE L = k + l + 2
    <3>1. L \in 1 .. L /\ i + L - 1 = to
      BY <1>1, <1>4, <1>5, <1>6, <2>1
    <3>. QED
      BY <1>2, <1>3, <2>1, <3>1
  <2>2. CASE L = k + l + 1
    <3>1. x[L] # "\n"
      <4>1. L \in 1 .. L /\ L > k + 1 /\ L < k + l + 2 /\ L - k - 1 = l /\ l \in 1 .. l
        BY <1>1, <1>4, <2>2
      <4>. QED
        BY <1>1, <1>2, <4>1
    <3>2. i + L - 1 = Len(s)
      BY <1>0, <3>1
    <3>. QED
      BY <1>1, <1>4, <1>5, <1>6, <2>2, <3>2
  <2>. QED
    BY <1>4, <2>1, <2>2
<1>9. \A m \in from .. to - 1 : m <= Len(s) /\ s[m] # Nul /\ s[m] \notin {"\n"}
  <2>. SUFFICES ASSUME NEW m \in from .. to - 1
                PROVE m <= Len(s) /\ s[m] # Nul /\ s[m] \notin {"\n"}
    OBVIOUS
  <2>1. m - from + 1 \in 1 .. l /\ from + (m - from + 1) - 1 = m
    BY <1>0, <1>1, <1>6, WithinPart
  <2>. QED
    BY <1>1, <1>7, <2>1
<1>10. to \in from .. from + Len(s)
  BY <1>4, <1>5, <1>6
<1>11. Find(s, from, {"\n"}) = to
  BY <1>6, <1>8, <1>9, <1>10, FindAt
<1>. DEFINE y == SubSeq(s, from, to - 1)
<1>12. y \in Seq(Symbols) /\ Len(y) = l /\ \A j \in 1 .. l : y[j] = a[j]
  <2>1. to - 1 \in Nat /\ from <= (to - 1) + 1 /\ (to - 1) + 1 - from = l
    <3>1. from \in Nat /\ l \in Nat \ {0} /\ to = from + l
      BY <1>0, <1>1, <1>6
    <3>. QED
      BY <3>1, EndOfPart
  <2>2. /\ y \in Seq(Symbols) /\ Len(y) = l
        /\ \A j \in 1 .. l : y[j] = s[from + j - 1]
    <3>1. /\ y \in Seq(Symbols) /\ Len(y) = (to - 1) + 1 - from
          /\ \A j \in 1 .. (to - 1) + 1 - from : y[j] = s[from + j - 1]
      BY <1>6, <2>1, PartFacts
    <3>. QED
      BY <2>1, <3>1
  <2>. HIDE DEF y
  <2>. QED
    BY <1>7, <2>2
<1>. HIDE DEF y
<1>13. y = a
  BY <1>0, <1>1, <1>12, SeqEqual
<1>. QED
  BY <1>11, <1>13 DEF y

\* Whenever nobody writes the DNS text, a known name whose entry fits and a colon in it are
\* followed by that name's address, whatever entries of others were cut, unless threads
\* raced for strtok's position or for the answer of gethostbyname (addIpToCache, with the
\* tails that overwritten entries leave).
THEOREM DnsCacheIsRightCorrect == Spec => []DnsCacheIsRight
<1>1. DnsInvariant => DnsCacheIsRight
  <2>. SUFFICES ASSUME DnsInvariant, NamesApart, races \subseteq {"dnsCache"}, dnsLock = None,
                       NEW h \in DOMAIN AddressOf, Fits(h),
                       NEW i \in Places(h \o <<":">>, dnsCache),
                       NEW from, from = i + Len(h) + 1
                PROVE  SubSeq(dnsCache, from, Find(dnsCache, from, {"\n"}) - 1) = AddressOf[h]
    BY DEF DnsCacheIsRight
  <2>. DEFINE c == <<":">>
              x == h \o c
  <2>1. dnsCache \in Seq(Symbols) /\ GoodText(dnsCache, Answers) /\ Answers[h] = {AddressOf[h]}
    BY DEF DnsInvariant, Answers
  <2>2. h \in Hosts /\ h \in Seq(Symbols) /\ Len(h) \in Nat \ {0} /\ AddressOf[h] \in Addresses
    BY HostFacts, ConstantsAssumption DEF Hosts
  <2>3. /\ x \in Seq(Symbols) /\ Len(x) = Len(h) + 1
        /\ \A j \in 1 .. Len(h) : x[j] = h[j]
    <3>1. c \in Seq(Symbols) /\ Len(c) = 1
      BY DEF Symbols
    <3>. HIDE DEF c
    <3>2. /\ x \in Seq(Symbols) /\ Len(x) = Len(h) + Len(c)
          /\ \A j \in 1 .. Len(h) : x[j] = h[j]
      BY <2>2, <3>1, ConcatFacts
    <3>. HIDE DEF x
    <3>. QED
      BY <3>1, <3>2
  <2>. HIDE DEF x
  <2>4. /\ i \in 1 .. Len(dnsCache) - Len(x) + 1
        /\ \A j \in 1 .. Len(x) : dnsCache[i + j - 1] = x[j]
    <3>1. i \in Places(x, dnsCache)
      BY DEF x
    <3>. QED
      BY <2>1, <2>3, <3>1, PlacesFacts
  <2>5. i \in 1 .. Len(dnsCache) - Len(h) + 1 /\ \A j \in 1 .. Len(h) : dnsCache[i + j - 1] = h[j]
    <3>1. Len(dnsCache) \in Nat
      BY <2>1
    <3>. QED
      BY <2>2, <2>3, <2>4, <3>1
  <2>6. i \in Places(h, dnsCache)
    BY <2>1, <2>2, <2>5, PlacesFacts
  <2>7. Followed(dnsCache, i, h, Answers)
    BY <2>1, <2>2, <2>6 DEF GoodText
  <2>8. PICK y : /\ y = Entry(h, AddressOf[h]) /\ i \in Places(y, dnsCache)
                 /\ y[Len(y)] # "\n" => i + Len(y) - 1 = Len(dnsCache)
    BY <2>1, <2>7 DEF Followed
  <2>9. Len(h) + 1 + Len(AddressOf[h]) <= EntryRoom
    BY DEF Fits
  <2>. QED
    BY <2>1, <2>2, <2>8, <2>9, EntryGivesAddress
<1>. QED
  BY <1>1, DnsInvariantHolds, PTL

LEMMA TextsKept ==
    ASSUME TypeInvariant, NEW t \in Threads, StepOf(t), ReadSoFar(t)
    PROVE  OthersTextsKept(t)
<1>1. ASSUME NEW r \in Requests, Accept(t, r) PROVE OthersTextsKept(t)
  BY <1>1, AcceptReads
<1>2. CASE \/ LoadPosition(t, "url", "urlEnd") \/ LoadPosition(t, "version", "versionEnd")
           \/ LoadPosition(t, "line", "lineEnd")
  BY <1>2, LoadPositionReads
<1>3. CASE \/ ReadToken(t, "urlEnd", "hostName", Space, "version")
           \/ ReadToken(t, "versionEnd", "version", "\r", "parse")
  BY <1>3, ReadUrlReads, ReadVersionReads
<1>4. CASE Parse(t)
  BY <1>4, ParseReads
<1>. QED
  BY <1>1, <1>2, <1>3, <1>4, LookUpReads DEF StepOf, ThreadStep

\* What is behind the colon of an entry, or behind the entry if it was cut before that: the
\* address, or as much of it as there is.
LEMMA EntryCutUp ==
    ASSUME NamesApart, NEW s \in Seq(Symbols), NEW h \in Hosts, NEW a \in Addresses,
           NEW x, x = Entry(h, a), NEW match, match \in Places(h, s), match \in Places(x, s),
           x[Len(x)] # "\n" => match + Len(x) - 1 = Len(s),
           NEW first, first = Find(s, match, {":"}),
           NEW z \in Seq(Symbols), Len(z) = Len(s), \A i \in 1 .. Len(s) : i # first => z[i] = s[i],
           NEW p, p = IF first <= Len(s) THEN first + 1 ELSE first
    PROVE  \E m \in Nat : BehindColon(z, p, h, a, m)
<1>0. PICK k, l, L, N : k = Len(h) /\ l = Len(a) /\ L = Len(x) /\ N = Len(s)
  OBVIOUS
<1>1. /\ h \in Seq(Symbols) /\ k \in Nat \ {0} /\ \A j \in 1 .. k : h[j] \notin {":", "\n", Nul}
      /\ a \in Seq(Symbols) /\ l \in Nat \ {0} /\ \A j \in 1 .. l : a[j] \notin {"\n", Nul}
  BY <1>0, NamesFacts
<1>2. /\ x \in Seq(Symbols) /\ EntryRoom \in Nat \ {0}
      /\ L = IF k + l + 2 <= EntryRoom THEN k + l + 2 ELSE EntryRoom
      /\ \A j \in 1 .. L : /\ j <= k => x[j] = h[j]
                           /\ j = k + 1 => x[j] = ":"
                           /\ j > k + 1 /\ j < k + l + 2 => x[j] = a[j - k - 1]
                           /\ j = k + l + 2 => x[j] = "\n"
  <2>1. EntryRoom \in Nat \ {0}
    BY ConstantsAssumption
  <2>2. h \in Seq(Symbols) /\ a \in Seq(Symbols)
    BY <1>1
  <2>3. /\ x \in Seq(Symbols)
        /\ Len(x) = IF Len(h) + Len(a) + 2 <= EntryRoom THEN Len(h) + Len(a) + 2 ELSE EntryRoom
        /\ \A j \in 1 .. Len(x) :
              /\ j <= Len(h) => x[j] = h[j]
              /\ j = Len(h) + 1 => x[j] = ":"
              /\ j > Len(h) + 1 /\ j < Len(h) + Len(a) + 2 => x[j] = a[j - Len(h) - 1]
              /\ j = Len(h) + Len(a) + 2 => x[j] = "\n"
    BY <2>2, EntryFacts
  <2>. QED
    BY <1>0, <2>1, <2>3
<1>3. match \in 1 .. N - L + 1 /\ \A j \in 1 .. L : s[match + j - 1] = x[j]
  <2>1. x \in Seq(Symbols)
    BY <1>2
  <2>2. match \in 1 .. Len(s) - Len(x) + 1 /\ \A j \in 1 .. Len(x) : s[match + j - 1] = x[j]
    BY <2>1, PlacesFacts
  <2>. QED
    BY <1>0, <2>2
<1>4. match \in 1 .. N - k + 1 /\ \A j \in 1 .. k : s[match + j - 1] = h[j]
  <2>1. h \in Seq(Symbols)
    BY <1>1
  <2>2. match \in 1 .. Len(s) - Len(h) + 1 /\ \A j \in 1 .. Len(h) : s[match + j - 1] = h[j]
    BY <2>1, PlacesFacts
  <2>. QED
    BY <1>0, <2>2
<1>5. N \in Nat /\ L \in Nat \ {0} /\ L <= k + l + 2 /\ (L < k + l + 2 => L = EntryRoom)
  BY <1>0, <1>1, <1>2
<1>6. match \in Nat \ {0} /\ match + L - 1 <= N /\ match + k - 1 <= N
  BY <1>1, <1>3, <1>4, <1>5
<1>7. L < k + l + 2 => match + L - 1 = N
  <2>. SUFFICES ASSUME L < k + l + 2 PROVE x[L] # "\n"
    BY <1>0
  <2>1. L \in 1 .. L
    BY <1>5
  <2>2. CASE L <= k
    <3>1. x[L] = h[L] /\ L \in 1 .. k
      BY <1>1, <1>2, <1>5, <2>1, <2>2
    <3>. QED
      BY <1>1, <3>1
  <2>3. CASE L = k + 1
    BY <1>2, <2>1, <2>3
  <2>4. CASE L > k + 1
    <3>1. x[L] = a[L - k - 1] /\ L - k - 1 \in 1 .. l
      BY <1>1, <1>2, <1>5, <2>1, <2>4
    <3>. QED
      BY <1>1, <3>1
  <2>. QED
    BY <1>1, <1>5, <2>2, <2>3, <2>4
<1>8. L >= k
  BY <1>1, <1>5, <1>6, <1>7
<1>9. match + k > N \/ s[match + k] = ":"
  <2>1. CASE L = k
    BY <1>1, <1>5, <1>6, <1>7, <2>1
  <2>2. CASE L > k
    <3>1. k + 1 \in 1 .. L /\ match + (k + 1) - 1 = match + k
      BY <1>1, <1>5, <1>6, <2>2
    <3>2. x[k + 1] = ":"
      BY <1>2, <3>1
    <3>3. s[match + (k + 1) - 1] = x[k + 1]
      BY <1>3, <3>1
    <3>. QED
      BY <3>1, <3>2, <3>3
  <2>. QED
    BY <1>1, <1>5, <1>8, <2>1, <2>2
<1>10. first = match + k
  <2>1. \A j \in match .. (match + k) - 1 : j <= Len(s) /\ s[j] # Nul /\ s[j] \notin {":"}
    <3>. SUFFICES ASSUME NEW j \in match .. (match + k) - 1
                  PROVE  j <= Len(s) /\ s[j] # Nul /\ s[j] \notin {":"}
      OBVIOUS
    <3>1. j - match + 1 \in 1 .. k /\ match + (j - match + 1) - 1 = j /\ j <= N
      BY <1>1, <1>5, <1>6
    <3>. QED
      BY <1>0, <1>1, <1>4, <3>1
  <2>2. match + k \in match .. match + Len(s)
    BY <1>0, <1>1, <1>5, <1>6
  <2>3. match + k > Len(s) \/ s[match + k] = Nul \/ s[match + k] \in {":"}
    BY <1>0, <1>9
  <2>. QED
    BY <1>6, <2>1, <2>2, <2>3, FindAt
<1>11. CASE L = k
  <2>1. p = match + k /\ p = N + 1 /\ k = EntryRoom
    BY <1>0, <1>1, <1>5, <1>6, <1>7, <1>10, <1>11
  <2>2. /\ p \in Nat \ {0} /\ p + 0 <= Len(z) + 1 /\ ~(p + 0 <= Len(z))
        /\ ~(Len(h) + 1 + Len(a) <= EntryRoom) /\ 0 \in 0 .. Len(a) /\ 0 \in Nat
    BY <1>0, <1>1, <1>5, <2>1
  <2>3. ~LeavesALine(h)
    BY <1>0, <2>1 DEF LeavesALine
  <2>4. BehindColon(z, p, h, a, 0)
    BY <2>2, <2>3 DEF BehindColon
  <2>. QED
    BY <2>4
<1>12. CASE L # k
  <2>1. PICK m : m = IF L = k + l + 2 THEN l ELSE L - k - 1
    OBVIOUS
  <2>2. L > k /\ match + k <= N
    BY <1>1, <1>5, <1>6, <1>8, <1>12
  <2>3. p = match + k + 1 /\ m \in Nat /\ m <= l /\ (L < k + l + 2 => m = L - k - 1)
    <3>1. p = match + k + 1
      BY <1>0, <1>10, <2>2
    <3>2. k \in Nat /\ l \in Nat /\ L \in Nat /\ L <= k + l + 2 /\ L > k
      BY <1>1, <1>5, <2>2
    <3>. QED
      BY <2>1, <3>1, <3>2
  <2>4. p \in Nat \ {0} /\ m \in 0 .. l /\ p + m <= N + 1
    BY <1>1, <1>5, <1>6, <1>7, <2>2, <2>3
  <2>5. ASSUME NEW j \in 1 .. m PROVE z[p + j - 1] = a[j]
    <3>0. /\ k \in Nat /\ l \in Nat /\ L \in Nat /\ match \in Nat /\ j \in Nat /\ 1 <= j
          /\ j <= l /\ k + 1 + j <= L /\ p = match + k + 1
      <4>1. k \in Nat /\ l \in Nat /\ L \in Nat /\ match \in Nat /\ L <= k + l + 2
        BY <1>1, <1>5, <1>6
      <4>2. j \in Nat /\ 1 <= j /\ j <= m /\ p = match + k + 1
        BY <2>3
      <4>. QED
        BY <2>1, <2>3, <4>1, <4>2
    <3>1. /\ k + 1 + j \in 1 .. L /\ k + 1 + j > k + 1 /\ k + 1 + j < k + l + 2
          /\ (k + 1 + j) - k - 1 = j /\ match + (k + 1 + j) - 1 = p + j - 1
      BY <3>0
    <3>2. p + j - 1 \in 1 .. N /\ p + j - 1 # first
      BY <1>1, <1>5, <1>6, <1>10, <2>3, <2>4
    <3>3. s[p + j - 1] = a[j]
      BY <1>2, <1>3, <3>1
    <3>. QED
      BY <1>0, <3>2, <3>3
  <2>6. ASSUME p + m <= N PROVE z[p + m] = "\n"
    <3>1. L = k + l + 2 /\ m = l
      BY <1>1, <1>5, <1>6, <1>7, <2>1, <2>3, <2>6
    <3>2. L \in 1 .. L /\ match + L - 1 = p + m /\ p + m \in 1 .. N /\ p + m # first
      BY <1>1, <1>5, <1>6, <1>10, <2>3, <2>4, <2>6, <3>1
    <3>3. s[p + m] = "\n"
      BY <1>2, <1>3, <3>1, <3>2
    <3>. QED
      BY <1>0, <3>2, <3>3
  <2>7. k + 1 + l <= EntryRoom => m = l
    BY <1>1, <1>2, <1>5, <2>1
  <2>8. LeavesALine(h) => m # 0
    <3>. SUFFICES ASSUME m = 0 PROVE k = EntryRoom - 1
      BY <1>0 DEF LeavesALine
    <3>. QED
      BY <1>1, <1>5, <2>1, <2>2
  <2>9. BehindColon(z, p, h, a, m)
    BY <1>0, <2>4, <2>5, <2>6, <2>7, <2>8 DEF BehindColon
  <2>. QED
    BY <2>3, <2>9
<1>. QED
  BY <1>11, <1>12

\* checkDNSCache finds an entry: strtok stops at its colon, or at its end.
LEMMA LookUpFinds ==
    ASSUME NamesApart, TypeInvariant, DnsInvariant, NEW t \in Threads, ReadSoFar(t),
           LookUpHost(t), pc'[t] = "line", races' \subseteq {"hostent"}, races \subseteq races'
    PROVE  LineAt(t, saved)'
<1>. DEFINE b == <<t, "tempBuf">>
            h == asked[t].host
            match == Place(HostName(t), dnsCache)
            first == Find(dnsCache, match, {":"})
            s == dnsCache
            z == [i \in DOMAIN s |-> IF i = first THEN Nul ELSE s[i]]
            p == IF first <= Len(s) THEN first + 1 ELSE first
<1>1. DOMAIN pc = Threads /\ DOMAIN text = Buffers /\ b \in Buffers
  BY OwnBuffers DEF TypeInvariant, SharedTyped
<1>2. HostName(t) = h /\ asked[t] \in Requests /\ asked' = asked
  BY OwnName DEF LookUpHost, Parsed, clients
<1>3. match # 0
  BY <1>1 DEF LookUpHost, Goto
<1>4. text' = [text EXCEPT ![b] = z] /\ saved' = Pointer(b, p)
  BY <1>3 DEF LookUpHost
<1>5. s \in Seq(Symbols) /\ GoodText(s, Answers)
  <2>1. dnsLock = None /\ "strtok" \notin races
    BY DEF LookUpHost
  <2>. QED
    BY <2>1 DEF DnsInvariant
<1>6. h \in Hosts
  BY <1>2 DEF Hosts
<1>7. match \in Places(h, s)
  BY <1>2, <1>3, PlaceFacts
<1>8. Followed(s, match, h, Answers)
  BY <1>5, <1>6, <1>7 DEF GoodText
<1>9. z \in Seq(Symbols) /\ Len(z) = Len(s) /\ \A i \in 1 .. Len(s) : i # first => z[i] = s[i]
  BY <1>5, CopyFacts
<1>10. text'[b] = z /\ saved'.at = p
  BY <1>1, <1>4 DEF Pointer
<1>11. p = IF first <= Len(s) THEN first + 1 ELSE first
  OBVIOUS
<1>12. first = Find(s, match, {":"})
  OBVIOUS
<1>. HIDE DEF z, p, h, first, match
<1>13. PICK a, x :
         /\ a \in Answers[h]
         /\ h \in DOMAIN AddressOf /\ x = Entry(h, a) /\ match \in Places(x, s)
         /\ x[Len(x)] # "\n" => match + Len(x) - 1 = Len(s)
  BY <1>8 DEF Followed
<1>14. a \in Addresses /\ a \in Answers'[h]
  BY <1>13, AnswersGrow
<1>15. \E m \in Nat : BehindColon(z, p, h, a, m)
  BY <1>5, <1>6, <1>7, <1>9, <1>11, <1>12, <1>13, <1>14, EntryCutUp
<1>. QED
  BY <1>2, <1>9, <1>10, <1>13, <1>14, <1>15 DEF LineAt, h

\* What strtok returns behind the colon is what there is of the address.
Returns(t, p, a, m) ==
    LET b == <<t, "tempBuf">>
        r == Strtok(p, "\n")
    IN  /\ r.token # None /\ r.token = Pointer(b, p.at)
        /\ m = Len(a) => String(r.text[b], p.at) = a

LEMMA LineRead ==
    ASSUME NamesApart, TypeInvariant, NEW t \in Threads, ReadSoFar(t), pc[t] = "lineEnd",
           NEW p, p = local[t].cursor, NEW s, s = text[<<t, "tempBuf">>], s \in Seq(Symbols),
           NEW h, NEW a \in Addresses, NEW m \in Nat \ {0}, BehindColon(s, p.at, h, a, m)
    PROVE  Returns(t, p, a, m)
<1>. DEFINE b == <<t, "tempBuf">>
            r == Strtok(p, "\n")
<1>1. p.buf = b /\ DOMAIN text = Buffers /\ b \in Buffers
  BY OwnBuffers DEF TypeInvariant, SharedTyped, ReadSoFar
<1>2. PICK k, at : at = p.at /\ k = p.at + m
  OBVIOUS
<1>3. a \in Seq(Symbols) /\ Len(a) \in Nat /\ \A j \in 1 .. Len(a) : a[j] \notin {"\n", Nul}
  BY NamesFacts
<1>4. /\ at \in Nat \ {0} /\ m <= Len(a) /\ k = at + m /\ k <= Len(s) + 1 /\ Len(s) \in Nat
      /\ \A j \in 1 .. m : s[at + j - 1] = a[j]
      /\ k <= Len(s) => s[k] = "\n"
  <2>1. /\ p.at \in Nat \ {0} /\ m \in 0 .. Len(a) /\ p.at + m <= Len(s) + 1
        /\ \A j \in 1 .. m : s[p.at + j - 1] = a[j]
        /\ p.at + m <= Len(s) => s[p.at + m] = "\n"
    BY DEF BehindColon
  <2>2. m <= Len(a) /\ Len(s) \in Nat
    BY <1>3, <2>1
  <2>. QED
    BY <1>2, <2>1, <2>2
<1>5. ASSUME NEW i \in at .. k - 1
      PROVE  i \in 1 .. Len(s) /\ s[i] # Nul /\ s[i] # "\n" /\ s[i] = a[i - at + 1]
  <2>1. /\ i - at + 1 \in 1 .. m /\ at + (i - at + 1) - 1 = i /\ i \in 1 .. Len(s)
        /\ i - at + 1 \in 1 .. Len(a)
    BY <1>4, <1>3
  <2>. QED
    BY <1>4, <1>3, <2>1
<1>6. Takes(p, "\n", k)
  <2>1. text[p.buf] = s
    BY <1>1
  <2>2. p.at = at /\ "\n" # Nul
    BY <1>2, NulDiffers
  <2>3. k \in at + 1 .. Len(s) + 1
    BY <1>4
  <2>4. /\ text[p.buf] \in Seq(Symbols) /\ p.at \in Nat \ {0}
        /\ k \in p.at + 1 .. Len(text[p.buf]) + 1
        /\ k <= Len(text[p.buf]) => text[p.buf][k] = "\n"
    BY <1>4, <2>1, <2>2, <2>3
  <2>5. \A i \in p.at .. k - 1 : text[p.buf][i] # Nul /\ text[p.buf][i] # "\n"
    BY <1>5, <2>1, <2>2
  <2>. QED
    BY <2>2, <2>4, <2>5, StrtokAt
<1>7. /\ r.token = Pointer(b, at)
      /\ r.text = IF k <= Len(s) THEN [text EXCEPT ![b][k] = Nul] ELSE text
  BY <1>1, <1>2, <1>6 DEF Takes
<1>8. r.token # None
  <2>. HIDE DEF r, b
  <2>1. Pointer(b, at) \in [buf : Buffers, at : Nat]
    BY <1>1, <1>4 DEF Pointer
  <2>. QED
    BY <1>7, <2>1, PointerAssumption
<1>9. PICK z : z = r.text[b]
  OBVIOUS
<1>10. z = IF k <= Len(s) THEN [s EXCEPT ![k] = Nul] ELSE s
  <2>. HIDE DEF r
  <2>. QED
    BY <1>1, <1>7, <1>9
<1>11. z \in Seq(Symbols) /\ Len(z) = Len(s) /\ \A i \in at .. k - 1 : z[i] = s[i]
  <2>1. CASE k <= Len(s)
    <3>1. k \in 1 .. Len(s) /\ Nul \in Symbols
      BY <1>4, <2>1 DEF Symbols
    <3>2. z = [s EXCEPT ![k] = Nul]
      BY <1>10, <2>1
    <3>3. /\ z \in Seq(Symbols) /\ Len(z) = Len(s)
          /\ \A i \in 1 .. Len(s) : z[i] = IF i = k THEN Nul ELSE s[i]
      BY <3>1, <3>2, ExceptSeq
    <3>4. ASSUME NEW i \in at .. k - 1 PROVE i # k
      BY <1>4
    <3>. QED
      BY <1>5, <3>3, <3>4
  <2>2. CASE ~(k <= Len(s))
    BY <1>10, <2>2
  <2>. QED
    BY <2>1, <2>2
<1>12. k > Len(z) \/ z[k] = Nul
  <2>1. k <= Len(s) => k \in DOMAIN s
    BY <1>4
  <2>. QED
    BY <1>4, <1>10, <1>11, <2>1
<1>13. ASSUME m = Len(a) PROVE String(z, at) = a
  <2>1. k \in at .. at + Len(z)
    BY <1>4, <1>11
  <2>2. ASSUME NEW i \in at .. k - 1 PROVE i <= Len(z) /\ z[i] # Nul
    <3>1. i \in 1 .. Len(s) /\ s[i] # Nul
      BY <1>5
    <3>2. z[i] = s[i] /\ Len(z) = Len(s)
      BY <1>11
    <3>. QED
      BY <1>4, <3>1, <3>2
  <2>3. String(z, at) = SubSeq(z, at, k - 1)
    BY <1>4, <1>11, <1>12, <2>1, <2>2, StringAt
  <2>. DEFINE y == SubSeq(z, at, k - 1)
  <2>4. k - 1 \in Nat /\ at <= (k - 1) + 1 /\ k - 1 <= Len(z) /\ (k - 1) + 1 - at = m
    BY <1>4, <1>11
  <2>5. y \in Seq(Symbols) /\ Len(y) = m /\ \A j \in 1 .. m : y[j] = z[at + j - 1]
    BY <1>4, <1>11, <2>4, PartFacts
  <2>. HIDE DEF y
  <2>6. ASSUME NEW j \in 1 .. m PROVE y[j] = a[j]
    <3>1. at + j - 1 \in at .. k - 1
      BY <1>4
    <3>. QED
      BY <1>4, <1>11, <2>5, <3>1
  <2>7. y = a
    BY <1>3, <1>13, <2>5, <2>6, SeqEqual
  <2>. QED
    BY <2>3, <2>7 DEF y
<1>. QED
  BY <1>2, <1>7, <1>8, <1>9, <1>13 DEF Returns

-----------------------------------------------------------------------------
(* The line behind a name. *)

\* Nobody but t moves strtok's position or writes t's texts while t is at a line.
LEMMA LineStep ==
    ASSUME TypeInvariant, ReadInvariant, DnsInvariant, LineInvariant,
           NEW t \in Threads, StepOf(t)
    PROVE  LineInvariant'
<1>. SUFFICES ASSUME NamesApart, races' \subseteq {"hostent"}
              PROVE  \A u \in Threads : /\ pc'[u] = "line" => LineAt(u, saved)'
                                        /\ pc'[u] = "lineEnd" => LineAt(u, local[u].cursor)'
  BY DEF LineInvariant
<1>1. /\ OthersAsBefore(t) /\ races \subseteq races'
      /\ DOMAIN pc = Threads /\ DOMAIN local = Threads /\ LocalTyped(t)
  BY OthersUntouched DEF TypeInvariant
<1>2. /\ OneTokenizes /\ OneTokenizes' /\ \A u \in Threads : ReadSoFar(u)
  BY <1>1, OneStillTokenizes DEF ReadInvariant
<1>3. \A u \in Threads : /\ pc[u] = "line" => LineAt(u, saved)
                         /\ pc[u] = "lineEnd" => LineAt(u, local[u].cursor)
  BY <1>1 DEF LineInvariant
<1>4. ASSUME NEW u \in Threads \ {t}
      PROVE  /\ pc'[u] = "line" => LineAt(u, saved)'
             /\ pc'[u] = "lineEnd" => LineAt(u, local[u].cursor)'
  <2>1. /\ pc'[u] = pc[u] /\ local'[u] = local[u] /\ asked'[u] = asked[u]
        /\ text'[<<u, "tempBuf">>] = text[<<u, "tempBuf">>]
    BY <1>1, <1>2, TextsKept DEF OthersAsBefore, OthersTextsKept
  <2>2. pc[u] = "line" => saved' = saved
    BY <1>2, <2>1, BeginsAlone DEF OneTokenizes, Tokenizing
  <2>3. \A h \in DOMAIN AddressOf : Answers[h] \subseteq Answers'[h]
    BY <1>1, AnswersGrow
  <2>4. \A p : LineAt(u, p) => LineAt(u, p)'
    BY <2>1, <2>3 DEF LineAt
  <2>. QED
    BY <1>3, <2>1, <2>2, <2>3 DEF LineAt
<1>5. CASE LoadPosition(t, "line", "lineEnd")
  <2>1. /\ pc[t] = "line" /\ pc'[t] = "lineEnd" /\ local'[t].cursor = saved
        /\ text' = text /\ asked' = asked /\ races \subseteq races'
    BY <1>1, <1>5 DEF LoadPosition, Goto, clients, LocalTyped
  <2>2. LineAt(t, saved) /\ \A h \in DOMAIN AddressOf : Answers[h] \subseteq Answers'[h]
    BY <1>3, <2>1, AnswersGrow
  <2>3. LineAt(t, local[t].cursor)'
    BY <2>1, <2>2 DEF LineAt
  <2>. QED
    BY <1>4, <2>1, <2>3
<1>6. CASE LookUpHost(t)
  <2>1. pc'[t] \in {"resolve", "line"}
    BY <1>1, <1>6 DEF LookUpHost, Goto
  <2>2. pc'[t] = "line" => LineAt(t, saved)'
    BY <1>1, <1>2, <1>6, LookUpFinds
  <2>. QED
    BY <1>4, <2>1, <2>2
<1>7. ASSUME ~LoadPosition(t, "line", "lineEnd"), ~LookUpHost(t)
      PROVE  pc'[t] \notin {"line", "lineEnd"}
  <2>1. ASSUME NEW r \in Requests, Accept(t, r) PROVE pc'[t] = "url"
    BY <1>1, <2>1 DEF Accept, Goto
  <2>2. CASE LoadPosition(t, "url", "urlEnd") \/ LoadPosition(t, "version", "versionEnd")
    BY <1>1, <2>2 DEF LoadPosition, Goto
  <2>3. CASE \/ ReadToken(t, "urlEnd", "hostName", Space, "version")
             \/ ReadToken(t, "versionEnd", "version", "\r", "parse")
    BY <1>1, <2>3 DEF ReadToken, Goto
  <2>4. CASE Parse(t) \/ LookUpPage(t) \/ ReadLine(t) \/ CheckBlacklist(t) \/ Fetch(t)
    BY <1>1, <2>4 DEF Parse, LookUpPage, ReadLine, CheckBlacklist, Fetch, Goto, End, Send, Leave
  <2>5. CASE Resolve(t) \/ CopyAddress(t) \/ AddIpToCache(t) \/ WriteEntry(t)
    <3>1. CASE AddIpToCache(t)
      <4>1. pc'[t] \in {"list", "write"}
        BY <1>1, <3>1 DEF AddIpToCache, Goto
      <4>. QED
        BY <4>1
    <3>2. CASE Resolve(t) \/ CopyAddress(t) \/ WriteEntry(t)
      BY <1>1, <3>2 DEF Resolve, CopyAddress, WriteEntry, Goto, End, Leave
    <3>. QED
      BY <2>5, <3>1, <3>2
  <2>. QED
    BY <1>7, <2>1, <2>2, <2>3, <2>4, <2>5 DEF StepOf, ThreadStep
<1>. QED
  BY <1>4, <1>5, <1>6, <1>7

LEMMA LineInvariantHolds == Spec => []LineInvariant
<1>1. Init => LineInvariant
  BY DEF Init, LineInvariant
<1>2. TypeInvariant /\ ReadInvariant /\ DnsInvariant /\ LineInvariant /\ [Next]_vars
        => LineInvariant'
  <2>. SUFFICES ASSUME TypeInvariant, ReadInvariant, DnsInvariant, LineInvariant, [Next]_vars
                PROVE  LineInvariant'
    OBVIOUS
  <2>1. CASE UNCHANGED vars
    BY <2>1 DEF vars, clients, LineInvariant, LineAt, Answers
  <2>2. ASSUME NEW line \in Lines, Forbid(line) PROVE LineInvariant'
    BY <2>2 DEF Forbid, clients, LineInvariant, LineAt, Answers
  <2>3. ASSUME NEW t \in Threads, StepOf(t) PROVE LineInvariant'
    BY <2>3, LineStep
  <2>. QED
    BY <2>1, <2>2, <2>3 DEF Next, StepOf
<1>. QED
  BY <1>1, <1>2, TypeInvariantHolds, ReadInvariantHolds, DnsInvariantHolds, PTL DEF Spec

\* Only a line that has nothing in it ends the process.
LEMMA OnlyReadLineEnds ==
    ASSUME NEW t \in Threads, ThreadStep(t), ~ReadLine(t)
    PROVE  up'
<1>1. up
  BY DEF ThreadStep
<1>2. CASE \/ LoadPosition(t, "url", "urlEnd") \/ LoadPosition(t, "version", "versionEnd")
           \/ LoadPosition(t, "line", "lineEnd")
  BY <1>1, <1>2 DEF LoadPosition
<1>3. CASE \/ ReadToken(t, "urlEnd", "hostName", Space, "version")
           \/ ReadToken(t, "versionEnd", "version", "\r", "parse")
  BY <1>1, <1>3 DEF ReadToken
<1>4. CASE Parse(t)
  BY <1>1, <1>4 DEF Parse
<1>5. CASE LookUpPage(t) \/ LookUpHost(t) \/ CheckBlacklist(t) \/ Fetch(t)
  BY <1>1, <1>5 DEF LookUpPage, LookUpHost, CheckBlacklist, Fetch
<1>6. CASE Resolve(t) \/ CopyAddress(t) \/ AddIpToCache(t) \/ WriteEntry(t)
  BY <1>1, <1>6 DEF Resolve, CopyAddress, AddIpToCache, WriteEntry
<1>. QED
  BY <1>2, <1>3, <1>4, <1>5, <1>6 DEF ThreadStep

LEMMA LineGoesOn ==
    ASSUME NamesApart, TypeInvariant, NEW t \in Threads, ReadSoFar(t), ReadLine(t),
           LineAt(t, local[t].cursor), LeavesALine(asked[t].host)
    PROVE  UNCHANGED up
<1>. DEFINE r == Strtok(local[t].cursor, "\n")
<1>1. PICK p, s, h : p = local[t].cursor /\ s = text[<<t, "tempBuf">>] /\ h = asked[t].host
  OBVIOUS
<1>2. PICK a \in Answers[h], m \in Nat : BehindColon(s, p.at, h, a, m)
  BY <1>1 DEF LineAt
<1>3. s \in Seq(Symbols) /\ a \in Addresses /\ m \in Nat \ {0} /\ pc[t] = "lineEnd"
  BY <1>1, <1>2, ConstantsAssumption DEF LineAt, Answers, BehindColon, ReadLine
<1>4. r.token # None
  BY <1>1, <1>2, <1>3, LineRead DEF Returns
<1>. QED
  <2>. HIDE DEF r
  <2>. QED
    BY <1>4 DEF ReadLine, r

\* The process goes on with a request for a name that leaves its entry room for some of its
\* address, as long as no threads raced for strtok's position and no lookup saw an entry
\* half written: checkDNSCache finds something behind the name and hands inet_pton no null
\* pointer, also when the entry was cut.
THEOREM StaysUpCorrect == Spec => StaysUp
<1>1. TypeInvariant /\ ReadInvariant /\ LineInvariant
        => \A t \in Threads :
              /\ ThreadStep(t)
              /\ NamesApart /\ races' \subseteq {"hostent"} /\ LeavesALine(asked[t].host)
              => up'
  <2>. SUFFICES ASSUME TypeInvariant, ReadInvariant, LineInvariant, NEW t \in Threads,
                       ThreadStep(t), NamesApart, races' \subseteq {"hostent"},
                       LeavesALine(asked[t].host)
                PROVE  up'
    OBVIOUS
  <2>1. CASE ReadLine(t)
    <3>1. races' = races /\ pc[t] = "lineEnd" /\ up
      BY <2>1 DEF ReadLine, ThreadStep
    <3>2. ReadSoFar(t) /\ LineAt(t, local[t].cursor)
      BY <3>1 DEF ReadInvariant, LineInvariant
    <3>. QED
      BY <2>1, <3>1, <3>2, LineGoesOn
  <2>. QED
    BY <2>1, OnlyReadLineEnds
<1>. QED
  BY <1>1, TypeInvariantHolds, ReadInvariantHolds, LineInvariantHolds, PTL DEF Spec, StaysUp

-----------------------------------------------------------------------------
(* The pages. *)

\* The last symbol of a page's name is the file, and what is before the last two the host.
LEMMA PageNameParts ==
    ASSUME NEW h \in Hosts, NEW f \in Symbols
    PROVE  LET p == PageName(h, f)
           IN  /\ p \in Seq(Symbols) /\ Len(p) = Len(h) + 2 /\ p[Len(p)] = f
               /\ \A i \in 1 .. Len(h) : p[i] = h[i]
<1>. DEFINE c == <<"/", f>>
            p == h \o c
<1>1. c \in Seq(Symbols) /\ Len(c) = 2 /\ c[2] = f
  BY DEF Symbols
<1>2. h \in Seq(Symbols) /\ Len(h) \in Nat
  BY HostFacts
<1>. HIDE DEF c
<1>3. /\ p \in Seq(Symbols) /\ Len(p) = Len(h) + Len(c)
      /\ \A i \in 1 .. Len(h) : p[i] = h[i]
      /\ \A i \in 1 .. Len(c) : p[i + Len(h)] = c[i]
  BY <1>1, <1>2, ConcatFacts
<1>4. PageName(h, f) = p
  BY DEF PageName, c
<1>. HIDE DEF p
<1>5. p[Len(p)] = f
  <2>1. 2 \in 1 .. Len(c) /\ 2 + Len(h) = Len(p)
    BY <1>1, <1>2, <1>3
  <2>. QED
    BY <1>1, <1>3, <2>1
<1>. QED
  BY <1>1, <1>3, <1>4, <1>5

LEMMA PageNameTells ==
    ASSUME NEW h \in Hosts, NEW g \in Hosts, NEW f \in Symbols, NEW e \in Symbols,
           PageName(h, f) = PageName(g, e)
    PROVE  h = g
<1>. DEFINE p == PageName(h, f)
<1>1. /\ Len(p) = Len(h) + 2 /\ (\A i \in 1 .. Len(h) : p[i] = h[i])
      /\ Len(p) = Len(g) + 2 /\ (\A i \in 1 .. Len(g) : p[i] = g[i])
  <2>1. /\ Len(PageName(h, f)) = Len(h) + 2
        /\ \A i \in 1 .. Len(h) : PageName(h, f)[i] = h[i]
    BY PageNameParts
  <2>2. /\ Len(PageName(g, e)) = Len(g) + 2
        /\ \A i \in 1 .. Len(g) : PageName(g, e)[i] = g[i]
    BY PageNameParts
  <2>. QED
    BY <2>1, <2>2
<1>2. /\ h \in Seq(Symbols) /\ Len(h) \in Nat
      /\ g \in Seq(Symbols) /\ Len(g) \in Nat
  BY HostFacts
<1>. HIDE DEF p
<1>3. Len(h) = Len(g)
  BY <1>1, <1>2
<1>. QED
  BY <1>1, <1>2, <1>3, SeqEqual

\* A step that leaves the file cache alone and sends nothing.
LEMMA PageStays ==
    ASSUME TypeInvariant, PageInvariant, NEW t \in Threads, StepOf(t),
           cache' = cache, reply' = None,
           NamesApart /\ races' = {} =>
               /\ pc'[t] \in {"list", "fetch"} /\ Fits(asked'[t].host) =>
                     local'[t].address \in {AddressOf[asked'[t].host], Unset}
               /\ pc'[t] = "fetch" => local'[t].address # Unset
    PROVE  PageInvariant'
<1>. SUFFICES ASSUME NamesApart, races' = {} PROVE PageInvariant'
  BY DEF PageInvariant
<1>1. OthersAsBefore(t) /\ races = {}
  BY OthersUntouched
<1>2. PageIsOwn'
  BY DEF PageIsOwn
<1>. QED
  BY <1>1, <1>2 DEF PageInvariant, OthersAsBefore

LEMMA LookUpKeepsPages ==
    ASSUME TypeInvariant, TextInvariant, RoomInvariant, ReadInvariant, AddressInvariant,
           LineInvariant, PageInvariant,
           NEW t \in Threads, StepOf(t), ~LookUpPage(t), ~Fetch(t)
    PROVE  PageInvariant'
<1>0. /\ DOMAIN pc = Threads /\ DOMAIN local = Threads /\ LocalTyped(t)
      /\ races \subseteq races'
  BY OthersUntouched DEF TypeInvariant
<1>1. races' = {} =>
         /\ ReadSoFar(t) /\ AddressKnown(t)
         /\ \A h \in DOMAIN AddressOf : Answers[h] = {AddressOf[h]}
  BY <1>0 DEF ReadInvariant, AddressInvariant, Answers
<1>2. cache' = cache /\ reply' = None
  <2>1. ASSUME NEW r \in Requests, Accept(t, r) PROVE cache' = cache /\ reply' = None
    BY <2>1 DEF Accept, Goto
  <2>2. CASE \/ LoadPosition(t, "url", "urlEnd") \/ LoadPosition(t, "version", "versionEnd")
             \/ LoadPosition(t, "line", "lineEnd")
    BY <2>2 DEF LoadPosition, Goto
  <2>3. CASE \/ ReadToken(t, "urlEnd", "hostName", Space, "version")
             \/ ReadToken(t, "versionEnd", "version", "\r", "parse")
    BY <2>3 DEF ReadToken, Goto
  <2>4. CASE Parse(t) \/ LookUpHost(t) \/ ReadLine(t) \/ CheckBlacklist(t)
    BY <2>4 DEF Parse, LookUpHost, ReadLine, CheckBlacklist, Goto, End
  <2>5. CASE Resolve(t) \/ CopyAddress(t) \/ AddIpToCache(t) \/ WriteEntry(t)
    BY <2>5 DEF Resolve, CopyAddress, AddIpToCache, WriteEntry, Goto, End
  <2>. QED
    BY <2>1, <2>2, <2>3, <2>4, <2>5 DEF StepOf, ThreadStep
<1>3. CASE WriteEntry(t)
  <2>1. pc[t] = "write" /\ pc'[t] \in {"list", "write"} /\ asked' = asked
    BY <1>0, <1>3 DEF WriteEntry, Goto, clients
  <2>2. local'[t].address = local[t].address
    BY <1>0, <1>3 DEF WriteEntry, LocalTyped
  <2>3. races' = {} => local'[t].address = AddressOf[asked'[t].host]
    BY <1>1, <2>1, <2>2 DEF AddressKnown
  <2>. QED
    BY <1>2, <2>1, <2>3, PageStays
<1>4. CASE ReadLine(t)
  <2>1. pc'[t] # "fetch" /\ pc[t] = "lineEnd"
    BY <1>0, <1>4 DEF ReadLine, Goto, End, Leave
  <2>2. ASSUME NamesApart, races' = {}, pc'[t] = "list", Fits(asked'[t].host)
        PROVE  local'[t].address \in {AddressOf[asked'[t].host], Unset}
    <3>. DEFINE r == Strtok(local[t].cursor, "\n")
                line == String(r.text[r.token.buf], r.token.at)
    <3>1. PICK b, p, s, h : /\ b = <<t, "tempBuf">> /\ p = local[t].cursor /\ s = text[b]
                            /\ h = asked[t].host
      OBVIOUS
    <3>2. ReadSoFar(t) /\ LineAt(t, p)
      BY <1>0, <1>1, <2>1, <2>2, <3>1 DEF LineInvariant
    <3>3. /\ r.token # None => asked' = asked
          /\ r.token # None => local' = [local EXCEPT ![t].address =
                IF line \in Addresses THEN line ELSE Unset]
          /\ r.token = None => pc'[t] = "idle"
      <4>. HIDE DEF r, line
      <4>. QED
        BY <1>0, <1>4, Zenon DEF ReadLine, End, Leave, clients, r, line
    <3>4. PICK a \in Answers[h], m \in Nat : BehindColon(s, p.at, h, a, m)
      BY <3>1, <3>2 DEF LineAt
    <3>5. /\ s \in Seq(Symbols) /\ h \in DOMAIN AddressOf /\ r.token # None /\ asked' = asked
      BY <2>2, <3>1, <3>2, <3>3 DEF LineAt
    <3>6. a = AddressOf[h] /\ a \in Addresses /\ Fits(h)
      BY <1>1, <2>2, <3>1, <3>4, <3>5, ConstantsAssumption
    <3>7. m = Len(a) /\ m \in Nat \ {0}
      <4>1. Len(a) \in Nat \ {0} /\ Len(h) + 1 + Len(a) <= EntryRoom
        BY <3>6, AddressTyped DEF Fits
      <4>. QED
        BY <3>4, <4>1 DEF BehindColon
    <3>8. r.token = Pointer(b, p.at) /\ String(r.text[b], p.at) = a
      <4>1. pc[t] = "lineEnd" /\ ReadSoFar(t) /\ s = text[<<t, "tempBuf">>] /\ p = local[t].cursor
        BY <2>1, <3>1, <3>2
      <4>2. /\ NamesApart /\ s \in Seq(Symbols) /\ a \in Addresses /\ m \in Nat \ {0}
            /\ BehindColon(s, p.at, h, a, m)
        BY <2>2, <3>4, <3>5, <3>6, <3>7
      <4>3. Returns(t, p, a, m)
        BY <4>1, <4>2, LineRead
      <4>. QED
        BY <3>1, <3>7, <4>3 DEF Returns
    <3>9. line = a
      <4>1. r.token.buf = b /\ r.token.at = p.at
        BY <3>8 DEF Pointer
      <4>. HIDE DEF r
      <4>. QED
        BY <3>8, <4>1
    <3>. HIDE DEF line, r
    <3>10. local'[t].address \in {line, Unset}
      BY <1>0, <3>3, <3>5 DEF LocalTyped
    <3>. QED
      BY <3>1, <3>5, <3>6, <3>9, <3>10
  <2>. QED
    BY <1>2, <2>1, <2>2, PageStays
<1>5. CASE CheckBlacklist(t)
  <2>1. CASE pc'[t] = "fetch"
    <3>1. pc[t] = "list" /\ local[t].address # Unset /\ local' = local /\ asked' = asked
      BY <1>0, <1>5, <2>1 DEF CheckBlacklist, End, Leave, clients
    <3>2. NamesApart /\ races' = {} /\ Fits(asked[t].host) =>
             local[t].address \in {AddressOf[asked[t].host], Unset}
      BY <1>0, <3>1 DEF PageInvariant
    <3>. QED
      BY <1>2, <2>1, <3>1, <3>2, PageStays
  <2>2. CASE pc'[t] # "fetch"
    <3>1. pc'[t] = "idle"
      BY <1>0, <1>5, <2>2 DEF CheckBlacklist, Goto, End, Leave
    <3>. QED
      BY <1>2, <3>1, PageStays
  <2>. QED
    BY <2>1, <2>2
<1>6. CASE ~WriteEntry(t) /\ ~ReadLine(t) /\ ~CheckBlacklist(t)
  <2>1. pc'[t] \notin {"list", "fetch"}
    <3>1. ASSUME NEW r \in Requests, Accept(t, r) PROVE pc'[t] \notin {"list", "fetch"}
      BY <1>0, <3>1 DEF Accept, Goto
    <3>2. CASE \/ LoadPosition(t, "url", "urlEnd") \/ LoadPosition(t, "version", "versionEnd")
               \/ LoadPosition(t, "line", "lineEnd")
      BY <1>0, <3>2 DEF LoadPosition, Goto
    <3>3. CASE \/ ReadToken(t, "urlEnd", "hostName", Space, "version")
               \/ ReadToken(t, "versionEnd", "version", "\r", "parse")
      BY <1>0, <3>3 DEF ReadToken, Goto
    <3>4. CASE Parse(t) \/ LookUpHost(t)
      BY <1>0, <3>4 DEF Parse, LookUpHost, Goto, End, Leave
    <3>5. CASE Resolve(t) \/ CopyAddress(t)
      BY <1>0, <3>5 DEF Resolve, CopyAddress, Goto, End, Leave
    <3>6. CASE AddIpToCache(t)
      BY <3>6, EntryHasRoom
    <3>. QED
      BY <1>6, <3>1, <3>2, <3>3, <3>4, <3>5, <3>6 DEF StepOf, ThreadStep
  <2>. QED
    BY <1>2, <2>1, PageStays
<1>. QED
  BY <1>3, <1>4, <1>5, <1>6

LEMMA SendKeepsPages ==
    ASSUME TypeInvariant, ReadInvariant, PageInvariant,
           NEW t \in Threads, StepOf(t), LookUpPage(t) \/ Fetch(t)
    PROVE  PageInvariant'
<1>. SUFFICES ASSUME NamesApart, races' = {} PROVE PageInvariant'
  BY DEF PageInvariant
<1>. DEFINE r == asked[t]
            page == local[t].page
            right == [from |-> AddressOf[r.host], page |-> page]
<1>1. /\ races = {} /\ DOMAIN pc = Threads /\ DOMAIN local = Threads
      /\ OthersAsBefore(t)
  BY OthersUntouched DEF TypeInvariant
<1>2. pc[t] \in {"cache", "fetch"} /\ ReadSoFar(t)
  BY <1>1 DEF LookUpPage, Fetch, ReadInvariant
<1>3. r \in Requests /\ HostName(t) = r.host /\ page = PageName(r.host, r.file)
  BY <1>2, OwnName DEF Parsed
<1>4. r.host \in Hosts /\ r.file \in Symbols
  BY <1>3, RequestFacts
<1>5. /\ \A u \in Threads :
            /\ pc[u] \in {"list", "fetch"} /\ Fits(asked[u].host) =>
                  local[u].address \in {AddressOf[asked[u].host], Unset}
            /\ pc[u] = "fetch" => local[u].address # Unset
      /\ \A q \in Requests :
            PageName(q.host, q.file) \in DOMAIN cache /\ Fits(q.host) =>
               cache[PageName(q.host, q.file)] =
                  [from |-> AddressOf[q.host], page |-> PageName(q.host, q.file)]
  BY <1>1 DEF PageInvariant
<1>. HIDE DEF r, page
<1>6. CASE LookUpPage(t) /\ reply' = None
  <2>1. cache' = cache /\ pc'[t] \notin {"list", "fetch"}
    BY <1>1, <1>6 DEF LookUpPage, Goto, Send, Leave
  <2>. QED
    BY <1>6, <2>1, PageStays
<1>7. CASE ~(LookUpPage(t) /\ reply' = None)
  <2>1. PICK found : Send(t, found) /\ (Fits(r.host) => found = right)
                     /\ \/ cache' = cache
                        \/ cache' = [p \in DOMAIN cache \cup {page} |->
                                        IF p = page THEN found ELSE cache[p]]
    <3>1. CASE LookUpPage(t)
      <4>1. page \in DOMAIN cache /\ Send(t, cache[page]) /\ cache' = cache
        BY <1>7, <3>1 DEF LookUpPage, Goto, page
      <4>2. Fits(r.host) => cache[page] = right
        BY <1>3, <1>5, <4>1
      <4>. QED
        BY <4>1, <4>2
    <3>2. CASE Fetch(t)
      <4>. DEFINE found == [from |-> local[t].address,
                            page |-> PageName(HostName(t), page[Len(page)])]
      <4>1. /\ Send(t, found)
            /\ cache' = [p \in DOMAIN cache \cup {page} |->
                            IF p = page THEN found ELSE cache[p]]
        BY <3>2, Zenon DEF Fetch, page
      <4>2. page[Len(page)] = r.file
        BY <1>3, <1>4, PageNameParts
      <4>3. Fits(r.host) => local[t].address = AddressOf[r.host]
        BY <1>5, <3>2 DEF Fetch, r
      <4>4. Fits(r.host) => found = right
        BY <1>3, <4>2, <4>3
      <4>. HIDE DEF found, right
      <4>. QED
        BY <4>1, <4>4
    <3>. QED
      BY <3>1, <3>2
  <2>2. pc'[t] = "idle" /\ reply' = [to |-> r, page |-> found]
    BY <1>1, <2>1 DEF Send, Leave, r
  <2>3. PageIsOwn'
    BY <1>3, <2>1, <2>2 DEF PageIsOwn
  <2>4. ASSUME NEW q \in Requests, PageName(q.host, q.file) \in DOMAIN cache', Fits(q.host)
        PROVE  cache'[PageName(q.host, q.file)] =
                  [from |-> AddressOf[q.host], page |-> PageName(q.host, q.file)]
    <3>. DEFINE p == PageName(q.host, q.file)
    <3>1. CASE p = page /\ cache' # cache
      <4>1. q.host = r.host
        <5>1. q.host \in Hosts /\ q.file \in Symbols
          BY RequestFacts
        <5>. QED
          BY <1>3, <1>4, <3>1, <5>1, PageNameTells
      <4>2. Fits(r.host) /\ found = right
        BY <2>1, <2>4, <4>1
      <4>. QED
        BY <2>1, <3>1, <4>1, <4>2
    <3>2. CASE ~(p = page /\ cache' # cache)
      <4>. HIDE DEF p
      <4>1. p \in DOMAIN cache /\ cache'[p] = cache[p]
        BY <2>1, <2>4, <3>2 DEF p
      <4>. QED
        BY <1>5, <2>4, <4>1 DEF p
    <3>. QED
      BY <3>1, <3>2
  <2>. QED
    BY <1>1, <1>5, <2>2, <2>3, <2>4 DEF PageInvariant, OthersAsBefore
<1>. QED
  BY <1>6, <1>7

\* Unless threads raced, a client of a host whose entry fits gets the page it asked for, from
\* the address of that host, whatever entries of others were cut, and whether the page was fetched or in the file cache, and the address resolved or
\* in the DNS cache (echo, checkCacheMD5, checkDNSCache).
THEOREM PageIsOwnCorrect == Spec => []PageIsOwn
<1>1. Init => PageInvariant
  BY DEF Init, PageInvariant, PageIsOwn
<1>2. TypeInvariant /\ TextInvariant /\ RoomInvariant /\ ReadInvariant /\ AddressInvariant
        /\ LineInvariant /\ PageInvariant /\ [Next]_vars => PageInvariant'
  <2>. SUFFICES ASSUME TypeInvariant, TextInvariant, RoomInvariant, ReadInvariant,
                       AddressInvariant, LineInvariant, PageInvariant, [Next]_vars
                PROVE  PageInvariant'
    OBVIOUS
  <2>1. CASE UNCHANGED vars
    BY <2>1 DEF vars, clients, PageInvariant, PageIsOwn
  <2>2. ASSUME NEW line \in Lines, Forbid(line) PROVE PageInvariant'
    BY <2>2 DEF Forbid, clients, PageInvariant, PageIsOwn
  <2>3. ASSUME NEW t \in Threads, StepOf(t) PROVE PageInvariant'
    BY <2>3, LookUpKeepsPages, SendKeepsPages
  <2>. QED
    BY <2>1, <2>2, <2>3 DEF Next, StepOf
<1>3. NamesApart /\ PageInvariant => PageIsOwn
  BY DEF PageInvariant, PageIsOwn
<1>4. ~NamesApart => PageIsOwn
  BY DEF PageIsOwn
<1>5. PageInvariant => PageIsOwn
  BY <1>3, <1>4
<1>. QED
  BY <1>1, <1>2, <1>5, TypeInvariantHolds, TextInvariantHolds, LookupInvariantHolds, ReadInvariantHolds,
     AddressInvariantHolds, LineInvariantHolds, PTL DEF Spec

===============================================================================
