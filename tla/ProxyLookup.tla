------------------------------ MODULE ProxyLookup ------------------------------
(***************************************************************************)
(* How the proxy (Proxy/proxy.c) finds the host of a request: the parsing  *)
(* of the request, the DNS cache, gethostbyname and the blacklist.  The    *)
(* threads share strtok's position, the answer of gethostbyname and the    *)
(* text dnsCache; only the writing of dnsCache has a lock.  races keeps    *)
(* which of them two threads have used at once, since the code is only     *)
(* right without that: the run MCLookupHost shows what becomes of it.      *)
(*                                                                         *)
(* A text is a sequence of symbols: the characters of host names and       *)
(* addresses and the separators the code looks for; a word in the rest of  *)
(* a request is one symbol.  What lies beyond its end reads as Nul.  A     *)
(* pointer is a buffer and an index into it.                               *)
(***************************************************************************)
EXTENDS Naturals, Sequences, FiniteSetsExt

CONSTANTS
    Threads,      \* connection threads that may be alive at a time
    Requests,     \* what clients ask for: records [method, host, file]
    AddressOf,    \* what the name service knows: a function from host names
    Addresses,    \* the texts that are addresses to inet_pton
    EntryRoom,    \* the characters that snprintf puts into addIpToCache's buf: 99
    TextRoom,     \* sizeof(dnsCache)
    Lines,        \* lines an operator may put into the file blacklist
    MaxRequests,  \* bound: connections accepted
    MaxOverlaps,  \* bound: connections accepted while there is another one
    Default,      \* the file index.html, which a request does not name
    Unset,        \* an address nobody has written
    None

Nul == "\\0"
Space == " "

Hosts == {r.host : r \in Requests} \cup DOMAIN AddressOf
Letters == UNION {Range(h) : h \in Hosts}
Digits == UNION {Range(a) : a \in Addresses}

ASSUME ConstantsAssumption ==
    /\ MaxRequests \in Nat /\ MaxOverlaps \in Nat
    /\ None \notin Threads
    /\ Unset \notin Addresses
    /\ \A h \in DOMAIN AddressOf : AddressOf[h] \in Addresses
    /\ EntryRoom \in Nat \ {0} /\ TextRoom \in Nat
    /\ 2 * EntryRoom <= TextRoom

\* The host of a URL ends at its first slash, and the URL at the space behind it; an
\* address is written in digits and dots.
ASSUME TextAssumption ==
    /\ \A h \in Hosts : h \in Seq(Letters) /\ h # <<>>
    /\ Letters \cap {"/", Space, Nul} = {}
    /\ \A r \in Requests : r.file \notin {Space, Nul}
    /\ \A a \in Addresses : a \in Seq(Digits) /\ a # <<>>
    /\ Digits \cap {":", "\n", Nul} = {}

VARIABLES
    pc,         \* where each thread is in echo; "idle": there is no such thread
    asked,      \* the request its client made, or None
    text,       \* receivedBuf and tempBuf of each thread
    local,      \* the other variables of each thread, see Fresh
    reply,      \* the page the last step sent, if any, and the request it is for
    saved,      \* strtok: where the next call goes on
    hostent,    \* gethostbyname: its one answer
    dnsCache, dnsLock,
    cache,      \* the file cache: what each page in it is
    blacklist,  \* the lines of the file
    up,         \* whether the process runs
    requests, overlaps,   \* history: counters of the bounds
    barred,     \* history: the blacklist when the thread began
    races       \* history: the kinds of races there have been

clients == <<asked, barred>>
dns == <<dnsCache, dnsLock>>
counters == <<requests, overlaps>>
vars == <<pc, races, counters, clients, text, local, reply, saved, hostent, dns, cache,
          blacklist, up>>

\* hostName, version and cursor are pointers, the last one strtok's own; page is
\* md5Input, what the page is cached as; address is serverAddr; entry is what
\* addIpToCache has still to copy, and where to.
Fresh == [hostName |-> None, version |-> None, cursor |-> None, page |-> <<>>,
          address |-> Unset, entry |-> [at |-> 0, rest |-> <<>>]]

-----------------------------------------------------------------------------
(* Texts. *)

Buffers == Threads \X {"receivedBuf", "tempBuf"}
Pointer(b, i) == [buf |-> b, at |-> i]

ASSUME PointerAssumption == None \notin [buf : Buffers, at : Nat]

\* The first place from i on that has a symbol of S, or the end of the string.
Find(s, i, S) ==
    Min({j \in i .. i + Len(s) : j > Len(s) \/ s[j] = Nul \/ s[j] \in S})

\* The string a pointer is at the beginning of.
String(s, i) == SubSeq(s, i, Find(s, i, {}) - 1)
At(p) == String(text[p.buf], p.at)
HostName(t) == At(local[t].hostName)

\* Where x begins in s (strstr and strchr), or 0.
Places(x, s) == {i \in 1 .. Len(s) - Len(x) + 1 : SubSeq(s, i, i + Len(x) - 1) = x}
Occurs(x, s) == Places(x, s) # {}
Place(x, s) == IF Occurs(x, s) THEN Min(Places(x, s)) ELSE 0

\* One call of strtok with delimiter d, from pointer p: the token it returns, if
\* any, the place to go on from, and the texts with the delimiter overwritten.
Strtok(p, d) ==
    LET s     == text[p.buf]
        first == Min({j \in p.at .. p.at + Len(s) : j > Len(s) \/ s[j] # d})
        last  == Find(s, first, {d})
        cut   == last <= Len(s) /\ s[last] = d
    IN  [token |-> IF last = first THEN None ELSE Pointer(p.buf, first),
         next  |-> Pointer(p.buf, IF cut THEN last + 1 ELSE last),
         text  |-> IF cut THEN [text EXCEPT ![p.buf][last] = Nul] ELSE text]

\* The text of a request as clients send it; its headers are one symbol.
FileText(f) == IF f = Default THEN <<>> ELSE <<f>>
RequestText(r) ==
    <<r.method, Space, "http://">> \o r.host \o <<"/">> \o FileText(r.file)
        \o <<Space, "HTTP/1.1", "\r", "headers">>

PageName(h, f) == h \o <<"/", f>>

-----------------------------------------------------------------------------

\* Where a thread is between two calls of strtok, or holds what they returned and
\* still cuts it up.
Tokenizing == {"url", "urlEnd", "version", "versionEnd", "parse", "line", "lineEnd"}

\* Thread t goes on at label.
Goto(t, label) == pc' = [pc EXCEPT ![t] = label] /\ reply' = None

\* It ends, and its variables with it; its texts stay where they were.
Leave(t) ==
    /\ pc' = [pc EXCEPT ![t] = "idle"]
    /\ local' = [local EXCEPT ![t] = Fresh]
    /\ asked' = [asked EXCEPT ![t] = None]
    /\ barred' = [barred EXCEPT ![t] = {}]

End(t) == Leave(t) /\ reply' = None
Send(t, found) == Leave(t) /\ reply' = [to |-> asked[t], page |-> found]

Raced(kind, when) == races' = IF when THEN races \cup {kind} ELSE races

\* Whether t steps among other threads that tokenize.
OthersTokenize(t) == \E u \in Threads \ {t} : pc[u] \in Tokenizing

TypeOK ==
    /\ pc \in [Threads -> Tokenizing \cup {"idle", "cache", "dns", "resolve", "copy",
                                           "add", "write", "list", "fetch"}]
    /\ asked \in [Threads -> Requests \cup {None}]
    /\ DOMAIN text = Buffers
    /\ \A t \in Threads :
        /\ local[t].hostName # None => local[t].hostName.buf \in Buffers
        /\ local[t].address \in Addresses \cup {Unset}
        /\ pc[t] = "write" <=> dnsLock = t
        /\ pc[t] = "write" <=> local[t].entry # Fresh.entry
    /\ hostent \in Addresses \cup {Unset}
    /\ dnsLock \in Threads \cup {None}
    /\ blacklist \subseteq Lines
    /\ up \in BOOLEAN
    /\ requests \in 0..MaxRequests /\ overlaps \in 0..MaxOverlaps
    /\ races \subseteq {"strtok", "hostent", "dnsCache"}

Init ==
    /\ pc = [t \in Threads |-> "idle"]
    /\ asked = [t \in Threads |-> None]
    /\ text = [b \in Buffers |-> <<>>]
    /\ local = [t \in Threads |-> Fresh]
    /\ reply = None
    /\ saved = None
    /\ hostent = Unset
    /\ dnsCache = <<>>
    /\ dnsLock = None
    /\ cache = [p \in {} |-> None]
    /\ blacklist \in SUBSET Lines
    /\ up = TRUE
    /\ requests = 0 /\ overlaps = 0
    /\ barred = [t \in Threads |-> {}]
    /\ races = {}

-----------------------------------------------------------------------------
(* Parsing the request. *)

\* main accepts a connection, its thread reads request r into receivedBuf and
\* calls strtok(receivedBuf, " ").
Accept(t, r) ==
    LET b == <<t, "receivedBuf">>
    IN  /\ up
        /\ pc[t] = "idle"
        /\ t = CHOOSE u \in Threads : pc[u] = "idle"
        /\ requests < MaxRequests
        /\ requests' = requests + 1
        /\ IF \A u \in Threads : pc[u] = "idle"
           THEN UNCHANGED overlaps
           ELSE overlaps < MaxOverlaps /\ overlaps' = overlaps + 1
        /\ asked' = [asked EXCEPT ![t] = r]
        /\ barred' = [barred EXCEPT ![t] = blacklist]
        /\ text' = [text EXCEPT ![b] = [RequestText(r) EXCEPT ![2] = Nul]]
        /\ saved' = Pointer(b, 3)
        /\ Goto(t, "url")
        /\ Raced("strtok", OthersTokenize(t))
        /\ UNCHANGED <<local, hostent, dns, cache, blacklist, up>>

\* strtok(NULL, ..) picks up the position that was left, and leaves its own when
\* it is done: a step each.
LoadPosition(t, from, to) ==
    /\ pc[t] = from
    /\ local' = [local EXCEPT ![t].cursor = saved]
    /\ Goto(t, to)
    /\ Raced("strtok", OthersTokenize(t))
    /\ UNCHANGED <<counters, clients, text, saved, hostent, dns, cache, blacklist, up>>

\* char *hostName = strtok(NULL, " "), char* version = strtok(NULL, "\r")
ReadToken(t, from, field, d, to) ==
    LET r == Strtok(local[t].cursor, d)
    IN  /\ pc[t] = from
        /\ local' = [local EXCEPT ![t][field] = r.token]
        /\ text' = r.text
        /\ saved' = r.next
        /\ Goto(t, to)
        /\ UNCHANGED <<races, counters, clients, hostent, dns, cache, blacklist, up>>

\* checkForBadRequest.  Of the method the thread has a pointer of its own.
GoodRequest(t) ==
    LET l == local[t]
    IN  /\ l.hostName # None /\ l.version # None
        /\ At(l.hostName) # <<>>
        /\ At(l.version) = <<"HTTP/1.1">>
        /\ asked[t].method = "GET"

\* hostName skips "//", what follows the first slash of it is copied as the file,
\* and the slash is overwritten.
Parse(t) ==
    /\ pc[t] = "parse"
    /\ \/ ~GoodRequest(t) /\ End(t) /\ UNCHANGED text
       \/ /\ GoodRequest(t)
          /\ LET p     == local[t].hostName
                 host  == [p EXCEPT !.at = @ + Place(<<"http://">>, At(p))]
                 url   == At(host)
                 slash == Place(<<"/">>, url)
                 name  == IF slash = 0 THEN url ELSE SubSeq(url, 1, slash - 1)
                 file  == IF slash \in {0, Len(url)} THEN <<Default>>
                          ELSE SubSeq(url, slash + 1, Len(url))
             IN  /\ local' = [local EXCEPT ![t].hostName = host,
                                           ![t].page = name \o <<"/">> \o file]
                 /\ text' = IF slash = 0 THEN text
                            ELSE [text EXCEPT ![host.buf][host.at + slash - 1] = Nul]
          /\ Goto(t, "cache")
          /\ UNCHANGED clients
    /\ UNCHANGED <<races, counters, saved, hostent, dns, cache, blacklist, up>>

\* checkCacheMD5 and sendFileFromCache.  A cached page may be too old.
LookUpPage(t) ==
    LET page == local[t].page
    IN  /\ pc[t] = "cache"
        /\ \/ Goto(t, "dns") /\ UNCHANGED <<local, clients>>
           \/ page \in DOMAIN cache /\ Send(t, cache[page])
        /\ UNCHANGED <<races, counters, text, saved, hostent, dns, cache, blacklist, up>>

-----------------------------------------------------------------------------
(* From the name to an address. *)

\* A broken variant, for mutation runs: the copy is cut up from its beginning.
LookUpHostFromStart(t) ==
    /\ pc[t] = "dns"
    /\ \/ ~Occurs(HostName(t), dnsCache) /\ Goto(t, "resolve") /\ UNCHANGED <<text, saved>>
       \/ /\ Occurs(HostName(t), dnsCache)
          /\ text' = [text EXCEPT ![<<t, "tempBuf">>] = dnsCache]
          /\ saved' = Pointer(<<t, "tempBuf">>, Find(dnsCache, 1, {":"}) + 1)
          /\ Goto(t, "line")
    /\ UNCHANGED <<races, counters, clients, local, hostent, dns, cache, blacklist, up>>

\* checkDNSCache copies the text, without the lock, looks for the name in it, and
\* begins to cut up what it finds: strtok(match, ":").
LookUpHost(t) ==
    LET b     == <<t, "tempBuf">>
        match == Place(HostName(t), dnsCache)
        first == Find(dnsCache, match, {":"})
    IN  /\ pc[t] = "dns"
        /\ \/ match = 0 /\ Goto(t, "resolve") /\ UNCHANGED <<text, saved>>
           \/ /\ match # 0
              /\ text' = [text EXCEPT ![b] = [i \in DOMAIN dnsCache |->
                                    IF i = first THEN Nul ELSE dnsCache[i]]]
              /\ saved' = Pointer(b, IF first <= Len(dnsCache) THEN first + 1 ELSE first)
              /\ Goto(t, "line")
        /\ races' = races \cup (IF dnsLock # None THEN {"dnsCache"} ELSE {})
                          \cup (IF match # 0 /\ OthersTokenize(t) THEN {"strtok"} ELSE {})
        /\ UNCHANGED <<counters, clients, local, hostent, dns, cache, blacklist, up>>

\* line = strtok(NULL, "\n"); inet_pton, which does not survive a null pointer and
\* writes no address it cannot read; free (what is freed reads as empty here).
\* checkDNSCache has no return behind that: its result may be any, also the -1 that
\* says the host is not in the cache.
ReadLine(t) ==
    LET r    == Strtok(local[t].cursor, "\n")
        line == String(r.text[r.token.buf], r.token.at)
    IN  /\ pc[t] = "lineEnd"
        /\ saved' = r.next
        /\ text' = [r.text EXCEPT ![<<t, "tempBuf">>] = <<>>]
        /\ \/ r.token = None /\ up' = FALSE /\ End(t)
           \/ /\ r.token # None
              /\ local' = [local EXCEPT ![t].address =
                    IF line \in Addresses THEN line ELSE Unset]
              /\ Goto(t, "list") \/ Goto(t, "resolve")
              /\ UNCHANGED <<up, clients>>
        /\ UNCHANGED <<races, counters, hostent, dns, cache, blacklist>>

\* gethostbyname; for an unknown name the reply is 404.
Resolve(t) ==
    LET name == HostName(t)
    IN  /\ pc[t] = "resolve"
        /\ \/ name \notin DOMAIN AddressOf /\ End(t) /\ UNCHANGED hostent
           \/ /\ name \in DOMAIN AddressOf
              /\ hostent' = AddressOf[name]
              /\ Goto(t, "copy")
              /\ UNCHANGED <<local, clients>>
        /\ Raced("hostent", \E u \in Threads \ {t} : pc[u] = "copy")
        /\ UNCHANGED <<counters, text, saved, dns, cache, blacklist, up>>

\* bcopy from the answer.
CopyAddress(t) ==
    /\ pc[t] = "copy"
    /\ local' = [local EXCEPT ![t].address = hostent]
    /\ Goto(t, "add")
    /\ UNCHANGED <<races, counters, clients, text, saved, hostent, dns, cache, blacklist, up>>

\* The first n symbols of s.
Cut(s, n) == IF Len(s) <= n THEN s ELSE SubSeq(s, 1, n)

\* Broken variants, for mutation runs: one character less; no colon; no cut.
EntryShort(name, address) == Cut(name \o <<":">> \o address \o <<"\n">>, EntryRoom - 1)
EntryNoColon(name, address) == Cut(name \o address \o <<"\n">>, EntryRoom)
EntryUncut(name, address) == name \o <<":">> \o address \o <<"\n">>

\* snprintf(buf, 100, "%s:%s\n", hostName, ip), which cuts what buf has no room for.
Entry(name, address) == Cut(name \o <<":">> \o address \o <<"\n">>, EntryRoom)

\* addIpToCache: the entry goes to the beginning, or behind the first line.  When the
\* text has no room for it there, the lock is kept.
AddIpToCache(t) ==
    LET enter == Place(<<"\n">>, dnsCache)
        entry == Entry(HostName(t), local[t].address)
        full  == enter # 0 /\ enter + Len(entry) > TextRoom
    IN  /\ pc[t] = "add"
        /\ dnsLock = None
        /\ dnsLock' = t
        /\ local' = IF full THEN local
                    ELSE [local EXCEPT ![t].entry = [at |-> enter + 1, rest |-> entry]]
        /\ Goto(t, IF full THEN "list" ELSE "write")
        /\ UNCHANGED <<races, counters, clients, text, saved, hostent, dnsCache, cache,
                       blacklist, up>>

\* A broken variant, for mutation runs: only the first entry is followed by the unlock.
WriteEntryKeepsLock(t) ==
    LET e    == local[t].entry
        done == Len(e.rest) = 1
    IN  /\ pc[t] = "write"
        /\ dnsCache' = IF e.at > Len(dnsCache) THEN Append(dnsCache, Head(e.rest))
                       ELSE [dnsCache EXCEPT ![e.at] = Head(e.rest)]
        /\ local' = [local EXCEPT ![t].entry =
                IF done THEN Fresh.entry ELSE [at |-> e.at + 1, rest |-> Tail(e.rest)]]
        /\ dnsLock' = IF done /\ Place(<<"\n">>, dnsCache) = 0 THEN None ELSE dnsLock
        /\ Goto(t, IF done THEN "list" ELSE "write")
        /\ UNCHANGED <<races, counters, clients, text, saved, hostent, cache, blacklist, up>>

\* strncpy, a symbol at a time, and the unlock behind the last one.
WriteEntry(t) ==
    LET e    == local[t].entry
        done == Len(e.rest) = 1
    IN  /\ pc[t] = "write"
        /\ dnsCache' = IF e.at > Len(dnsCache) THEN Append(dnsCache, Head(e.rest))
                       ELSE [dnsCache EXCEPT ![e.at] = Head(e.rest)]
        /\ local' = [local EXCEPT ![t].entry =
                IF done THEN Fresh.entry ELSE [at |-> e.at + 1, rest |-> Tail(e.rest)]]
        /\ dnsLock' = IF done THEN None ELSE dnsLock
        /\ Goto(t, IF done THEN "list" ELSE "write")
        /\ UNCHANGED <<races, counters, clients, text, saved, hostent, cache, blacklist, up>>

-----------------------------------------------------------------------------
(* Asking the origin. *)

\* A broken variant, for mutation runs: the address is not looked for.
IsBlackListedByName(t) == \E line \in blacklist : Occurs(HostName(t), line)

IsBlackListed(t) ==
    \E line \in blacklist :
        Occurs(HostName(t), line) \/ Occurs(local[t].address, line)

\* 403, or no reply when connect fails, or the origin is asked.
CheckBlacklist(t) ==
    /\ pc[t] = "list"
    /\ \/ End(t)
       \/ /\ local[t].address # Unset
          /\ ~IsBlackListed(t)
          /\ Goto(t, "fetch")
          /\ UNCHANGED <<local, clients>>
    /\ UNCHANGED <<races, counters, text, saved, hostent, dns, cache, blacklist, up>>

\* GET file with the header Host, after which receivedBuf takes the page, and the
\* page goes to the client and into the file cache.
Fetch(t) ==
    LET page  == local[t].page
        found == [from |-> local[t].address,
                  page |-> PageName(HostName(t), page[Len(page)])]
    IN  /\ pc[t] = "fetch"
        /\ Send(t, found)
        /\ cache' = [p \in DOMAIN cache \cup {page} |->
                        IF p = page THEN found ELSE cache[p]]
        /\ text' = [text EXCEPT ![<<t, "receivedBuf">>] = <<>>]
        /\ UNCHANGED <<races, counters, saved, hostent, dns, blacklist, up>>

\* The operator adds a line to the file.
Forbid(line) ==
    /\ line \notin blacklist
    /\ blacklist' = blacklist \cup {line}
    /\ reply' = None
    /\ UNCHANGED <<pc, races, counters, clients, text, local, saved, hostent, dns,
                   cache, up>>

ThreadStep(t) ==
    /\ up
    /\ \/ LoadPosition(t, "url", "urlEnd")
       \/ ReadToken(t, "urlEnd", "hostName", Space, "version")
       \/ LoadPosition(t, "version", "versionEnd")
       \/ ReadToken(t, "versionEnd", "version", "\r", "parse")
       \/ Parse(t) \/ LookUpPage(t) \/ LookUpHost(t)
       \/ LoadPosition(t, "line", "lineEnd")
       \/ ReadLine(t)
       \/ Resolve(t) \/ CopyAddress(t) \/ AddIpToCache(t) \/ WriteEntry(t)
       \/ CheckBlacklist(t) \/ Fetch(t)

Next ==
    \/ \E t \in Threads :
        \/ \E r \in Requests : Accept(t, r)
        \/ ThreadStep(t)
    \/ \E line \in Lines : Forbid(line)

Spec == Init /\ [][Next]_vars

-----------------------------------------------------------------------------
(* Properties. *)

\* No name is part of another or of an address, and none has in it what ends a name
\* or a line of the DNS text.
NamesApart ==
    /\ Letters \cap {":", "\n"} = {}
    /\ \A g, h \in Hosts : g # h => ~Occurs(g, h)
    /\ \A h \in Hosts, a \in Addresses : ~Occurs(h, a)

\* The entry of host h keeps its address whole; it keeps some of it, or not even its
\* name, so that no lookup finds it.
Fits(h) == Len(h) + 1 + Len(AddressOf[h]) <= EntryRoom
LeavesALine(h) == Len(h) \notin {EntryRoom - 1, EntryRoom}

Parsed == {"cache", "dns", "resolve", "copy", "add", "write", "list", "fetch"}
IsOwn(t, p, h) == p = PageName(asked[t].host, asked[t].file) /\ h = asked[t].host

\* "name of host" (echo): once it is parsed a thread has its own client's host, and
\* its own page, whatever other threads do meanwhile.
HostIsOwn ==
    \A t \in Threads : pc[t] \in Parsed => IsOwn(t, local[t].page, HostName(t))

\* As long as no two threads raced for the position, the answer or the DNS text,
\* what a client gets is the page it asked for, from its host's address: whatever
\* the DNS text keeps of older entries, and however a lookup came out.  Only a host
\* with a name so long that its entry is cut may be fetched from another address.
PageIsOwn ==
    reply # None /\ races = {} /\ NamesApart /\ Fits(reply.to.host) =>
        reply.page = [from |-> AddressOf[reply.to.host],
                      page |-> PageName(reply.to.host, reply.to.file)]

\* Unless threads raced for the position or the answer, whenever nobody writes it the
\* DNS text gives a name whose entry fits no address but its own (addIpToCache): neither
\* the tail an older entry leaves behind a shorter one, nor an entry that was cut and
\* has no end of line, is an entry of such a name.
DnsCacheIsRight ==
    NamesApart /\ races \subseteq {"dnsCache"} /\ dnsLock = None =>
        \A h \in DOMAIN AddressOf : Fits(h) =>
            \A i \in Places(h \o <<":">>, dnsCache) :
                LET from == i + Len(h) + 1
                IN  SubSeq(dnsCache, from, Find(dnsCache, from, {"\n"}) - 1) = AddressOf[h]

\* Unless threads raced for the position or a lookup saw an entry half written, every
\* name in the DNS text has something behind it, and a request does not end the process:
\* without it checkDNSCache hands a null pointer to inet_pton.  Only a name that fills
\* its entry, to the colon or up to it, does that.
StaysUp ==
    [][\A t \in Threads :
          /\ ThreadStep(t)
          /\ NamesApart /\ races' \subseteq {"hostent"} /\ LeavesALine(asked[t].host)
          => up']_vars

\* Whatever the races: no page is fetched from an address that was in the
\* blacklist when the request came.
ForbiddenNotFetched ==
    [][\A t \in Threads :
          Fetch(t) => \A line \in barred[t] : ~Occurs(reply'.page.from, line)]_vars

\* Whether thread t can take a step: the lock is all it ever waits for.
CanStep(t) == up /\ pc[t] # "idle" /\ (pc[t] = "add" => dnsLock = None)

\* Whatever the races: while requests are being served one of them can go on, so no
\* thread leaves the others waiting for dns_lock.  It would if the text were ever too
\* full for an entry (addIpToCache); its first line, behind which all others are
\* written, is an entry too, and never longer than EntryRoom.
NobodyStuck ==
    up /\ (\E t \in Threads : pc[t] # "idle") => \E t \in Threads : CanStep(t)

===============================================================================
