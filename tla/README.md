# TLA+ models of the CSCI4273 network programs

The repository holds six small C programs, each a pair of processes or a
server: two file transfers over UDP, an echo over UDP, a caching web proxy, a
web server, and a toy key exchange, and beside them an exercise that copies a
file through length-tagged blocks. They share no code and none calls another.
What makes them hard to get right is what they share in kind: datagrams that
are lost, late or out of order, retry loops with hand-picked bounds, threads
with process-wide state, and children that share descriptors.

To check a model, `tlc -config X.cfg M`; to check a proof, `tlapm M.tla`.
PROJECT.json lists the runs, the theorems, the lines of code each definition
stands for, and for every property a mutant of the model that breaks it.

## Inventory

| Component | State it keeps | Operations | Hard behaviour | What makes it correct |
|---|---|---|---|---|
| UDP File Transfer (`Self Work/UDP File Transfer`) | client: open file, number of the next packet, packet being sent, send and listen counters; server: open file, previous number, address of the command's sender | `put`: command, blocks, end marker, each block acknowledged | loss, late acknowledgements, retries, a server left inside a put, numbers modulo 127 | stored file = prefix of the sent one; acknowledged = stored; done = whole |
| FTP get (`FTP Server/Main Assignment`) | client: previous message, open file, loop count; server: open file, expected acknowledgement, try count | `get`: command, "Sending_File", blocks with a decimal trailer, unnumbered acknowledgements | duplicates told by content, acknowledgements without number, a limit of 100 tries, no end marker | received file = requested one; client returns |
| Proxy (`Proxy`) | file cache directory, DNS cache text, two locks, per-thread request buffers | serve from cache, resolve, blacklist, fetch and store | threads that share strtok and gethostbyname, a cache file that is visible before it is written | a served page is the page asked for, whole |
| Web Server (`Web Server`) | one process per connection, descriptor tables | GET, error replies | leaked descriptors, children never reaped, error replies that do not close | an existing file is served; one reply per request |
| IPsec (`IPsec`) | private number, shared key | key exchange, XOR of messages | a lost key, a second talker, a character equal to the key | both ends agree on the key; text arrives |
| UDP Transfer (`Self Work/UDP Transfer`) | a socket on each side | send a line, get it back | loss, a blocking receive | a reply answers the line sent |
| File IO (`Self Work/File IO`) | two open files, one buffer | copy by tagged blocks | blocks with fewer bytes than the buffer | the copy equals the source |

The components interact by datagrams (the UDP programs), by connections and
shared files (the proxy's threads), or by inherited descriptors (the web
server's children).

## Modules

| Module | Contents |
|---|---|
| `Packets` | header of a put packet: base-127 number and length, the match of an acknowledgement |
| `FileTransfer` | put: clients, server, network; the safety and liveness properties |
| `FileTransferInvariant` | the inductive invariant of put |
| `FilePut` | abstract: what put promises its user |
| `FileTransferRefinement` | the mapping of `FileTransfer` to `FilePut` |
| `FtpTrailer` | trailer of an ftp block: the decimal length and how it is read back |
| `FtpGet` | get: clients, server, network |
| `FileGet` | abstract: what get promises its user |
| `FtpGetRefinement` | the mapping of `FtpGet` to `FileGet` |
| `ProxyCache` | proxy: threads, the cache directory, `cache_lock`, crash and restart |
| `ProxyLookup` | proxy: parsing, DNS cache text, gethostbyname, blacklist, `dns_lock` |
| `WebServer` | parent, children, clients, descriptors |
| `Cipher` | keys, XOR and `strlen` of talk and listen |
| `KeyExchange` | talk and listen: the exchange of keys and the messages behind it |
| `Echo` | the two programs of UDP Transfer |
| `FileCopy` | the copy loop of File IO |
| `MCLookup` | hosts, names and requests of `ProxyLookup` for TLC |
| `Codecs` | `Packets`, `FtpTrailer`, `Cipher` and `FileCopy` tried on one number after the other |
| `MCParts` | `Codecs`, `KeyExchange` and `Echo`, put together for TLC |
| `CodecProofs` (of `Packets` and `FtpTrailer`), `FileTransferProofs`, `FileTransferRefinementProofs`, `ProxyCacheProofs`, `ProxyLookupProofs`, `WebServerProofs`, `FtpGetProofs`, `PartsProofs` (of `Codecs`, `KeyExchange` and `Echo`) | theorems |

### put: FileTransfer

A block is what one `fread` of the client returns; a file is the sequence of
its blocks. `cpc` is the client's place: at the prompt, before an fread, before
a `sendto`, or in the listen loop of a `select` and a `recvfrom`.

| Action | Code (`Client/client.c`, `Server/server.c`) |
|---|---|
| `Put` | `main`: the command is built and sent once, `packetNum` becomes 1 |
| `FormatBuf` | the fread loop and `formatBuf`; past the end of file the marker LASTPACKET |
| `SendPacket` | one round of the `numSends` loop: sendto |
| `ReceiveAck`, `ListenTimeout` | one round of the listen loop; `Acknowledged` and `NotAcknowledged` are its two outcomes, with the end-of-file test before the give-up test |
| `ReceiveCommand` | `receiveCommandFromClient`, and `fopen(.., "w")` for a put |
| `ReceivePacket` | one round of the server's receive loop: acknowledge, then leave at LASTPACKET, or write unless the number repeats |
| `ReceiveBadChecksum` | the same round when `recvfrom` fails after `select` announced the datagram |
| `LoseDatagram`, `Reorder` | the network, within `Faults` |

`Faults` picks a network: it may lose datagrams, deliver them later than a
listen waits, reorder them, or let them fail their checksum. Only `Clean`
clients are promised anything about data: no one else talks to the server, and
no LASTPACKET was left unacknowledged, because the client then reports success
all the same (the finding of `MCPutStaleAck`). `FilePut` is the promise to one of
them, `User`, with nothing of the protocol in it: `FileTransferRefinement` maps the
state to it, and once the user is not clean any more the status is "unpromised".

### get: FtpGet

The client asks at most three times (`SendRequest`, `ReceiveReply`, `NoReply`),
then polls up to 1000 times (`ReceiveFilePacket`, `ReceiveNothing`). The server
answers (`WaitConnection`), and for each block sends it up to 100 times
(`ReadBlock`, `SendBlock`, `ReceiveAck`, `ReceiveNoAck`). Both sides sleep 300
microseconds and look at their socket once, so every poll may come too early:
`NoReply`, `ReceiveNothing` and `ReceiveNoAck` need no loss. What the trailer
tells is abstracted to `right`: for blocks of one to nine bytes the length is a
byte that was never written, and `right` is then either (`FtpTrailer` and
`Codecs` have the digits themselves).

`FileGet` is the promise to the user of one client, `User`: the first get takes the
server's file block by block, is done only when it is whole, and what it has left is
not touched any more. `FtpGetRefinement` maps the state to it; the status is
"unpromised" once something was lost, the server gave up, somebody else sent something,
a second file was asked for, or the file has two equal blocks in a row.

### Proxy: ProxyCache

A thread goes through `checkCacheMD5` (`CheckCache`), then either
`sendFileFromCache` (`MeasureFile`, `SendFile`) or the resolution of the host,
whose outcome only is in this module (`Admit`; `ProxyLookup` has the rest), and the fetch: `OpenFile`,
`LockCache`, `ReadChunk` until `EndOfRead`, `CloseFile`. The steps are those
between which another thread can do something that matters: fopen truncates
before the lock is taken, the FILE's buffer reaches the file at any moment and
at the latest in fclose, after the unlock. A thread that was overtaken writes
its chunks at their own offsets, which is `Overlay`. `Crash` is a kill or a
SIGPIPE; the directory survives. Without the directory (the code tests ENONET
for ENOENT and never makes it) fwrite gets a null pointer, and the process ends
(`Vanish`).

### Proxy: ProxyLookup

The other half of `echo`: how a thread comes from the bytes of a request to an
address. A text is a sequence of symbols (the characters of host names and
addresses, the separators the code looks for, and one for each word in the rest of
a request), so that what matters about it is there: strtok overwrites a separator
and keeps a position, a second DNS entry is written over the first symbols of an
older one, and what is left of that stays behind it. `snprintf` cuts an entry at
`EntryRoom` characters (99 in the code), wherever that is: in the address, which may
leave another one, at the colon, or in the name, and always with the end of line that
should follow. The next entry then goes behind the first line there is, or to the
beginning.

| Action | Code (`proxy.c`) |
|---|---|
| `Accept` | `main` and `thread`; `read` and `strtok(receivedBuf, " ")` |
| `LoadPosition`, `ReadToken` | the two halves of a `strtok(NULL, ..)`, which reads and writes the one position `saved` |
| `Parse` | `checkForBadRequest`, the file name, the name the page is cached under |
| `LookUpPage` | `checkCacheMD5` and `sendFileFromCache` |
| `LookUpHost`, `ReadLine` | `checkDNSCache`: a copy of the text, `strstr`, two calls of strtok, `inet_pton`. It returns nothing after a hit, so the caller goes on either way |
| `Resolve`, `CopyAddress` | `gethostbyname`, which answers in `hostent`, and the `bcopy` from it |
| `AddIpToCache`, `WriteEntry` | `addIpToCache`: lock, the place, the entry (`Entry`, `Cut`), whether the text has room for it, and, where it has none, the return that keeps the lock; the entry symbol by symbol, unlock |
| `CheckBlacklist` | `isBlackListed` and `connect` |
| `Fetch` | the request to the origin, the reply, the page into the cache |
| `Forbid` | the operator adds a line to `blacklist` (external) |

`races` is a history of what two threads have used at once: the position, the
answer, the text. The code protects only the writing of the text, so the
integrity properties say what holds as long as there was no race of the kinds
that could break them, and `MCLookupHost` shows one. The others hold whatever
the races. `TextAssumption` says what kinds of symbols there are: host names have at least
one character and no slash, space or end of string, and addresses no colon or line's end.
`NamesApart` is a premise of the three properties of the DNS text, and so is that the
entry of the name at hand fits (`Fits`), or, for `StaysUp`, that it is not cut exactly
behind the name or the colon (`LeavesALine`). Other names, asked for by other clients or
the same one, may be of any length: what their cut entries leave in the text must not
harm the names that fit. A name that does not fit does fare badly in the code: with
`EntryRoom` 99, one of 87 characters with the address 10.20.30.123 is fetched from
10.20.30.12 the next time, and one of 98 or 99 ends the process. Which file the cache has, its age and its bytes are in `ProxyCache`.

### Web Server: WebServer

The parent (`Accept`, `AcceptFails`) forks a child per connection and keeps the
descriptor; the child of the i-th connection starts with the listening socket
and i connections. A child (`HandleRequest`, `Disconnected`) opens a file per
request and closes none, so `fds` only grows; at `MaxFds` fopen fails and a file
that exists is a 404. One recv may return several requests, of which the first
is parsed.

### IPsec: KeyExchange

A talker sends its public key once (`SendKey`), waits for the answer without a
timeout (`ReceiveAnswer`), and then sends what is typed (`SendMessage`). The
listener takes the first datagram as a key, whatever it is (`ReceiveKey`),
answers its sender (`SendPublicKey`), and prints every later one
(`PrintMessage`): the key of a second talker as a message. It ends when it
cannot name a sender, and may be started again with another private key
(`Restart`), with datagrams of the run before still in its socket. A message
carries the key it was encrypted with; whether that is the listener's decides
what is printed. Keys and the shared key are constants of the module, with the
one assumption that both sides compute the same; `MCParts` puts those of
`Cipher` in their place and assumes, which TLC evaluates, that they do
(`KeysAgree`, over all private keys).

### UDP Transfer: Echo

`SendLine` and `ReceiveReply` are the two halves of the client's loop,
`ServerReceive` and `ServerReply` of the server's. The server keeps one line and
its sender between them. It may be started again, and the network may lose a
datagram; the client then waits for ever.

### Pure parts: Packets, FtpTrailer, Codecs, Cipher, FileCopy, MCParts

Functions at the code's own sizes: signed digits in base 127, `sprintf` and
`atoi` of a decimal length with the bytes that nobody wrote as arbitrary
values, `pow` and `%` for the keys, XOR and `strlen`, and the length string of
the file copy. `Codecs` counts a number up and checks the
header, the trailer, the cipher and the copy at each value, as packet number, length,
key or size of a file; `MCParts` has it as one part, and `KeyExchange` and `Echo` as
others, one at a time.

## What the runs show

| Run | Properties | Shows |
|---|---|---|
| `MCPut` | `PutInvariant`, `StoredIsPrefix`, `AckedIsStored`, `PutIsComplete`, `PutIsAsPromised` | one client, two puts, loss and delay, numbers modulo 2 (the smallest base at which stop-and-wait can work): the file at the server is always a prefix of the one sent, an acknowledged block is stored, a finished put is whole, and every behaviour is one `FilePut` allows |
| `MCPutHostile` | `TypeOK`, `NothingMissing`, `ClientReturns` | reordering and bad checksums too: blocks may be written twice, but in the first put of a file with fewer blocks than there are packet numbers no acknowledged block is missing or out of order; and the client returns |
| `MCPutStaleAck` | `AckIsForThisPacket` (violated) | after a put whose end was not confirmed the next put's acknowledgements may answer the old one's packets |
| `MCParts` | `HeaderSurvives`, `OnlyThisAckAccepted`, `LongSizeIsRead`, `LastIsRecognised`, `TextArrives`, `CopyIsTheFile` | the encodings read back what was written, at the code's sizes |
| | `ExchangeTypeOK`, `MessagesReadable`, `OneIsAnswered`, `SomebodyTalks` | two talkers and a listener that is started twice: one talker is answered in a run, what it says is printed as typed whoever else sends, and without loss one of those that wait is answered |
| | `ReplyIsOwn`, `LineComesBack` | two clients of the echo get their own lines back, and without loss and restart they do get them |
| `MCGet` | `TypeOK`, `LastMeansWhole`, `ReceivedInOrder`, `GetIsAsPromised`, `ClientReturns`, `SendFileReturns` | one get, with and without loss: without loss every behaviour is one `FileGet` allows, so the client's file is a prefix of the server's, whole once the last packet was seen, and left alone then; with loss nothing is repeated or reordered; both loops end |
| `MCGetLast` | `LastPacketReceived` (violated) | a client believes to have the last packet of a file it did not ask for: a Sending_File or a block that answered an earlier command |
| `MCProxy` | `TypeOK`, `LastFetchIsWhole`, `CacheInvariant`, `RequestEnds` | two threads, two pages, one crash: whoever opened a file last and got the whole page decides what it holds, and every request ends |
| `MCProxySent` | `SentFileIsWhole` (violated) | what is served from the cache may be empty, partial or stack bytes |
| `MCLookup` | `TypeOK`, `PageIsOwn`, `DnsCacheIsRight`, `StaysUp`, `NobodyStuck`, `ForbiddenNotFetched` | without a race everybody whose host's entry fits gets the page asked for from its host's address, the DNS text gives such a name no other address, and a lookup finds something behind every name but the one that has no room for an address, with cut entries of two other hosts in the text; with any race the text is never too full for an entry, so a request that waits for `dns_lock` waits for a thread that goes on, and nothing is fetched from an address that was forbidden when the request came |
| `MCLookupHost` | `HostIsOwn` (violated) | two requests parsed at once: a thread goes on with the other client's host |
| `MCWeb` | `TypeOK`, `FoundWhileDescriptorsLast`, `RequestAnswered`, `NobodyWaitsInBacklog` | as long as descriptors last an existing file is found; a live child answers what it receives; the backlog is emptied or the server ends |
| `MCWebError` | `NothingAfterError` (violated) | after an error reply that announces the close, further requests are answered |

The violated runs are the disagreements between the code and its own comments
that came up while modelling; PROJECT.json quotes both sides under `findings`. Another
one needs no run: `sendFile` of the ftp server says that it "assumes that the file
we want does indeed exist", and nothing before it makes sure. The server crashes
there in `FtpGet` too (`OpenFile`), and the client comes out of its tries.

### Bounds

- Puts: files of up to three blocks of two kinds, so that both parities of the
  number occur in front of the marker; two puts, so that one follows another on
  the same and on another name; two sends of two listens (ten in the code),
  enough for an acknowledgement to come in a later listen, in a later send, and
  after the last one. `MCPutHostile` takes one put, and a base above the number
  of blocks (`FirstPut` says so): a packet that fails its checksum is acknowledged as
  number 0, and when a block has that number it is really missing, which the code has
  at block 127; and in a later put an acknowledgement of the one before may still come.
- Gets: up to two full blocks and one smaller; three tries (100 in the code)
  and seven polls (1000), more than a whole file without loss needs, and fewer
  tries than polls, as in the code.
- Proxy: two threads at a time and three requests, which is three writers of a
  file one after the other with two of them overlapping; pages of three chunks,
  so that a chunk can be in the buffer, one in the file and one not read;
  one crash.
- Web server: three connections with room for two (`MaxFds` = 3), so that the
  limit is met by the parent, by a child's files, and by both together; a
  backlog of 0 still lets one connection wait.
- Lookup: two threads, three requests, one of them beside another: three
  entries, of which the third is written over the longer second one, and races
  of any two steps. A second overlap adds no new pair of racing steps. Entries
  have room for five characters (99 in the code) and the text for two of them, the
  least the assumption allows (8192 in the code). Of four hosts one leaves room to
  spare, one fits to its last digit and loses only the end of the line, one has its
  address cut to another valid one, and one has room for the colon and no more; one
  host is unknown, one request a POST; one line for the blacklist, at any moment.
- Key exchange: two talkers with two messages on the way each, three private
  keys (0, whose public key is 1, among them), a key that no exchange leads to,
  two runs of the listener. Echo: two clients, two lines of which one is empty,
  two starts.
- Codecs: numbers 0..1020 at lengths around each carry; a cipher buffer of five
  bytes, which has every position of a cut.

Deadlock is not checked where the bound on commands, requests or connections
ends a run: the users then have nothing more to say, and the programs wait.

### Fairness

A program that is not blocked takes its next step: weak fairness of each
client's and the server's steps, of each proxy thread, and of the parent and
each child. This is what the scheduler of the operating system gives. No
fairness is asked of users, of the network (a datagram may always be lost
instead of delivered, and may be late for ever), or of the lock: a proxy
thread's `LockCache` may be disabled again and again by others, and
`RequestEnds` holds because finitely many connections are made in a run. An
origin server is taken to answer or to close, because `read` has no timeout
there; a silent one blocks the proxy's lock.

`KeyExchange` asks the same of its programs (`ExchangeFairness`). `Echo` asks
strong fairness of the server's receive from each client (`EchoFairness`): its
socket is a queue, so a datagram in it is not passed over for ever, although the
server is busy with another one again and again. `ProxyLookup` has no fairness:
the steps of a request never repeat, so a request ends unless it is stuck, and
`NobodyStuck` says as an invariant that it is not.

## What is proved

TLAPS proves, for every value of the constants that the ASSUMEs allow:

- `CodecProofs`: the header round trip of put, and that an acknowledgement matches
  exactly the number waited for, for every base above one; of get, that short and
  full blocks are told apart by the trailer.
- `FileTransferProofs`: on every network `TypeInvariant`, `NothingMissing` and that the
  loops of the client come down (`LoopsComeDown`); and, on a network that
  keeps the order of each channel (`Fifo`: loss and delay only), `PutInvariant`,
  `StoredIsPrefix`, `AckedIsStored`, `PutIsComplete`, for any number of clients, blocks, puts,
  sends and any base above one.
- `FileTransferRefinementProofs`: under `Fifo` the programs implement `FilePut` for
  any of their users, whoever else there is (`FileTransferImplementsFilePut`).
- `ProxyCacheProofs`: `TypeOK`, `CacheInvariant` and `LastFetchIsWhole`, for any
  number of threads, pages, chunks and crashes; and the half of `SentFileIsWhole` that
  the code does keep: what is sent of a file that its last fetch left whole is the page
  (`WholeFileIsSent`). That a request comes nearer to its end with each step of its
  thread (`RequestComesNearer`), and that who waits for `cache_lock` waits for a
  thread that reads (`LockHeldByReader`).
- `ProxyLookupProofs`: whatever the races, `TypeOK`, `NobodyStuck` and
  `ForbiddenNotFetched`; unless threads raced for what each is about,
  `DnsCacheIsRight`, `StaysUp` and `PageIsOwn`, for the names that each is about beside
  others of any length; and that `HostIsOwn`, which the code
  breaks, holds as long as no two threads tokenize at once. For any number of
  threads and requests, host names of any length, any room for an entry and for a
  text of at least two, and addresses and lines that fit `TextAssumption`.
- `WebServerProofs`: `TypeOK` and `FoundWhileDescriptorsLast`, for any number of
  connections, descriptors and requests, and any backlog.
- `FtpGetProofs`: `TypeOK`, and for the first get of any client `ReceivedInOrder`,
  `ReceivedIsPrefix` and `LastMeansWhole`, for any number of clients, names, blocks,
  tries and polls, with whatever is lost or late; and that the programs implement
  `FileGet` for any of their clients (`FtpImplementsFileGet`); that the loops of the
  client and of `sendFile` come down (`AskingComesDown`, `SendingComesDown`).
- `PartsProofs`: of `Codecs` that a header survives, only the acknowledgement
  waited for is accepted, a length of two digits or more is read back and the last
  block is told, for any base, lengths and numbers, that a text without the key in it
  arrives, for any size of the buffer and any characters, and that the copy of a file
  of any size is the file; of `KeyExchange`
  `ExchangeTypeOK`, `MessagesReadable` and `OneIsAnswered`,
  for any number of talkers, messages and runs, any sets of keys, and any two
  functions that fit `SharedAssumption`; of `Echo`
  `ReplyIsOwn`, for any number of clients, lines and starts.

**The argument for put.** None of the three properties is inductive: they do
not say what is on the way. `PutInvariant` does. A put has three stages:
before the server takes the command (`Opening`), while it writes (`Storing`)
and after LASTPACKET (`Stored`). In `Storing` the server has w blocks; the
client has built packet w or w + 1; the packets on the way are copies of packet
w, then copies of packet w + 1 (`OldThenNew`), and the acknowledgements
likewise. Because the two kinds come one after the other and their numbers
differ in any base above one, the server's comparison with its previous number
and the client's comparison of the acknowledgement are both right. Reordering
breaks exactly this, and with it the theorem: hence the assumption. `IdleOK`
says that a client that never put anything has sent nothing, `ClientOK` what a
client is sending.

**What is left of it on any network.** Once datagrams overtake each other or fail
their checksum, old packets are written again and acknowledgements say less.
`HostileInvariant` follows the first put of a client, where every datagram on the
way is of this put. Before the server takes the command (`Unopened`) it is there at
most once, so the file is opened, and emptied, only once. From then on (`Opened`) there
is an m such that the first m blocks are in the server's file in order, among others;
the client knows of no more than m, so packet m + 1 is the last one built;
`prevPacketNum` and every acknowledgement on the way is a number up to m, or
LASTPACKET's. So the first copy of packet m + 1 has another number than the one before
and is written, and the number of the packet the client waits for is acknowledged
only if that packet is stored. Both need that no number comes twice and that
none of the blocks has the number 0: fewer blocks than `OperationBase`.

**The argument for get.** An acknowledgement of get says nothing but that
something came, and a packet nothing but its content. `GetInvariant` therefore names,
for every packet on the way, which one it is: what the server sends of a file is
a stream, Sending_File and then each block. `taken` is how far in the stream the client
is, `sent` where each packet on the way belongs, `at` which block each block the
client wrote is. The packets on the way are in the order of the stream, from
`taken` on (`OnTheWay`), so that a packet with another content than the one
before it is a later one; two blocks that are equal and follow each other are excluded for that reason
(`NoRepeats`). Without loss no packet of the stream is left out (`AllOnTheWay`):
the server goes on to the next one only when an acknowledgement came, and each
acknowledgement stands for a packet that was taken or is ahead in the
same queue. Requests come before acknowledgements (`ToServerOK`), so the server never
begins again. What `FileGet` can see of a get (`Seen`) follows from it: each written
block is the next one of the file, and when the last packet was seen the file is whole.

**The argument for the cache.** `CacheInvariant` says that whoever opened a
file last is still at it and the chunks it has flushed are in their places,
whatever an overtaken thread writes: that one writes the same page at the same
offsets. So when the last opener closes having got the whole page, the file is
the page, and later writes of overtaken threads change nothing. What it needs
is that `cacheDir` never changes, that a file never disappears, and that the
page of an origin is always the same; the last is the modelling assumption to
keep in mind.

**The argument for the lookup.** `LookupInvariant` needs nothing of the texts: a
thread that writes an entry is the one that holds `dns_lock`, whatever it is
writing, and a thread about to fetch has an address that no line forbade when its
blacklist was read, which was after its request came, and lines are only added.
Both survive every race, because no thread changes another's address. For
`NobodyStuck` the way out of `addIpToCache` that keeps the lock has to be closed:
`RoomInvariant` says that the end of the first line is never behind `EntryRoom`,
because only an entry that was written from the beginning puts it there and every
other one goes behind it, and that the text is never longer than that and one more
entry. So there is room wherever an entry goes, if the text has room for two.

The others hold until two threads race for something, and
each rests on those before it. `ReadInvariant`: one thread tokenizes, and its pointers
and the separators overwritten so far are where its own request has them; behind the
parsing its host name is a string nobody writes to. `AddressInvariant`: what it
takes from gethostbyname is its host's address. `DnsInvariant`: in the DNS text every name
is the beginning of its entry with an address of its own, and where that
has no end of line, because it was cut, the text ends (`GoodText`). Of a
writer it says that the text *will* be so when the rest of its entry is written
(`Written`); a symbol moves from the rest to the text and changes nothing of that
(`WriteOne`). That a new entry over an old one gives a good text again is the heart of it
(`OverwriteKeepsGood`): the tail of the old one may begin anywhere, but a name that
is found in the result lies within the entry or within the tail, because no name holds a
line's end and none is part of another or of an address (`NamesApart`). Behind an entry
that was cut there is no tail, because it is as long as an entry can be and the text ends
no later (`RoomInvariant`). `LineInvariant`: a
lookup's copy of the text has the address, or what the cut left of it, where it is about
to read (`BehindColon`).
`PageInvariant`: the file cache has under each name what that name's host serves, since
the name tells host and file apart. TLC finds each of these an invariant of
`MCLookup`'s instance as well.

**The argument for the web server.** The child of the i-th connection starts with i
descriptors and each request it answers takes at most one (`DescriptorsUsed`);
one that takes a descriptor and is not answered ends the child. That the
connection has one place in `accepted` (`OnePlace`) makes i a function of it. A
404 for want of a descriptor then comes after MaxFds - i replies at the
earliest.

**The argument for the key exchange.** `ExchangeInvariant` follows the answer of
a talker: before it has sent its key nothing of it is on the way; while it waits
the key is the only datagram it has sent; an answer on the way names the run
that sent it and that run's public key; and once it has taken an answer of the
present run, every message behind it is encrypted with the key the listener has.
The last needs that the listener's key does not change within a run, and that a
listener that has answered never reads a key again. `OneIsAnswered` follows
because an answer of the present run only goes to `client`.

**The argument for the echo.** `EchoInvariant` says that a client that waits has
at most one datagram anywhere (on the way there, in the server's buffer, on the
way back), its own line, and a client at its prompt has none. So the first thing
that comes back is the answer, and nothing old can.

**The argument for the encodings.** Header and trailer are arithmetic of a few
digits. For the cipher a byte is its eight bits: XOR with the key twice gives each bit
back (`XorFacts`), and a character is zero after it only if it equals the key, so
strlen stops where the sender's buffer was zero and not before. The
loop of the copy is a recursive function over the blocks. What it computes for every
number of blocks is proved by giving its value in closed form, the first so many bytes
of the file (`UpTo`), as the function that satisfies the recursion, and by the least
block at which another one would differ: there is none, so there is one such function.

**Only model-checked.** Liveness under fairness is out of the prover's reach:
`ClientReturns` (of put and of get), `SendFileReturns`, `RequestEnds`,
`RequestAnswered`, `NobodyWaitsInBacklog`, `SomebodyTalks`, `LineComesBack`. Both
`ClientReturns`, `SendFileReturns` and `RequestEnds` rest on loops that come down, and
that much is proved: a tuple of natural numbers (blocks to send, tries, polls; for a
request the parts of `echo` and the chunks to read) gets lexicographically smaller
with every step of the program it belongs to, until the loop ends, and no step of
anybody else changes it (a crash of the proxy ends it). What fairness adds, that the
program does take its next step, stays with TLC. That the keys of `Cipher` agree
(`KeysAgree`) is an ASSUME of `MCParts` that TLC evaluates for all private keys there
are. Every other property of a passing run is a theorem.

## What is not modelled, and why

- Duplication of datagrams by the network. It is rare in practice; the copies
  that matter come from retries, which are modelled.
- Data that looks like a marker or a command: `ConstantsAssumption` excludes it.
  A file with LASTPACKET as a block ends its own put. In ftp files a zero byte
  would cut a block at `strcat`; two equal blocks in a row lose one
  (`NoRepeats` excludes them from the properties, not from the model).
- Failing `fopen`, `fwrite` and `malloc` at the UDP programs; one-byte
  overruns of `sprintf`; the mixed-up arguments of a `printf` (`udp_server.c`
  line 170); reads past a full buffer by `strcat`. They are undefined or depend
  on the file system, and no property here could tell their outcomes apart.
- ls, put and delete of ftp beyond their being sent: the server does nothing
  with them. The exits of its server when `gethostbyaddr` has no name for the sender
  of a datagram or `sendto` fails; a client then meets the silence that the crash in
  `OpenFile` leaves too.
- Two clients of put or of get in a run of TLC, which is out of its reach at the bounds
  that matter; the theorems are for any number, and say of the others what the
  properties say (`TypeOK`, the loops that come down).
- Proxy: MD5 collisions, static pages, the descriptors of origin sockets. In
  `ProxyLookup`: blacklist lines longer than the 100 bytes `fgets` reads; HTTP/1.0, which is treated as 1.1; names that are part of
  other names or of addresses (`NamesApart`), where `strstr` finds the wrong
  entry. What another thread reads in a freed copy of the text is taken as empty,
  and an address that was never written as one that does not connect.
- Web server: the keep-alive header, which is always sent (the strtok loop has
  consumed the header it looks for); a request that comes in pieces, which reads as an
  unsupported one; a request that fills the 2048-byte buffer; closed connections that
  other children still hold open.
- IPsec: a talker that is started again, which is another talker. A
  character equal to the key cuts a message there, and what is printed behind
  it are key characters; `TextArrives` excludes it.
- UDP Transfer: datagrams to a client from anyone but the server, which it would
  take for the reply and send its next line to; lines longer than the buffer.
- File IO: the opening of its two files; when it fails the program ends.
- Makefiles, shell scripts, data files, the `ftest` binary and `submission.tar`.

## Plan

1. `Packets`, `FileTransfer`: put, with its header. Done, proved.
2. `FilePut`, `FileTransferRefinement`: what put promises, and that the two
   programs keep it. Done, proved.
3. `FtpTrailer`, `FtpGet`. Done, proved.
4. `ProxyCache`. Done, proved.
5. `WebServer`. Done, proved.
6. `ProxyLookup`. Done, proved: what holds whatever the races, and what holds
   without them.
7. `KeyExchange`. Done, proved.
8. `Echo`. Done, proved.
