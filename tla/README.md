# TLA+ models of the IPC proof of concept

This directory holds TLA+ models of the C# program in `src/`: a small IPC
library over TCP (an asynchronous server, channels with length-prefixed
messages), a cache server and a business server built on it, and the
database, queue and web clients around them. TLC checks the models on small
instances; TLAPS proves the safety properties for every value of the constants.

`src/v2/IpcPocV2.*` is the current program and the one that is modelled;
`src/IPC.*` and `src/Server.*` are an earlier version of it (v1). Where they
differ is listed under "Version 1".

## 1. Inventory

Paths are below `src/v2/` unless they say otherwise.

| Component | State | Operations | Module | Status |
|---|---|---|---|---|
| IPC server, `Common/InterProcessCommunication/ASyncServer.cs` | listening socket, semaphore of permits, dictionary `Channels`, `_noOfConnectedSockets`, timer | accept loop, a task per accepted socket, `ReleaseChannel`, dead-socket timer every 20 s | `ASyncServer` | modelled but for `Dispose` and bind errors |
| Channel life cycle, `ASyncChannel.cs` | `IsConnected`, socket, time of the last I/O | `Connect`, `Close`, `IsAlive` | `ASyncServer` | modelled |
| Channel framing, `ASyncChannel.cs`, `TransferState.cs`, `Serializer.cs` | send and receive buffer, position, missing bytes | `SendObjectAsync`, `ReceiveAsync`, `GetObject`, the synchronous `Receive` | `Wire`, `Framing`, `Fifo`, `SyncFraming` | modelled but for `Reconnect` |
| Cache server, `Server.Cache` | two dictionaries id → entity | load at start, five lookups, adds of one entity or a list | `CacheServer`, `RowLog` | modelled |
| Repositories, `Data` | tables `customer` and `file` in PostgreSQL | `GetMaxId`, `Insert`, `GetAll`, `CreateTable` | `CacheServer`, `Startup` | modelled |
| Record inserter of the business server, `DbHelper.cs` | next id and rest of the batch | insert 1 to 999 rows at ids counted once, for ever | `CacheServer` | modelled |
| Relay of the business server, `Server.Business/Helpers/ChannelHandler.cs` | one channel to the client, one to the cache | forward a command, forward the answer, or a fallback answer | `Relay`, `Rpc` | modelled |
| Clients, `Clients/*.cs` | one channel | connect, send a command and wait for its answer, close | `Relay`; environment of `ASyncServer` and `CacheServer` | modelled |
| Queue publisher and consumer, `QueueHelper.cs`, `Server.QueueConsumer` | a queue that is not durable | connect, declare the queue, publish every 1.2 s, consume with `autoAck` | `Startup` | partly: up to the first message |
| Start-up, the `Program.cs` files, `docker-compose.yml` | none: every process sleeps for a fixed time | sleep, create or load tables, connect, listen, end | `Startup` | modelled |
| Web client, `Client.Web` | the list of responses of a form | post a form of files, add their records, show a page; queries | `Upload`; a query is a command of `Relay` | partly |
| File client, `Client.File` | files on disk | store an upload, download | `Upload` | modelled |
| v1 `src/IPC.Core/Channel.cs` | a buffer of 4096 bytes | synchronous `SendObject`, `GetObject` | `SyncFraming` | modelled |
| v1 `src/IPC.Database` | none | select and aggregate functions built on SQL strings | | not modelled |
| Vendored JavaScript and CSS, views, build files | | | | out of scope |

### How the components interact

A client opens a TCP connection. The accept loop of the server takes a permit,
accepts the socket, and starts a task that registers a channel and calls
`ProcessConnection` of a new handler. The handler reads one command at a time,
answers it, and closes its channel when the client hangs up, a read times out
or anything throws. A timer looks at every registered channel every twenty
seconds and closes those that look dead and had no I/O for ten; so a channel has two closers that do
not know of each other. All handlers of the cache server run on the thread
pool and share two `Dictionary` objects without a lock; all of them, and the
business server's inserter, write to the same tables. The business server's
handlers forward commands over a second channel of the same kind.

### What is hard, and what makes each component correct

*IPC server.* The hard part is the concurrency of accept loop, tasks, handlers
and timer, with exceptions in between. Permits must balance, the number of
clients served must be bounded, a channel must be findable until it is closed
and not afterwards, live clients must be kept, the channels of dead clients
must be reclaimed, queued clients must get in.

*Framing.* TCP cuts frames anywhere, and both buffers are reused and grow. The
receiver must never lose its place, and objects must come out in order, whole
and once.

*Cache server.* `max(Id) + 1` is read long before it is used; adds are not
atomic over table and dictionary, lists not atomic at all; the `Dictionary`
supports no concurrent writers; the process may crash anywhere. The dictionary
must stay a part of the table, the table must stay a log, and what a client
was told must stay true.

*Relay.* Two channels in a row, nothing on them numbered, each with reads that
time out after five minutes and are then still waited for; the result of
`Connect` is ignored, the cache server comes late or restarts, and the fallback
answer has another type than the answer; and a connection may get no handler at all.
Answers must not be mixed up, commands must not run twice, and nobody whom a handler
serves must wait for ever.

*Start-up.* Five activities in three processes whose order only sleeping
ensures, and which die of whatever is not there yet.

*Upload.* Three processes store a file and then its record; each step can
fail, its failure may be taken for a success, and users download at the same time. A
record must have its file, and the page must say what happened.

`PROJECT.json` lists the hazards with their lines and the properties that
cover them.

## 2. The modules

    ASyncServer  <- MCASyncServer, ASyncServerProofs
    RowLog <= CacheServer  <- MCCacheServer, CacheServerProofs
    Fifo   <= Framing <- MCFraming, FramingProofs      Framing, SyncFraming -> Wire
              SyncFraming <- MCSyncFraming, SyncFramingProofs
              FramingProofs, SyncFramingProofs -> WireProofs -> Wire
    Rpc    <= Relay    <- MCRelay, RelayProofs
              Upload   <- MCUpload, UploadProofs
              Startup  <- MCStartup, StartupProofs

(`<-` is extended by; `->` extends; `<=` is implemented by, with a refinement mapping.)
An operator whose comment starts with "Mutant:" is no part of a model. It is a
plausible mistake in the definition that follows it, and serves to show that a
property notices the mistake.

### ASyncServer

A connection `c` stands for a client, its socket, its channel and its task;
`pc[c]` is where the task and then the handler are.

| Model | Code |
|---|---|
| `peer`, `backlog`, `inbox` | the client; the listening socket's queue; unread bytes in the accepted socket |
| `accept`, `sem` | `AcceptConnections`, before `WaitOne` or with a permit in `AcceptAsync`; `MaxConcurrentClients` |
| `Channels`, `noOfConnectedSockets` | the fields of these names |
| `isConnected`, `shut`, `recent` | `IsConnected`; socket disposed; `LastIOTime` within ten seconds |
| `mon`, `slots`, `todo`, `cur` | the timer's callback: its place, the size of its array, the channels left to look at, the current one |
| `refused`, `swept` | history: releases that threw `SemaphoreFullException`; channels the timer released |
| `lost`, `lostCounted` | history: accepts that failed and kept their permit; those of them that were counted as connected |
| `added` | history: channels registered since the timer sized its array |

| Actions | Code |
|---|---|
| `Connect`, `Ask`, `Hangup` | the client |
| `StartAccept`, `ProcessAccept`, `AcceptFails` | `AcceptConnections`; an accept that fails takes no client and keeps its permit |
| `CountConnection`, `SetupThrows`, `AddChannel`, `CreateHandler` | the task of `ProcessAccept`, one action between two points where others can run or an exception can leave |
| `BeginReceive`, `Receive`, `ReceiveEndOfStream`, `ReceiveThrows`, `ReceiveTimesOut`, `DrainTimedOutRead` | `ReceiveAsync`; after a timeout the pending read is still awaited, and what it brings is dropped |
| `Reply`, `HandlerThrows` | `ProcessInternal` around `ProcessCommand` |
| `HandlerReleases`, `HandlerRemoves`, `HandlerShutsDown` | `Close` called by the handler: `ReleaseChannel` (semaphore, then dictionary), then the socket |
| `TickFindsChannels`, `TickCounts`, `TickCopies`, `TickCrashes`, `NextChannel`, `CheckLastIO`, `Poll`, `Available`, `MonitorReleases`, `MonitorRemoves`, `MonitorShutsDown`, `TickEnds`, `TickOnNothing` | the timer's callback and `IsAlive`; `Channels.Count` is read for the zero test and again for the size of the array, and copied after that, each a step of its own; the timer is re-armed only at the end of its callback |
| `Idle10s` | ten seconds without I/O on a channel |

`MCASyncServer` states the liveness properties of one client, `Watched`: clients
are interchangeable, and the properties of one cost half the time of all.

Data on the wire is "a request is there" or not; time is the one fact whether
the last I/O is ten seconds old.

### CacheServer

One table and its dictionary; customers and files go through the same code
over tables that share nothing. `db` is the table (id → row), `cache` the
dictionary, `pc[h]` the place of connection `h`'s handler in its command,
`id[h]` the id it read from the database, `todo[h]` what is left of the list.
`ReceiveAdd`, `KeyMissing`/`KeyHeld`, `GetMaxId`, `Insert` (or
`InsertThrows`, `InsertUnconfirmed`), `BeginDictionaryAdd` and
`EndDictionaryAdd` are the steps of `CacheHelper.Add`. `Insert` fails on an id
that is taken, as the primary key makes it. `Dictionary.Add` has a begin
and an end because two of them may overlap, which the type does not support:
`EndOverlappedAdd` and `OverlappedAddThrows` then choose any outcome the
implementation can produce (an entry lost, filed under the other id, an
exception), and `corrupt` says that it has happened. A lookup by anything
but the id enumerates the dictionary and throws when an add overtakes it.
`GetMaxIdThrows` is a database that is gone before anything was inserted.
`Load`, `StartServer` and `Crash` are the process; `Load` throws on a row whose nullable
column is null (`Unreadable`), and the server then does not start. `leftBehind`
is history: what lists had added when they stopped, by a refusal, an exception or a crash.
`Inserter*` is the business server's loop, whose task dies silently of its
first exception.

`RowLog` is what the table promises: rows are appended, each under the next id,
and never change. `CacheServer` implements it (`TableIsLog`).

### Wire and Framing

`Wire` is the sender: `SetData` copies a frame into the reused `SendState`
buffer, `Write` puts any number of its bytes on the stream. `Framing` adds the
receiver of `ReceiveAsync`: `PrepareForHeader`, `Read` of any number of bytes,
`PrepareForBody` with the growing of the buffer, `Deserialize`. A byte is a pair
of its object and its offset, so that a byte in a wrong place is seen. An
object is its number; what the formatter makes of it is abstracted to
its length. Either side may end the connection at any byte, and a read may
time out. `Fifo` is what a channel promises, and `Framing` implements it
(`DeliversInOrder`).

### SyncFraming

The two synchronous receivers of the repository at the other end of `Wire`,
chosen by `mode`: `ASyncChannel.Receive` of v2 and `Channel.GetObject` of v1.
The first starts the prefix over at every read of it (`HeaderStart`); the
second has a buffer that never grows (`Fits`) and puts the body over the
prefix. Both spin on a read of 0 bytes (`StreamEnds`). `slipped` is history: the
one thing has happened that this loop cannot take. Both are public parts of
the library that no program of the repository calls.

### Relay and Rpc

One chain per client: client, business handler, cache handler.

| Model | Code |
|---|---|
| `cpc`, `connected`, `asked`, `query`, `outcome` | a `BusinessServerClient` in the web client: its place, `IsConnected`, its commands, whether the answer is cast to a derived type, what each call came to |
| `requests`, `replies`, `clientShut`, `handlerShut` | the channel between client and handler |
| `hpc`, `held`, `answer` | `ProcessInternal` of the business server's handler, `command`, `response` |
| `link`, `toCache`, `fromCache` | `_cachChannel`, and what is on it |
| `cacheUp`, `xpc`, `xcmd` | the cache server and its handler |
| `ran` | history: the commands that took effect |

| Actions | Code |
|---|---|
| `Connect`, `Ask`, `Leave`, `GetReply`, `ReplyEnds`, `GetObjectThrows`, `ReplyTimesOut`, `LateReply` | the client; `Resolve` is what `GetObject` and the cast make of what came |
| `Accept` | the business server takes the connection from its backlog and makes a handler; or the handler's constructor throws, and the channel has nobody who reads it |
| `ConnectWithCache` | once per connection, its result ignored |
| `ReceiveCommand`, `CommandEnds`, `CommandTimesOut`, `DropLateCommand` | the handler's read; a command after five minutes of silence is dropped |
| `SendCommand` | forwarded, or lost on a broken connection, or answered by the fallback |
| `ReceiveAnswer`, `AnswerEnds`, `AnswerTimesOut`, `DropLateAnswer` | the wait for the cache server; no answer is dereferenced and throws |
| `Reply`, `CloseChannel`, `CloseCacheChannel` | the answer to the client; `Release` |
| `Cache*`, `TimerClosesClient`, `TimerClosesLink`, `Crash`, `StartServer` | the cache server's handler, the dead-socket timers of both servers, the cache server's process |

`Rpc` is what a client may expect: commands run at most once and in the order
they were asked; each ask ends in an answer (the command has run), in a fallback
(neither it nor a later command of the connection will run), or in nothing
(it may have run, or run later). A client that no handler serves (`Unserved`: still in
the backlog, or accepted without a handler) may wait for ever; the properties on waiting
say so. `Relay` implements it (`ImplementsRpc`).

### Upload

`Web` is `UploadFiles` with its loop over `SaveFile`: `NextFile`,
`PostReturns`, `PostThrows`, `AddReturns`, `AddThrows`, `ShowPage`. `FileClient`
is the file client's `Post`, a file copied in pieces; `OpenDownload`,
`ReadChunk` and `CloseDownload` are its `Download`. The result of
`client.Add` is taken from what `Relay` and `CacheServer` promise: an answer,
a refusal that may have stored the record, or null, after which the record
may still appear (`late`). `Passes` is all the web client asks of the answer to an
upload: that it contains OK, whatever its status. `UploadThrows` therefore has two
outcomes, since an error page may contain OK too: the developer's page shows the
source around the exception with its `Status = "OK"`, and the other page prints a request's
identifier. `platform` is the file client's: the upload's path is
written with backslashes, and Windows alone enforces sharing modes.

### Startup

`now` is a clock in milliseconds that stops at every instant at which a process
goes on; `due[p]` is that instant. `StartPublisher` and `StartInserter` are the
business server's `Main`; `PublisherConnects`, `PublisherDeclares`,
`ConsumerConnects`, `ConsumerConsumes` the queue; `CreateDatabaseIfNotExists`,
`CheckTable`, `CreateTable`, `Load` the database, which an earlier start may
have left half created; `ReadLineReturns` the end of a `Main` that has no
standard input. PostgreSQL and RabbitMQ are ready at any of `Boots`,
containers start at any of `Skews`, and each step takes one of `Delays`.

## 3. The runs

| Run | Instance | States | What it shows |
|---|---|---|---|
| `server_safety` | 2 clients, capacity 1, no slack, faults in accepting and in setting up sockets and handlers | 457,983 | accounts of permits and counter, bounds on the clients served, registry, zombies, silent clients, crashes only in bursts of new channels; the timer releases once |
| `server_live` | 2 clients, capacity 1, handlers that may fail to be constructed, fair | 388,834 | requests are resolved; channels of clients that hung up are closed by handler or timer; queued clients are accepted if clients hang up in the end |
| `cache_safety` | 2 handlers, 2 rows, one of them unreadable, 3 ids, batches of 2, faults | 3.7 million | no key twice, dictionary within table, promises kept, table is a log |
| `cache_lists` | lists of up to 2 on 2 ids, 1 row, faults, fair | 985 thousand | a stopped list leaves at least its prefix, however it stopped; every command ends |
| `framing` | prefix of 2 bytes, buffer of 3, bodies of 1 to 3, 3 objects, fair | 14,577 | reads fit, the receiver is in step and waits for nothing that is not sent, the queue is implemented, all is delivered |
| `sync_framing` | prefix of 2 bytes, buffer of 3, bodies of 1 to 4, 3 objects, fair | 134,320 | both synchronous receivers keep their place until the one thing happens that they cannot take; until then they wait for nothing that is not sent, and deliver all |
| `relay` | 1 client, 3 commands, 2 crashes of the cache server, fair | 78,264 | answers are the command's own, a fallback is final, whoever waits is owed something or has no handler, the chain implements `Rpc`, waits on a handler end, the chain closes |
| `upload` | 1 form of 2 files of 0 to 2 pieces, 2 downloads, both platforms, fair | 185,208 | records have whole files and downloads are whole but where an error page passed for an OK, pages are complete and final, forms whose adds come back end |
| `startup` | the sleeps of the code; instants around their margins, fair | 342,680 | the sleeps suffice while their differences cover the delays; a server that listens has what it needs; all serve |
| `server_overadmits` | 3 clients, capacity 1 | violation | more clients served than the maximum |
| `server_liveclosed` | 1 client | violation | the timer closes a live client |
| `cache_torn` | 2 handlers | violation | overlapping adds make table and dictionary disagree |

No run lists a `TypeOK`: each module's is a theorem (`TypeCorrect`), and so is
`Aligned` of `Framing` (`StreamAligned`).

### Bounds, and why they are enough

Capacity 1 with two clients is the smallest server on which clients compete
for a permit, one channel is closed twice, and a surplus permit lets a second
client in while the first is served; three clients are needed only to exceed
the capacity visibly (`server_overadmits`). `Slack` is 5 in the code; 0 lets
two clients be a burst, and the theorems hold for every slack. Three clients
in the full safety run make more than 26 million states; the
theorems cover that and every larger instance.

In `cache_safety` two handlers and the inserter can all hold the same id, with
a row left for the one that comes second and a crash in any place; batches of
two let the inserter's second id be taken while it inserts the first. Lists
of two need another instance (`cache_lists`), since both
together are beyond five minutes. One of the two rows is one that `Load` cannot read, so
that the server may be unable to start again. `SentIds = {0, 1}` is a new entity and one
whose id exists or comes to exist.

In `framing` a prefix of two bytes can be split, bodies of one byte fit the
initial buffer and larger ones make it grow, and three objects let a short one
follow a long one in either buffer. In `sync_framing` the same prefix can be
split, and the longest body does not fit the fixed buffer.

Clients of `Relay` share only whether the cache server is up, so one chain shows what can go
wrong in a chain; the theorems hold for any number. Three commands let one get
an answer, one none, and one follow it; two crashes let the cache server
restart while a connection is open and fail again.

In `upload` the second file follows one that was stored, refused, or empty, a
file of two pieces can be met half written, and two downloads can meet on one
file. In `startup` the sleeps are those of the code; the boots are before, just at
and after the instants at which the publisher (21,892 ms) and the others first need their
server; a skew of three seconds and delays of 1.8 and 3 seconds are within one
margin (six delays before the cache, 17,711 ms) and at or beyond the other (two delays
before the consumer, 6,765 ms).

### Fairness

The accept loop, the timer and the task of each connection are weakly fair:
the thread pool runs what can run, and a `System.Threading.Timer` fires. So is
`Idle10s`: time passes. Nothing is assumed of clients, who may stay
silent for ever. That clients hang up is a premise of `QueuedClientAccepted`
alone, stated in the property. In `CacheServer` only the steps of a handler inside
a command are fair. In `Framing` the kernel's writes and the receiver are fair;
timeouts, the sending of objects and the ending of the connection are not;
`SyncFraming` is the same. In `Relay` the reads of a client, its handler and the
cache server's handler are fair; that a client asks or leaves, that reads time out,
that timers close a channel, that the business server accepts (it may be out of permits) and
that the cache server crashes or starts is not. In `Upload` both web
servers run their requests; that the `Add`s of a form come back is a premise of
`FormEnds` (`AddsReturn`) and not assumed, since a client without a handler
waits for ever; nobody downloads for certain, and no failure is fair. `Startup` has weak
fairness of its next-state relation: time passes and processes run.

`CHECK_DEADLOCK FALSE` is set where the modelled system may stop: a server
whose process has crashed or whose clients have all left, a connection that has ended.

## 4. What the violation runs say

Each of them states what a document or comment in the repository says, and
`PROJECT.json` quotes the line.

- `ReleaseChannel` is not idempotent, and both the handler and the timer call it: the permit of
  one client comes back twice, and more than the documented "Maximum No
  of clients which may remain connected concurrently" are served. The passing
  property `CapacityBound` says by how many at most (one for each channel released twice),
  and that a permit is lost only by a failed accept or set-up.
- `IsSocketConnected` asks `Poll` and `Available` one after the other while the
  handler's read is pending: a request that comes and is read between the two
  looks like the end of the stream.
- `Dictionary.Add` of two handlers may overlap. Table and dictionary then
  disagree until the process restarts.

Facts met while modelling that no document contradicts, so that there is no
violation run for them; the passing property that states each is named where there is one.

- After a surplus permit a later `Release` finds the semaphore full and throws
  before `TryRemove`: the closed channel stays in `Channels`. `ZombieExplained`
  says that nothing else leaves one there.
- A client that leaves an unread request behind in a channel without a handler
  looks alive for ever (the exception in `HangupReclaimed`). The business server
  can have such channels: the constructor of its handler parses the configured host name
  `servercache` as an IP address and throws. Its client then waits for ever (`Unserved` in
  `WaitIsOwed` and `WaitEnds`), and so does a form of the web client (`AddsReturn`).
- The web client takes an error page with the letters OK in it for a stored file: the record
  is added, and its file is missing or torn (`Misread` in `RecordHasFile` and
  `DownloadsWhole`, which say that nothing else does this).
- A row whose `Path` is null keeps the cache server from starting (`Unreadable`); the web
  client writes none.
- A failed accept keeps its permit (`lost` in `PermitAccounting`).
- A command that arrives after five minutes of silence is read and dropped, and
  the connection closed (`DropLateCommand`; `WaitEnds`).
- After the cache server restarts, every command of a client connected before
  gets the fallback answer until the client connects again (`FallbackIsFinal`).
- One null answer to an `Add` makes the page of the whole form an error page,
  although the other files have records (`PageIsComplete`).
- Where the file client runs on Linux, as in `docker-compose.yml`, an upload is stored under a
  name with backslashes that no download looks for (`DownloadsWhole`). On Windows two downloads of
  one file refuse each other.
- `docker-compose.yml` gives the servers no standard input, so `Console.ReadLine` returns and
  `Main` ends; on a first start the business server's inserter may end
  before it has created the tables that the cache server needs. The
  premise of `NobodyDies` says when this cannot happen.
- The inserter counts the ids of a batch once. The first add of a client that takes one of
  them makes its next insert fail; the exception ends its task, nobody looks at it, and
  no record is inserted again until the business server restarts (`InserterDies`; no property
  says that it goes on, which is false whenever a client adds, and the table stays a log
  across it).
- `ASyncChannel.Receive` prepares for the prefix again before every read of it, so one that
  arrives in two pieces is put over itself; the v1 `Channel` cannot receive a body
  longer than its buffer and takes that body for the next prefix. No program of the repository
  calls either. `PlaceKept` says that nothing else makes either lose its place.
- The id that a client puts into an entity is overwritten by `max(Id) + 1` and
  not returned, so the entity is not found under the id it was sent with; and the
  rows of the inserter are not in the cache until it restarts.

## 5. What is proved

`tlapm` checks every leaf. The theorems assume no more than the
named `ASSUME`s of the modules: finitely many clients, a positive capacity, bounds that are numbers.
Every invariant and every action property of the passing runs is a theorem, and so are
the three refinements (`Fifo`, `RowLog`, `Rpc`). The theorems hold for any number of
clients, handlers, files and objects, which the runs can only sample.

*ASyncServerProofs.* The listed invariants are not inductive. The inductive
one (`IInv`) adds where a connection can be when it is in the backlog (`QueueInv`),
which channels the timer can hold and that it has not released the one it is
about to release (`TimerInv`), which releases were refused (`RefusedInv`), that a client
that has asked nothing has been given no reason to be closed (`QuietInv`), and
that the timer's array, once sized, has room for all channels but those added since, and
the slack (`ArrayInv`): the channel that the zero test found may be gone by then.
`Balance` is the heart of it: permits and counter as equations between cardinalities,
for which every action's effect on the sets of accepted and released connections is a lemma. A release is
refused only while all permits are back, so there are never more refused releases than
channels released twice (`RefusalInv`), and no permit is lost but by a failed accept or set-up. Theorems:
`TypeCorrect`, `PermitsAccounted`, `CounterAccounted`, `CapacityBounded` (both bounds),
`RegistryComplete`, `ZombiesExplained`, `QuietClientsKept`,
`CrashesNeedBurst`, `RequestsKept` (no request is forgotten), and the action property
`TimerReleasesOnce`.

*CacheServerProofs.* The argument is that the ids of the table are
`1..max(Id)` at all times, so that an id that was `max(Id) + 1` at some time
is either the next one still or taken, and an insert that succeeds appends
(`TableGrows`). A handler that reaches `Dictionary.Add` therefore owns its id. What was promised, or left
behind by a stopped list, is in the dictionary from the loading of the table on
(`ToldLoaded`, `PrefixLoaded`), which the two properties say only of a server that is up.
Theorems: `TypeCorrect`, `KeysAreFresh`, `CacheAgrees`, `PrefixesStored`,
`PromisesStored`, `PromisesVisible`, and `TableImplementsLog`, the refinement of
`RowLog`. `CommandsShrink` is the variant of a command: a handler has at most five steps
left for each entity of its list (`Work`), each step it takes in a command uses up one
at least, and nobody else's step gives one back.

*WireProofs* has no listed theorem: it says once for both receivers that the bytes still on
the stream are consecutive bytes of the frames in the order sent, each in its
place (`StreamAt`), and that the sender's steps and the taking of bytes keep it so.

*FramingProofs.* To the stream of `WireProofs` the inductive invariant adds that the bytes the
receiver has read of the current frame are those before the first byte of the stream, wherever the
reads have cut it. From it: `TypeCorrect`, `ReadsFit`, `StaysInSync`, `StreamAligned`,
`WaitsForSomething` (what the receiver asks for is on the stream or with the sender), and
`ChannelIsFifo`, the refinement of `Fifo`.

*SyncFramingProofs.* The same for the synchronous receivers, as long as nothing has
slipped; the body that v1 puts over the prefix shifts what the buffer holds by
`HeaderSize` (`Offset`). After a slip nothing is claimed but types and its cause
(`SlipInv`): in v1 only a body longer than the buffer. Slipped or not, a receiver spins or fails
only on a closed connection (`EndInv`). Theorems: `TypeCorrect`,
`KeepsPlace`, `WaitsForSomething`.

*RelayProofs.* Nothing on the channels is numbered, so the argument is that a
command is in one place at a time: every queue holds at most one, on the way to the
handler it is the last one asked (`RequestInv`), beyond the handler it is the one
the handler holds, in one queue or with the cache handler (`CacheInv`). Every response on its way is true
(`Sound`); after a fallback nothing asked over that connection can run (`Dead`).
For the waits, the link to the cache server is open only while the cache server is up and serves
it, and closed by the handler only at its end (`LinkOwed`). Theorems: `TypeCorrect`,
`AnswersAreOwn`, `FallbacksAreFinal`, `WaitsAreOwed` (nobody waits for one who waits for him,
and a client that no handler serves has its command unread in front of it, `Unread`),
`RelayIsRpc`.

*UploadProofs.* `reply` is OK only for a stored file, a page with an OK in it only for an
upload that is over, and a record is asked for only after one of the two; what has
been answered is not written again, so that a download meets a file that no longer
changes. A file whose upload has ended has its answer (`WorkInv`). Theorems: `TypeCorrect`, `RecordsHaveFiles`, `DownloadsAreWhole`,
`PagesAreComplete`, `FormsAreOwed`.

*StartupProofs.* Each place of a process has a number of delays by which it can be late
(`Lateness`); the invariant bounds `due` by the planned instant plus so
many times the longest delay, and says that what was to be created by then is
there. `OnRoad` lists the places on each process's way and where it rests. Theorems:
`TypeCorrect`, `ServersPrepared`, `SleepsSuffice`, `TablesCreatedOnce`,
`StartsEndInService`, for any sleeps and delays.

### Progress: what is proved of it, and what is only model-checked

The prover has no rules for `ENABLED`, and so none for fairness: the ten liveness
properties of the runs stay with TLC. Each says that something is owed, and that those who owe it
run. The first half is a safety property and is proved, so that what is left to
the runs' instances is the counting of fair steps.

| Checked by TLC | Proved |
|---|---|
| `RequestResolved` | `RequestsKept`: a request is with the handler or ahead of it, or the channel is closed or closing |
| `QueuedClientAccepted` | `CapacityBounded`: the accept loop waits only while at least the maximum of connections is taken and not released |
| `HangupReclaimed` | `RegistryComplete`: the timer finds every channel that nobody has begun to release |
| `CommandEnds` | `CommandsShrink`: the variant falls with every step |
| `Delivered`, `SyncDelivered` | `WaitsForSomething` of `FramingProofs` and of `SyncFramingProofs` |
| `WaitEnds`, `ChainCloses` | `WaitsAreOwed` |
| `FormEnds` | `FormsAreOwed` |
| `AllServe` | `StartsEndInService`: when nobody has anything left to do, everybody works, or has died or ended |

## 6. What is not modelled, and why

- `ASyncServer.Dispose` (no v2 server calls it), failures to bind, the numbering
  of channels (used in log lines only).
- `Reconnect` of `ASyncChannel`, which nothing calls.
- What RabbitMQ does with messages: the publisher and the consumer keep nothing
  that a lost message would contradict.
- A peer that vanishes without closing its connection.
- Ids that overflow 32 bits. A corrupt `Dictionary` whose lookups spin for
  ever: the exception stands for it.
- A database that is up and goes away again, in `Startup`: in `CacheServer` every access may
  fail.
- `CacheServer` has no channels: a handler that answers is idle again, one
  that throws is idle again for the next client. `ASyncServer` has no commands.
  That a handler always comes back is `CommandEnds` in the one module, and what
  the server does then is in the other.
- `src/IPC.Database` (v1 repositories): stateless functions that write the text
  of one SQL statement. All that could be checked is that text.
- SQL text, serialization formats, logging, views, ASP.NET start-up.
- JavaScript. All of it is third-party (jQuery, its validation plug-ins, Bootstrap) but for
  `site.js`, which holds comments only: the program itself is C#.

### Version 1

`src/IPC.Core/ASyncServer.cs` and `ASynchChannel.cs` are the v2 classes but for
`Dispose`, which the v1 business server calls. `src/Server.Cache` and
`src/Server.Business` have the control flow of the v2 handlers.
`src/IPC.Core/Channel.cs` (in `SyncFraming`) and
`src/IPC.Database/BaseRepository.cs` (not modelled) have no counterpart in v2.

## 7. Done and left

Done, in this order: `ASyncServer`, `CacheServer` with `RowLog`, `Wire` and `Framing` with `Fifo`,
`Relay` with `Rpc`, `SyncFraming`, `Upload`, `Startup`; the runs of all of
them; proofs of every invariant and action property of the passing runs, of the three
refinements, and of the safety half of the liveness properties.

Left: variants, like `Work` of `CacheServerProofs`, for the waits of `Relay` and for the
clock of `Startup`; `Dispose`, should a v2 server come to call it.
