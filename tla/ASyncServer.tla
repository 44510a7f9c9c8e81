----------------------------- MODULE ASyncServer -----------------------------
(***************************************************************************)
(* The server half of the IPC library: ASyncServer accepts TCP clients,    *)
(* each accepted client holds one permit of a semaphore until its channel  *)
(* is closed, and a timer closes the channels of dead clients.  A channel  *)
(* is closed by its handler (the finally block of ProcessInternal) and, on *)
(* its own, by the timer: the two closes of one channel may interleave.    *)
(*                                                                         *)
(* Sources: v2 ASyncServer.cs, ASyncChannel.cs and the handler loop of the *)
(* cache server's ChannelHandler.cs.  A connection c names the client, its *)
(* socket, its channel and its handler.  Data on the wire is one request   *)
(* or nothing (Framing.tla has the bytes); ten seconds without I/O is the  *)
(* action Idle10s; the bodies of commands are abstracted to "busy".        *)
(***************************************************************************)
EXTENDS Integers, Sequences, FiniteSets

CONSTANTS
    Conns,                      \* the clients that may ever connect
    MaxConcurrentClientsCount,  \* capacity of the semaphore
    Slack,                      \* spare slots of the timer's array (5 in the code)
    AcceptFaults,               \* may setting up an accepted socket throw?
    HandlerCtorThrows,          \* may the constructor of the handler type throw?
    NoConn                      \* the timer has not looked at a channel yet

ASSUME ConnsAssumption == IsFiniteSet(Conns)
ASSUME MaxAssumption == MaxConcurrentClientsCount \in Nat \ {0}
ASSUME SlackAssumption == Slack \in Nat
ASSUME NoConnAssumption == NoConn \notin Conns
ASSUME SwitchAssumption == AcceptFaults \in BOOLEAN /\ HandlerCtorThrows \in BOOLEAN

VARIABLES
    \* the clients and the wire
    peer,       \* peer[c]: what client c is doing
    backlog,    \* connections the listening socket has queued
    inbox,      \* connections with an unread request in the server's socket
    \* the server
    accept,     \* the accept loop: before WaitOne, or with a permit in AcceptAsync
    sem,        \* count of the semaphore MaxConcurrentClients
    Channels,   \* keys of the dictionary Channels
    noOfConnectedSockets,
    crashed,    \* an exception left the timer callback: the process is gone
    \* the channel and handler of each connection
    pc,         \* pc[c]: where the task that serves c is
    isConnected,\* channels whose flag _isConnected is set
    shut,       \* connections whose server socket is disposed
    recent,     \* channels with I/O in the last ten seconds
    \* the dead-socket timer
    mon, slots, todo, cur,
    \* history, read by the properties only
    swept,      \* channels the timer has released
    refused,    \* calls of ReleaseChannel on which Semaphore.Release threw
    lost,       \* accepts that failed and kept their permit
    lostCounted,\* those of them that were counted as connected first
    added       \* channels registered since the timer sized its array

clientVars  == <<peer, backlog>>
serverVars  == <<accept, sem, Channels, noOfConnectedSockets, crashed>>
permitVars  == <<sem, noOfConnectedSockets>>
channelVars == <<isConnected, shut, recent>>
monitorVars == <<mon, slots, todo, cur>>
historyVars == <<swept, refused, lost, lostCounted, added>>

vars == <<clientVars, inbox, serverVars, pc, channelVars, monitorVars, historyVars>>

PeerStates   == {"none", "connected", "waiting", "answered", "hungup"}
FailedStates == {"noEndPoint", "noChannel"}         \* the task died: permit lost
HandlerLoop  == {"loop", "reading", "draining", "busy"}
ClosedStates == {"remove", "shutdown", "closed"}    \* the handler has released
HandlerStates ==
    {"none", "accepted", "counted", "registered", "orphan", "release"}
        \cup FailedStates \cup HandlerLoop \cup ClosedStates
MonitorStates ==
    {"idle", "sizing", "counted", "sweep", "check", "poll", "available",
     "release", "remove", "shutdown"}

Init ==
    /\ peer = [c \in Conns |-> "none"]
    /\ backlog = <<>>
    /\ inbox = {}
    /\ accept = "waiting"
    /\ sem = MaxConcurrentClientsCount
    /\ Channels = {}
    /\ noOfConnectedSockets = 0
    /\ crashed = FALSE
    /\ pc = [c \in Conns |-> "none"]
    /\ isConnected = {}
    /\ shut = {}
    /\ recent = {}
    /\ mon = "idle"
    /\ slots = 0
    /\ todo = {}
    /\ cur = NoConn
    /\ swept = {}
    /\ refused = {}
    /\ lost = 0
    /\ lostCounted = 0
    /\ added = {}

\* A crashed process takes no step.
At(c, label)   == ~crashed /\ pc[c] = label
OnTimer(label) == ~crashed /\ mon = label
Goto(c, label) == pc' = [pc EXCEPT ![c] = label]

-----------------------------------------------------------------------------
(* The clients: they connect once, ask one request at a time, hang up.     *)

Connect(c) ==
    /\ ~crashed /\ peer[c] = "none"
    /\ peer' = [peer EXCEPT ![c] = "connected"]
    /\ backlog' = Append(backlog, c)
    /\ UNCHANGED <<inbox, serverVars, pc, channelVars, monitorVars, historyVars>>

Ask(c) ==
    /\ ~crashed /\ peer[c] \in {"connected", "answered"}
    /\ peer' = [peer EXCEPT ![c] = "waiting"]
    /\ inbox' = IF c \in shut THEN inbox ELSE inbox \cup {c}
    /\ UNCHANGED <<backlog, serverVars, pc, channelVars, monitorVars, historyVars>>

\* A FIN leaves an unread request readable, a reset discards it.
Hangup(c) ==
    /\ ~crashed /\ peer[c] \notin {"none", "hungup"}
    /\ peer' = [peer EXCEPT ![c] = "hungup"]
    /\ inbox' \in {inbox, inbox \ {c}}
    /\ UNCHANGED <<backlog, serverVars, pc, channelVars, monitorVars, historyVars>>

-----------------------------------------------------------------------------
(* The accept loop and the task it starts for each accepted socket.        *)

\* Mutant: the accept loop does not wait for a permit.
StartAcceptWithoutWait ==
    /\ ~crashed /\ accept = "waiting"
    /\ accept' = "accepting"
    /\ UNCHANGED <<clientVars, inbox, permitVars, Channels, crashed, pc, channelVars,
                   monitorVars, historyVars>>

\* StartAccept: the permit is taken before the client is accepted.
StartAccept ==
    /\ ~crashed /\ accept = "waiting"
    /\ sem > 0
    /\ sem' = sem - 1
    /\ accept' = "accepting"
    /\ UNCHANGED <<clientVars, inbox, Channels, noOfConnectedSockets, crashed, pc,
                   channelVars, monitorVars, historyVars>>

\* ProcessAccept: start the client's task; finally, StartAccept again.
ProcessAccept ==
    /\ ~crashed /\ accept = "accepting"
    /\ backlog # <<>>
    /\ backlog' = Tail(backlog)
    /\ Goto(Head(backlog), "accepted")
    /\ accept' = "waiting"
    /\ UNCHANGED <<peer, inbox, permitVars, Channels, crashed, channelVars,
                   monitorVars, historyVars>>

\* AcceptAsync fails: the task finds no socket, or one without an end point, which it
\* only notices after the increment.  No client is taken, and the permit is kept.
AcceptFails ==
    /\ AcceptFaults
    /\ ~crashed /\ accept = "accepting"
    /\ accept' = "waiting"
    /\ lost' = lost + 1
    /\ \/ UNCHANGED <<noOfConnectedSockets, lostCounted>>
       \/ /\ noOfConnectedSockets' = noOfConnectedSockets + 1
          /\ lostCounted' = lostCounted + 1
    /\ UNCHANGED <<clientVars, inbox, sem, Channels, crashed, pc, channelVars,
                   monitorVars, swept, refused, added>>

\* Mutant: the connected sockets are not counted up.
CountNothing(c) ==
    /\ At(c, "accepted")
    /\ Goto(c, "counted")
    /\ UNCHANGED <<clientVars, inbox, serverVars, channelVars, monitorVars, historyVars>>

\* client.RemoteEndPoint on a good socket, and the increment after it.
CountConnection(c) ==
    /\ At(c, "accepted")
    /\ noOfConnectedSockets' = noOfConnectedSockets + 1
    /\ Goto(c, "counted")
    /\ UNCHANGED <<clientVars, inbox, accept, sem, Channels, crashed, channelVars,
                   monitorVars, historyVars>>

\* The task throws before AddChannel (the peer has reset the connection): the
\* exception is logged and the permit is kept.
SetupThrows(c) ==
    /\ AcceptFaults
    /\ peer[c] = "hungup"
    /\ \/ At(c, "accepted") /\ Goto(c, "noEndPoint")
       \/ At(c, "counted") /\ Goto(c, "noChannel")
    /\ UNCHANGED <<clientVars, inbox, serverVars, channelVars, monitorVars, historyVars>>

\* Mutant: TryAdd gives up and the channel goes on unregistered.
AddChannelGivesUp(c) ==
    /\ At(c, "counted")
    /\ isConnected' = isConnected \cup {c}
    /\ Goto(c, "registered")
    /\ UNCHANGED <<clientVars, inbox, serverVars, shut, recent, monitorVars, historyVars>>

\* new ASyncChannel(client), NextClientId and AddChannel.  No I/O is dated yet.
AddChannel(c) ==
    /\ At(c, "counted")
    /\ Channels' = Channels \cup {c}
    /\ isConnected' = isConnected \cup {c}
    /\ Goto(c, "registered")
    /\ added' = IF mon = "counted" THEN added \cup {c} ELSE added
    /\ UNCHANGED <<clientVars, inbox, accept, permitVars, crashed, shut, recent,
                   monitorVars, swept, refused, lost, lostCounted>>

\* Activator.CreateInstance and handler.ProcessConnection(channel).
CreateHandler(c) ==
    /\ At(c, "registered")
    /\ Goto(c, "loop") \/ (HandlerCtorThrows /\ Goto(c, "orphan"))
    /\ UNCHANGED <<clientVars, inbox, serverVars, channelVars, monitorVars, historyVars>>

-----------------------------------------------------------------------------
(* The handler: ProcessInternal around GetObject and SendObjectAsync.      *)

\* ReceiveAsync throws when the channel is not connected; the loop is left.
BeginReceive(c) ==
    /\ At(c, "loop")
    /\ Goto(c, IF c \in isConnected /\ c \notin shut THEN "reading" ELSE "release")
    /\ UNCHANGED <<clientVars, inbox, serverVars, channelVars, monitorVars, historyVars>>

\* A request arrives; LastReceiveTime is set.
Receive(c) ==
    /\ At(c, "reading")
    /\ c \in inbox /\ c \notin shut
    /\ inbox' = inbox \ {c}
    /\ recent' = recent \cup {c}
    /\ Goto(c, "busy")
    /\ UNCHANGED <<clientVars, serverVars, isConnected, shut, monitorVars, historyVars>>

\* Mutant: a read of 0 bytes is retried, as the synchronous Receive does.
RetryEmptyRead(c) ==
    /\ At(c, "reading")
    /\ peer[c] = "hungup" /\ c \notin inbox /\ c \notin shut
    /\ recent' = recent \cup {c}
    /\ Goto(c, "loop")
    /\ UNCHANGED <<clientVars, inbox, serverVars, isConnected, shut, monitorVars,
                   historyVars>>

\* ReadAsync returns 0: LastReceiveTime is set all the same, GetObject gives null.
ReceiveEndOfStream(c) ==
    /\ At(c, "reading")
    /\ peer[c] = "hungup" /\ c \notin inbox /\ c \notin shut
    /\ recent' = recent \cup {c}
    /\ Goto(c, "release")
    /\ UNCHANGED <<clientVars, inbox, serverVars, isConnected, shut, monitorVars,
                   historyVars>>

\* The pending read fails because the other closer disposed the socket.
ReceiveThrows(c) ==
    /\ At(c, "reading")
    /\ c \in shut
    /\ isConnected' = isConnected \ {c}
    /\ Goto(c, "release")
    /\ UNCHANGED <<clientVars, inbox, serverVars, shut, recent, monitorVars, historyVars>>

\* Five minutes without data: the code logs and goes on waiting for the read.
ReceiveTimesOut(c) ==
    /\ At(c, "reading")
    /\ c \notin recent /\ c \notin inbox /\ c \notin shut /\ peer[c] # "hungup"
    /\ Goto(c, "draining")
    /\ UNCHANGED <<clientVars, inbox, serverVars, channelVars, monitorVars, historyVars>>

\* The timed-out read completes at last: its data is dropped, the stream closed.
DrainTimedOutRead(c) ==
    /\ At(c, "draining")
    /\ c \in inbox \/ c \in shut \/ peer[c] = "hungup"
    /\ inbox' = inbox \ {c}
    /\ isConnected' = isConnected \ {c}
    /\ shut' = shut \cup {c}
    /\ Goto(c, "release")
    /\ UNCHANGED <<clientVars, serverVars, recent, monitorVars, historyVars>>

\* SendObjectAsync on an open channel.  A write to a peer that has gone may fail.
Reply(c) ==
    /\ At(c, "busy")
    /\ c \notin shut
    /\ recent' = recent \cup {c}
    /\ \/ /\ peer' = [peer EXCEPT ![c] = IF @ = "waiting" THEN "answered" ELSE @]
          /\ UNCHANGED isConnected
       \/ /\ peer[c] = "hungup"
          /\ isConnected' = isConnected \ {c}
          /\ UNCHANGED peer
    /\ Goto(c, "loop")
    /\ UNCHANGED <<backlog, inbox, serverVars, shut, monitorVars, historyVars>>

\* Mutant: the exception leaves the handler without the finally block.
HandlerDies(c) ==
    /\ At(c, "busy")
    /\ Goto(c, "closed")
    /\ UNCHANGED <<clientVars, inbox, serverVars, channelVars, monitorVars, historyVars>>

\* The command throws, has no reply, or the channel was closed under the handler
\* (SendState is null): the catch block logs and the finally block closes.
HandlerThrows(c) ==
    /\ At(c, "busy")
    /\ Goto(c, "release")
    /\ UNCHANGED <<clientVars, inbox, serverVars, channelVars, monitorVars, historyVars>>

-----------------------------------------------------------------------------
(* ASyncChannel.Close, by the handler ("handler") or the timer ("monitor").*)
(* ReleaseChannel decrements, then releases the semaphore; when that throws*)
(* (the semaphore is full) the removal from Channels is skipped.           *)

SemaphoreFull == sem = MaxConcurrentClientsCount

\* Mutant: the semaphore is not released.
KeepPermit(who, c) ==
    /\ isConnected' = isConnected \ {c}
    /\ noOfConnectedSockets' = noOfConnectedSockets - 1
    /\ UNCHANGED <<sem, refused>>

Release(who, c) ==
    /\ isConnected' = isConnected \ {c}
    /\ noOfConnectedSockets' = noOfConnectedSockets - 1
    /\ sem' = IF SemaphoreFull THEN sem ELSE sem + 1
    /\ refused' = IF SemaphoreFull THEN refused \cup {<<who, c>>} ELSE refused

AfterRelease == IF SemaphoreFull THEN "shutdown" ELSE "remove"

HandlerReleases(c) ==
    /\ At(c, "release")
    /\ Release("handler", c)
    /\ Goto(c, AfterRelease)
    /\ UNCHANGED <<clientVars, inbox, accept, Channels, crashed, shut, recent,
                   monitorVars, swept, lost, lostCounted, added>>

\* Mutant: TryRemove gives up.
HandlerForgetsToRemove(c) ==
    /\ At(c, "remove")
    /\ Goto(c, "shutdown")
    /\ UNCHANGED <<clientVars, inbox, serverVars, channelVars, monitorVars, historyVars>>

HandlerRemoves(c) ==
    /\ At(c, "remove")
    /\ Channels' = Channels \ {c}
    /\ Goto(c, "shutdown")
    /\ UNCHANGED <<clientVars, inbox, accept, permitVars, crashed, channelVars,
                   monitorVars, historyVars>>

HandlerShutsDown(c) ==
    /\ At(c, "shutdown")
    /\ shut' = shut \cup {c}
    /\ inbox' = inbox \ {c}
    /\ Goto(c, "closed")
    /\ UNCHANGED <<clientVars, serverVars, isConnected, recent, monitorVars, historyVars>>

-----------------------------------------------------------------------------
(* OnSocketTimerTick.                                                      *)

\* The tick returns at once when no channel is registered.
TickOnNothing ==
    /\ OnTimer("idle")
    /\ Channels = {}
    /\ UNCHANGED vars

TickFindsChannels ==
    /\ OnTimer("idle")
    /\ Channels # {}
    /\ mon' = "sizing"
    /\ UNCHANGED <<clientVars, inbox, serverVars, pc, channelVars, slots, todo, cur,
                   historyVars>>

\* Mutant: an array of fixed size.
FixedArraySize == Slack
ArraySize == Cardinality(Channels) + Slack

\* Channels.Count is read again for the size: it may have fallen to 0 meanwhile.
TickCounts ==
    /\ OnTimer("sizing")
    /\ slots' = ArraySize
    /\ added' = {}
    /\ mon' = "counted"
    /\ UNCHANGED <<clientVars, inbox, serverVars, pc, channelVars, todo, cur, swept,
                   refused, lost, lostCounted>>

\* Values.CopyTo(array, 0) when the values still fit.  From here on the array is todo.
TickCopies ==
    /\ OnTimer("counted")
    /\ Cardinality(Channels) =< slots
    /\ todo' = Channels
    /\ mon' = "sweep"
    /\ slots' = 0
    /\ added' = {}
    /\ UNCHANGED <<clientVars, inbox, serverVars, pc, channelVars, cur, swept, refused,
                   lost, lostCounted>>

\* It throws, outside every try block, when they no longer do.
TickCrashes ==
    /\ OnTimer("counted")
    /\ Cardinality(Channels) > slots
    /\ crashed' = TRUE
    /\ UNCHANGED <<clientVars, inbox, accept, sem, Channels, noOfConnectedSockets, pc,
                   channelVars, monitorVars, historyVars>>

NextChannel(c) ==
    /\ OnTimer("sweep")
    /\ c \in todo
    /\ cur' = c
    /\ todo' = todo \ {c}
    /\ mon' = "check"
    /\ UNCHANGED <<clientVars, inbox, serverVars, pc, channelVars, slots, historyVars>>

\* Mutant: the timer is not armed again.
TickEndsDisarmed ==
    /\ OnTimer("sweep")
    /\ todo = {}
    /\ mon' = "disarmed"
    /\ UNCHANGED <<clientVars, inbox, serverVars, pc, channelVars, slots, todo, cur,
                   historyVars>>

TickEnds ==
    /\ OnTimer("sweep")
    /\ todo = {}
    /\ mon' = "idle"
    /\ cur' = NoConn
    /\ UNCHANGED <<clientVars, inbox, serverVars, pc, channelVars, slots, todo,
                   historyVars>>

\* IsAlive: I/O in the last ten seconds, then Poll, then Available.  On a disposed
\* socket Poll and Available throw ObjectDisposedException, which is no SocketException:
\* the tick catches it and goes on.  The two answers IsAlive gives without them need no
\* step of their own: Connected is false only of an open socket whose write failed,
\* which Poll and Available report as well since that peer has gone and the request
\* was read, and neither call raises a SocketException on an open socket.
CheckLastIO ==
    /\ OnTimer("check")
    /\ mon' = IF cur \in recent THEN "sweep" ELSE "poll"
    /\ UNCHANGED <<clientVars, inbox, serverVars, pc, channelVars, slots, todo, cur,
                   historyVars>>

\* Mutant: IsAlive takes an exception of the socket for a dead client.
NeverThrows(c) == FALSE
SocketThrows(c) == c \in shut

\* Mutant: a channel without recent I/O is dead.
AlwaysReadable(c) == TRUE
Readable(c) == c \in inbox \/ peer[c] = "hungup"

Poll ==
    /\ OnTimer("poll")
    /\ mon' = IF ~SocketThrows(cur) /\ Readable(cur) THEN "available" ELSE "sweep"
    /\ UNCHANGED <<clientVars, inbox, serverVars, pc, channelVars, slots, todo, cur,
                   historyVars>>

Available ==
    /\ OnTimer("available")
    /\ mon' = IF ~SocketThrows(cur) /\ cur \notin inbox THEN "release" ELSE "sweep"
    /\ UNCHANGED <<clientVars, inbox, serverVars, pc, channelVars, slots, todo, cur,
                   historyVars>>

MonitorReleases ==
    /\ OnTimer("release")
    /\ Release("monitor", cur)
    /\ swept' = swept \cup {cur}
    /\ mon' = AfterRelease
    /\ UNCHANGED <<clientVars, inbox, accept, Channels, crashed, pc, shut, recent,
                   slots, todo, cur, lost, lostCounted, added>>

MonitorRemoves ==
    /\ OnTimer("remove")
    /\ Channels' = Channels \ {cur}
    /\ mon' = "shutdown"
    /\ UNCHANGED <<clientVars, inbox, accept, permitVars, crashed, pc, channelVars,
                   slots, todo, cur, historyVars>>

MonitorShutsDown ==
    /\ OnTimer("shutdown")
    /\ shut' = shut \cup {cur}
    /\ inbox' = inbox \ {cur}
    /\ mon' = "sweep"
    /\ UNCHANGED <<clientVars, serverVars, pc, isConnected, recent, slots, todo, cur,
                   historyVars>>

\* Ten seconds pass without I/O on c.
Idle10s(c) ==
    /\ ~crashed /\ c \in recent
    /\ recent' = recent \ {c}
    /\ UNCHANGED <<clientVars, inbox, serverVars, pc, isConnected, shut, monitorVars,
                   historyVars>>

-----------------------------------------------------------------------------

Client(c) == Connect(c) \/ Ask(c) \/ Hangup(c)

AcceptLoop == StartAccept \/ ProcessAccept \/ AcceptFails

Task(c) ==
    \/ CountConnection(c) \/ SetupThrows(c) \/ AddChannel(c) \/ CreateHandler(c)
    \/ BeginReceive(c) \/ Receive(c) \/ ReceiveEndOfStream(c) \/ ReceiveThrows(c)
    \/ ReceiveTimesOut(c) \/ DrainTimedOutRead(c)
    \/ Reply(c) \/ HandlerThrows(c)
    \/ HandlerReleases(c) \/ HandlerRemoves(c) \/ HandlerShutsDown(c)

Monitor ==
    \/ TickOnNothing \/ TickFindsChannels \/ TickCounts \/ TickCopies \/ TickCrashes
    \/ (\E c \in Conns : NextChannel(c)) \/ TickEnds
    \/ CheckLastIO \/ Poll \/ Available
    \/ MonitorReleases \/ MonitorRemoves \/ MonitorShutsDown

Next ==
    \/ \E c \in Conns : Client(c) \/ Task(c) \/ Idle10s(c)
    \/ AcceptLoop
    \/ Monitor

Spec == Init /\ [][Next]_vars

\* The thread pool runs every task, the timer ticks, and time passes.  Clients are
\* free: nothing makes one connect, ask or hang up.
Fairness ==
    /\ WF_vars(AcceptLoop)
    /\ WF_vars(Monitor)
    /\ \A c \in Conns : WF_vars(Task(c)) /\ WF_vars(Idle10s(c))

FairSpec == Spec /\ Fairness

-----------------------------------------------------------------------------
(* Properties.                                                             *)

TypeOK ==
    /\ peer \in [Conns -> PeerStates]
    /\ backlog \in Seq(Conns)
    /\ inbox \subseteq Conns
    /\ accept \in {"waiting", "accepting"}
    /\ sem \in 0 .. MaxConcurrentClientsCount
    /\ Channels \subseteq Conns
    /\ noOfConnectedSockets \in Int
    /\ crashed \in BOOLEAN
    /\ pc \in [Conns -> HandlerStates]
    /\ isConnected \subseteq Conns
    /\ shut \subseteq Conns
    /\ recent \subseteq Conns
    /\ mon \in MonitorStates
    /\ slots \in Nat
    /\ todo \subseteq Conns
    /\ cur \in Conns \cup {NoConn}
    /\ swept \subseteq Conns
    /\ refused \subseteq ({"handler", "monitor"} \X Conns)
    /\ lost \in Nat /\ lostCounted \in Nat
    /\ added \subseteq Conns
    /\ mon \in {"check", "poll", "available", "release", "remove", "shutdown"} =>
         cur \in Conns

Accepted        == {c \in Conns : pc[c] # "none"}
Counted         == {c \in Conns : pc[c] \notin {"none", "accepted", "noEndPoint"}}
HandlerReleased == {c \in Conns : pc[c] \in ClosedStates}
Released        == HandlerReleased \cup swept
ReleasedTwice   == HandlerReleased \cap swept
Serving         == Accepted \ Released
Held            == IF accept = "accepting" THEN 1 ELSE 0
MonitorCloses(c) == cur = c /\ mon \in {"release", "remove", "shutdown"}

\* Every permit is accounted for.  One goes to each accepted connection, one to the
\* pending AcceptAsync and one to each that failed; each ReleaseChannel gives one back
\* unless the semaphore threw.  No order of accepts, failures and concurrent closes
\* breaks the balance.
PermitAccounting ==
    sem + Held + lost + Cardinality(Accepted) + Cardinality(refused) =
        MaxConcurrentClientsCount + Cardinality(HandlerReleased) + Cardinality(swept)

\* The capacity is exceeded by at most the number of channels closed both by their
\* handler and by the timer: nothing else lets an extra client in.  Nor does anything
\* but a failed accept or set-up lose capacity: a refused release is made up
\* for by a channel closed twice, so StartAccept only waits at full capacity.
CapacityBound ==
    /\ Cardinality(Serving) =< MaxConcurrentClientsCount + Cardinality(ReleasedTwice)
    /\ sem + Held + lost + Cardinality(Serving) >= MaxConcurrentClientsCount

\* The logged number of connected clients is off by one per double close and per failed
\* accept that was counted, and by nothing else.
ConnectedCounter ==
    noOfConnectedSockets =
        Cardinality(Counted) + lostCounted
            - Cardinality(HandlerReleased) - Cardinality(swept)

\* Until somebody closes it, a channel whose handler runs or failed to start is in
\* Channels, so that the timer can find it.
RegistryCoversServing ==
    \A c \in Serving :
        pc[c] \in HandlerLoop \cup {"registered", "orphan", "release"} => c \in Channels

\* A channel that is closed and still in Channels had every one of its releases
\* refused by a full semaphore; no other path forgets to unregister it.
ZombieExplained ==
    \A c \in Channels :
        pc[c] = "closed" /\ ~(cur = c /\ mon = "remove") =>
            /\ <<"handler", c>> \in refused
            /\ c \in swept => <<"monitor", c>> \in refused

\* A client that is connected and has asked nothing yet is never disconnected,
\* however long it stays silent and whatever the timer and the timeouts do.
QuietClientKept ==
    \A c \in Conns :
        peer[c] = "connected" =>
            /\ c \notin shut
            /\ pc[c] \notin ClosedStates \cup {"release", "busy"}
            /\ ~MonitorCloses(c)

\* The timer callback takes the process down only if more than Slack channels were
\* registered between its second Count and its CopyTo.  Channels that go between the
\* two Counts, or after them, never make the array too small.
CrashNeedsBurst == crashed => Cardinality(added) >= Slack + 1

\* The timer releases no channel a second time, though a refused release leaves the
\* closed channel in Channels and every later tick looks at it again.
MonitorReleasesOnce ==
    [][\A c \in Conns : mon = "release" /\ cur = c /\ mon' # mon => c \notin swept]_vars

\* A request whose handler runs is answered, unless its client hangs up or the
\* socket is closed (which the client sees): no request waits for ever.
ResolvesRequest(c) ==
    pc[c] \in HandlerLoop /\ peer[c] = "waiting" ~>
        peer[c] # "waiting" \/ c \in shut \/ crashed

\* To the timer a channel without a handler that holds an unread request looks alive.
Unreclaimable(c) == pc[c] = "orphan" /\ peer[c] = "hungup" /\ c \in inbox

\* Once its client has hung up, a registered channel is closed by its handler or the
\* timer, with the one exception.
ReclaimsHangup(c) ==
    c \in Channels /\ peer[c] = "hungup" ~> c \in shut \/ Unreclaimable(c) \/ crashed

\* If every accepted client hangs up in the end, every client in the backlog is
\* accepted in the end: permits come back and the accept loop takes them.
AcceptsQueued(q) ==
    (\A c \in Conns : pc[c] # "none" ~> peer[c] = "hungup") =>
    (peer[q] # "none" ~> pc[q] # "none" \/ (\E c \in Conns : Unreclaimable(c)) \/ crashed)

\* The documented capacity: never more than the maximum number of clients served.
MaxConcurrentClientsHeld == Cardinality(Serving) =< MaxConcurrentClientsCount

\* The dead-socket timer closes only the channels of clients that have hung up.
MonitorClosesOnlyDead ==
    \A c \in Conns : MonitorCloses(c) /\ mon = "release" => peer[c] = "hungup"

=============================================================================
