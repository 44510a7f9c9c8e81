-------------------------- MODULE ASyncServerProofs --------------------------
(***************************************************************************)
(* Theorems about ASyncServer, for every finite set of clients, every      *)
(* capacity and every slack of the timer's array.  The invariants of the   *)
(* module are not inductive: what the accept queue, the timer and the      *)
(* refused releases add to them is stated first.                           *)
(***************************************************************************)
EXTENDS ASyncServer, FiniteSetTheorems, TLAPS

Registered ==
    {c \in Conns : pc[c] \notin {"none", "accepted", "counted"} \cup FailedStates}

\* The backlog holds each waiting connection once, and none that was accepted.
QueueInv ==
    /\ \A i \in 1 .. Len(backlog) : pc[backlog[i]] = "none" /\ peer[backlog[i]] # "none"
    /\ \A i, j \in 1 .. Len(backlog) : backlog[i] = backlog[j] => i = j
    /\ \A c \in Conns : peer[c] = "none" => pc[c] = "none"

\* The timer only looks at channels that were registered, and a channel it has
\* released is disposed, or about to be by the timer itself.
TimerInv ==
    /\ Channels \cup todo \cup swept \subseteq Registered
    /\ mon \notin {"idle", "sizing", "counted", "sweep"} => cur \in Registered
    /\ \A c \in swept : c \in shut \/ (cur = c /\ mon \in {"remove", "shutdown"})
    /\ mon = "release" => cur \notin swept
    /\ mon \in {"remove", "shutdown"} => cur \in swept

\* A refused release was made, and a channel that is still registered after a
\* release had that release refused.
RefusedInv ==
    /\ \A c \in Conns : <<"handler", c>> \in refused => pc[c] \in ClosedStates
    /\ \A c \in Conns : <<"monitor", c>> \in refused => c \in swept
    /\ \A c \in Channels : pc[c] \in {"shutdown", "closed"} => <<"handler", c>> \in refused
    /\ \A c \in Channels \cap swept :
         (cur = c /\ mon = "remove") \/ <<"monitor", c>> \in refused

\* The array the timer has sized has room for every channel not added since, and the
\* slack.
ArrayInv == mon = "counted" => Cardinality(Channels \ added) + Slack <= slots

\* A client that has asked nothing has nothing in its inbox, and neither its handler
\* nor the timer has found a reason to close it.
QuietInv ==
    \A c \in Conns :
        peer[c] \in {"none", "connected"} =>
            /\ c \notin inbox
            /\ c \notin shut
            /\ pc[c] \notin ClosedStates \cup {"release", "busy"}
            /\ pc[c] \in {"registered", "loop"} => c \in isConnected
            /\ ~(cur = c /\ mon \in {"available", "release", "remove", "shutdown"})

\* The connection that ProcessAccept takes is a client not accepted before.
LEMMA HeadOfBacklog ==
    ASSUME TypeOK, QueueInv, backlog # <<>>
    PROVE  Head(backlog) \in Conns /\ pc[Head(backlog)] = "none"
<1>1. Len(backlog) \in Nat /\ Len(backlog) >= 1 /\ Head(backlog) = backlog[1]
  BY DEF TypeOK
<1>2. backlog[1] \in Conns
  BY <1>1 DEF TypeOK
<1>. QED
  BY <1>1, <1>2 DEF QueueInv

\* A step keeps the types.
LEMMA TypeStep == TypeOK /\ [Next]_vars => TypeOK'
<1> SUFFICES ASSUME TypeOK, [Next]_vars PROVE TypeOK'
    OBVIOUS
<1> USE MaxAssumption, SlackAssumption, NoConnAssumption
    DEF clientVars, serverVars, permitVars, channelVars, monitorVars, historyVars,
        PeerStates, HandlerStates, FailedStates, HandlerLoop, ClosedStates,
        MonitorStates, At, OnTimer, Goto, TypeOK
<1>1. ASSUME NEW c \in Conns, Connect(c) PROVE TypeOK'
  BY <1>1 DEF Connect
<1>2. ASSUME NEW c \in Conns, Ask(c) PROVE TypeOK'
  BY <1>2 DEF Ask
<1>3. ASSUME NEW c \in Conns, Hangup(c) PROVE TypeOK'
  BY <1>3 DEF Hangup
<1>4. ASSUME NEW c \in Conns,
             \/ CountConnection(c) \/ SetupThrows(c) \/ AddChannel(c)
             \/ CreateHandler(c)
      PROVE TypeOK'
  BY <1>4 DEF CountConnection, SetupThrows, AddChannel, CreateHandler
<1>5. ASSUME NEW c \in Conns,
             \/ BeginReceive(c) \/ Receive(c) \/ ReceiveEndOfStream(c)
             \/ ReceiveThrows(c) \/ ReceiveTimesOut(c)
             \/ DrainTimedOutRead(c) \/ Reply(c) \/ HandlerThrows(c)
      PROVE TypeOK'
  BY <1>5
  DEF BeginReceive, Receive, ReceiveEndOfStream, ReceiveThrows, ReceiveTimesOut,
      DrainTimedOutRead, Reply, HandlerThrows
<1>6. ASSUME NEW c \in Conns, HandlerRemoves(c) \/ HandlerShutsDown(c) PROVE TypeOK'
  BY <1>6 DEF HandlerRemoves, HandlerShutsDown
<1>7. ASSUME NEW c \in Conns, HandlerReleases(c) PROVE TypeOK'
  BY <1>7 DEF HandlerReleases, Release, AfterRelease, SemaphoreFull
<1>8. ASSUME NEW c \in Conns, Idle10s(c) \/ NextChannel(c) PROVE TypeOK'
  BY <1>8 DEF Idle10s, NextChannel
<1>9. ASSUME StartAccept PROVE TypeOK'
  BY <1>9 DEF StartAccept
<1>10. ASSUME ProcessAccept PROVE TypeOK'
  <2>1. Tail(backlog) \in Seq(Conns)
    BY <1>10 DEF ProcessAccept
  <2>. QED
    BY <1>10, <2>1 DEF ProcessAccept
<1>11. ASSUME AcceptFails PROVE TypeOK'
  BY <1>11 DEF AcceptFails
<1>12. ASSUME TickOnNothing \/ TickFindsChannels \/ TickCrashes PROVE TypeOK'
  BY <1>12 DEF TickOnNothing, vars, TickFindsChannels, TickCrashes
<1>13. ASSUME TickCopies PROVE TypeOK'
  BY <1>13 DEF TickCopies
<1>14. ASSUME TickCounts PROVE TypeOK'
  <2>1. Cardinality(Channels) \in Nat
    BY ConnsAssumption, FS_Subset, FS_CardinalityType
  <2>. QED
    BY <1>14, <2>1 DEF TickCounts, ArraySize
<1>15. ASSUME TickEnds \/ CheckLastIO \/ Poll \/ Available PROVE TypeOK'
  BY <1>15 DEF TickEnds, CheckLastIO, Poll, SocketThrows, Readable, Available
<1>16. ASSUME MonitorRemoves \/ MonitorShutsDown PROVE TypeOK'
  BY <1>16 DEF MonitorRemoves, MonitorShutsDown
<1>17. ASSUME MonitorReleases PROVE TypeOK'
  BY <1>17 DEF MonitorReleases, Release, AfterRelease, SemaphoreFull
<1>18. CASE UNCHANGED vars
  BY <1>18 DEF vars
<1>. QED
  BY <1>1, <1>2, <1>3, <1>4, <1>5, <1>6, <1>7, <1>8, <1>9, <1>10, <1>11, <1>12,
     <1>13, <1>14, <1>15, <1>16, <1>17, <1>18
  DEF Next, Client, Task, AcceptLoop, Monitor

\* Connect appends a new client, ProcessAccept takes the head: the rest is a frame.
LEMMA QueueStep ==
    TypeOK /\ QueueInv /\ [Next]_vars => QueueInv'
<1> SUFFICES ASSUME TypeOK, QueueInv, [Next]_vars
            PROVE  QueueInv'
    OBVIOUS
<1> USE DEF clientVars, serverVars, permitVars, channelVars, monitorVars, historyVars,
            FailedStates, HandlerLoop, ClosedStates, At, OnTimer, Goto,
            TypeOK, QueueInv
<1>1. ASSUME NEW c \in Conns, Ask(c) \/ Hangup(c) PROVE QueueInv'
  BY <1>1 DEF Ask, Hangup
<1>2. ASSUME NEW c \in Conns, Connect(c) PROVE QueueInv'
  BY <1>2 DEF Connect
<1>3. ASSUME NEW c \in Conns,
             \/ CountConnection(c) \/ SetupThrows(c) \/ AddChannel(c)
             \/ CreateHandler(c)
      PROVE QueueInv'
  BY <1>3 DEF CountConnection, SetupThrows, AddChannel, CreateHandler
<1>4. ASSUME NEW c \in Conns,
             \/ BeginReceive(c) \/ Receive(c) \/ ReceiveEndOfStream(c)
             \/ ReceiveThrows(c) \/ ReceiveTimesOut(c)
             \/ DrainTimedOutRead(c) \/ Reply(c) \/ HandlerThrows(c)
      PROVE QueueInv'
  BY <1>4
  DEF BeginReceive, Receive, ReceiveEndOfStream, ReceiveThrows, ReceiveTimesOut,
      DrainTimedOutRead, Reply, HandlerThrows
<1>5. ASSUME NEW c \in Conns,
             \/ HandlerReleases(c) \/ HandlerRemoves(c)
             \/ HandlerShutsDown(c)
      PROVE QueueInv'
  BY <1>5
  DEF HandlerReleases, Release, AfterRelease, SemaphoreFull, HandlerRemoves,
      HandlerShutsDown
<1>6. ASSUME NEW c \in Conns, Idle10s(c) \/ NextChannel(c) PROVE QueueInv'
  BY <1>6 DEF Idle10s, NextChannel
<1>7. ASSUME StartAccept \/ AcceptFails PROVE QueueInv'
  BY <1>7 DEF StartAccept, AcceptFails
<1>8. ASSUME ProcessAccept PROVE QueueInv'
  BY <1>8 DEF ProcessAccept
<1>9. ASSUME TickOnNothing \/ TickFindsChannels \/ TickCounts \/ TickCopies \/ TickCrashes
      PROVE QueueInv'
  BY <1>9 DEF TickOnNothing, vars, TickFindsChannels, TickCounts, ArraySize, TickCopies,
      TickCrashes
<1>10. ASSUME TickEnds \/ CheckLastIO \/ Poll \/ Available PROVE QueueInv'
  BY <1>10 DEF TickEnds, CheckLastIO, Poll, SocketThrows, Readable, Available
<1>11. ASSUME MonitorReleases \/ MonitorRemoves \/ MonitorShutsDown PROVE QueueInv'
  BY <1>11
  DEF MonitorReleases, Release, AfterRelease, SemaphoreFull, MonitorRemoves,
      MonitorShutsDown
<1>12. CASE UNCHANGED vars
  BY <1>12 DEF vars
<1>. QED
  BY <1>1, <1>2, <1>3, <1>4, <1>5, <1>6, <1>7, <1>8, <1>9, <1>10, <1>11, <1>12
  DEF Next, Client, Task, AcceptLoop, Monitor

\* The timer copies registered channels, and releases only one that is not disposed.
LEMMA TimerStep ==
    TypeOK /\ TimerInv /\ QueueInv /\ [Next]_vars => TimerInv'
<1> SUFFICES ASSUME TypeOK, TimerInv, QueueInv, [Next]_vars
            PROVE  TimerInv'
    OBVIOUS
<1> USE DEF clientVars, serverVars, permitVars, channelVars, monitorVars, historyVars,
            FailedStates, HandlerLoop, ClosedStates, At, OnTimer, Goto,
            TypeOK, TimerInv, Registered
<1>1. ASSUME NEW c \in Conns, Connect(c) \/ Ask(c) \/ Hangup(c) PROVE TimerInv'
  BY <1>1 DEF Connect, Ask, Hangup
<1>2. ASSUME NEW c \in Conns,
             \/ CountConnection(c) \/ SetupThrows(c) \/ AddChannel(c)
             \/ CreateHandler(c)
      PROVE TimerInv'
  BY <1>2 DEF CountConnection, SetupThrows, AddChannel, CreateHandler
<1>3. ASSUME NEW c \in Conns,
             \/ BeginReceive(c) \/ Receive(c) \/ ReceiveEndOfStream(c)
             \/ ReceiveThrows(c) \/ ReceiveTimesOut(c)
             \/ DrainTimedOutRead(c) \/ Reply(c) \/ HandlerThrows(c)
      PROVE TimerInv'
  BY <1>3
  DEF BeginReceive, Receive, ReceiveEndOfStream, ReceiveThrows, ReceiveTimesOut,
      DrainTimedOutRead, Reply, HandlerThrows
<1>4. ASSUME NEW c \in Conns,
             \/ HandlerReleases(c) \/ HandlerRemoves(c)
             \/ HandlerShutsDown(c)
      PROVE TimerInv'
  BY <1>4
  DEF HandlerReleases, Release, AfterRelease, SemaphoreFull, HandlerRemoves,
      HandlerShutsDown
<1>5. ASSUME NEW c \in Conns, Idle10s(c) \/ NextChannel(c) PROVE TimerInv'
  BY <1>5 DEF Idle10s, NextChannel
<1>6. ASSUME StartAccept \/ AcceptFails PROVE TimerInv'
  BY <1>6 DEF StartAccept, AcceptFails
<1>7. ASSUME ProcessAccept PROVE TimerInv'
  BY <1>7, HeadOfBacklog DEF ProcessAccept
<1>8. ASSUME TickOnNothing \/ TickFindsChannels \/ TickCounts \/ TickCopies \/ TickCrashes
      PROVE TimerInv'
  BY <1>8 DEF TickOnNothing, vars, TickFindsChannels, TickCounts, ArraySize, TickCopies,
      TickCrashes
<1>9. ASSUME TickEnds \/ CheckLastIO \/ Poll \/ Available PROVE TimerInv'
  BY <1>9 DEF TickEnds, CheckLastIO, Poll, SocketThrows, Readable, Available
<1>10. ASSUME MonitorReleases \/ MonitorRemoves \/ MonitorShutsDown PROVE TimerInv'
  BY <1>10
  DEF MonitorReleases, Release, AfterRelease, SemaphoreFull, MonitorRemoves,
      MonitorShutsDown
<1>11. CASE UNCHANGED vars
  BY <1>11 DEF vars
<1>. QED
  BY <1>1, <1>2, <1>3, <1>4, <1>5, <1>6, <1>7, <1>8, <1>9, <1>10, <1>11
  DEF Next, Client, Task, AcceptLoop, Monitor

\* A release is made, and refused, before the closer goes past it.
LEMMA RefusedStep ==
    TypeOK /\ RefusedInv /\ QueueInv /\ TimerInv /\ [Next]_vars => RefusedInv'
<1> SUFFICES ASSUME TypeOK, RefusedInv, QueueInv, TimerInv, [Next]_vars
            PROVE  RefusedInv'
    OBVIOUS
<1> USE DEF clientVars, serverVars, permitVars, channelVars, monitorVars, historyVars,
            FailedStates, HandlerLoop, ClosedStates, At, OnTimer, Goto,
            TypeOK, RefusedInv, TimerInv, Registered
<1>1. ASSUME NEW c \in Conns, Connect(c) \/ Ask(c) \/ Hangup(c) PROVE RefusedInv'
  BY <1>1 DEF Connect, Ask, Hangup
<1>2. ASSUME NEW c \in Conns,
             \/ CountConnection(c) \/ SetupThrows(c) \/ AddChannel(c)
             \/ CreateHandler(c)
      PROVE RefusedInv'
  BY <1>2 DEF CountConnection, SetupThrows, AddChannel, CreateHandler
<1>3. ASSUME NEW c \in Conns,
             \/ BeginReceive(c) \/ Receive(c) \/ ReceiveEndOfStream(c)
             \/ ReceiveThrows(c) \/ ReceiveTimesOut(c)
             \/ DrainTimedOutRead(c) \/ Reply(c) \/ HandlerThrows(c)
      PROVE RefusedInv'
  BY <1>3
  DEF BeginReceive, Receive, ReceiveEndOfStream, ReceiveThrows, ReceiveTimesOut,
      DrainTimedOutRead, Reply, HandlerThrows
<1>4. ASSUME NEW c \in Conns, HandlerRemoves(c) \/ HandlerShutsDown(c)
      PROVE RefusedInv'
  BY <1>4 DEF HandlerRemoves, HandlerShutsDown
<1>5. ASSUME NEW c \in Conns, HandlerReleases(c) PROVE RefusedInv'
  BY <1>5 DEF HandlerReleases, Release, AfterRelease, SemaphoreFull
<1>6. ASSUME NEW c \in Conns, Idle10s(c) \/ NextChannel(c) PROVE RefusedInv'
  BY <1>6 DEF Idle10s, NextChannel
<1>7. ASSUME StartAccept \/ AcceptFails PROVE RefusedInv'
  BY <1>7 DEF StartAccept, AcceptFails
<1>8. ASSUME ProcessAccept PROVE RefusedInv'
  BY <1>8, HeadOfBacklog DEF ProcessAccept
<1>9. ASSUME TickOnNothing \/ TickFindsChannels \/ TickCounts \/ TickCopies \/ TickCrashes
      PROVE RefusedInv'
  BY <1>9 DEF TickOnNothing, vars, TickFindsChannels, TickCounts, ArraySize, TickCopies,
      TickCrashes
<1>10. ASSUME TickEnds \/ CheckLastIO \/ Poll \/ Available PROVE RefusedInv'
  BY <1>10 DEF TickEnds, CheckLastIO, Poll, SocketThrows, Readable, Available
<1>11. ASSUME MonitorRemoves \/ MonitorShutsDown PROVE RefusedInv'
  BY <1>11 DEF MonitorRemoves, MonitorShutsDown
<1>12. ASSUME MonitorReleases PROVE RefusedInv'
  BY <1>12 DEF MonitorReleases, Release, AfterRelease, SemaphoreFull
<1>13. CASE UNCHANGED vars
  BY <1>13 DEF vars
<1>. QED
  BY <1>1, <1>2, <1>3, <1>4, <1>5, <1>6, <1>7, <1>8, <1>9, <1>10, <1>11, <1>12,
     <1>13
  DEF Next, Client, Task, AcceptLoop, Monitor

\* Only a closer takes a channel out of Channels, after it has released it.
LEMMA RegistryStep ==
    TypeOK /\ RegistryCoversServing /\ TimerInv /\ [Next]_vars => RegistryCoversServing'
<1> SUFFICES ASSUME TypeOK, RegistryCoversServing, TimerInv, [Next]_vars
            PROVE  RegistryCoversServing'
    OBVIOUS
<1> USE DEF clientVars, serverVars, permitVars, channelVars, monitorVars, historyVars,
            FailedStates, HandlerLoop, ClosedStates, At, OnTimer, Goto,
            TypeOK, RegistryCoversServing, TimerInv, Registered, Serving,
            Released, HandlerReleased, Accepted
<1>1. ASSUME NEW c \in Conns, Connect(c) \/ Ask(c) \/ Hangup(c)
      PROVE RegistryCoversServing'
  BY <1>1 DEF Connect, Ask, Hangup
<1>2. ASSUME NEW c \in Conns,
             \/ CountConnection(c) \/ SetupThrows(c) \/ AddChannel(c)
             \/ CreateHandler(c)
      PROVE RegistryCoversServing'
  BY <1>2 DEF CountConnection, SetupThrows, AddChannel, CreateHandler
<1>3. ASSUME NEW c \in Conns,
             \/ BeginReceive(c) \/ Receive(c) \/ ReceiveEndOfStream(c)
             \/ ReceiveThrows(c) \/ ReceiveTimesOut(c)
             \/ DrainTimedOutRead(c) \/ Reply(c) \/ HandlerThrows(c)
      PROVE RegistryCoversServing'
  BY <1>3
  DEF BeginReceive, Receive, ReceiveEndOfStream, ReceiveThrows, ReceiveTimesOut,
      DrainTimedOutRead, Reply, HandlerThrows
<1>4. ASSUME NEW c \in Conns,
             \/ HandlerReleases(c) \/ HandlerRemoves(c)
             \/ HandlerShutsDown(c)
      PROVE RegistryCoversServing'
  BY <1>4
  DEF HandlerReleases, Release, AfterRelease, SemaphoreFull, HandlerRemoves,
      HandlerShutsDown
<1>5. ASSUME NEW c \in Conns, Idle10s(c) \/ NextChannel(c)
      PROVE RegistryCoversServing'
  BY <1>5 DEF Idle10s, NextChannel
<1>6. ASSUME StartAccept \/ ProcessAccept \/ AcceptFails PROVE RegistryCoversServing'
  BY <1>6 DEF StartAccept, ProcessAccept, AcceptFails
<1>7. ASSUME TickOnNothing \/ TickFindsChannels \/ TickCounts \/ TickCopies \/ TickCrashes
      PROVE RegistryCoversServing'
  BY <1>7 DEF TickOnNothing, vars, TickFindsChannels, TickCounts, ArraySize, TickCopies,
      TickCrashes
<1>8. ASSUME TickEnds \/ CheckLastIO \/ Poll \/ Available
      PROVE RegistryCoversServing'
  BY <1>8 DEF TickEnds, CheckLastIO, Poll, SocketThrows, Readable, Available
<1>9. ASSUME MonitorReleases \/ MonitorRemoves \/ MonitorShutsDown
      PROVE RegistryCoversServing'
  BY <1>9
  DEF MonitorReleases, Release, AfterRelease, SemaphoreFull, MonitorRemoves,
      MonitorShutsDown
<1>10. CASE UNCHANGED vars
  BY <1>10 DEF vars
<1>. QED
  BY <1>1, <1>2, <1>3, <1>4, <1>5, <1>6, <1>7, <1>8, <1>9, <1>10
  DEF Next, Client, Task, AcceptLoop, Monitor

\* Each way to close a channel needs a request, a hang-up or an earlier close.
LEMMA QuietStep ==
    TypeOK /\ QuietInv /\ [Next]_vars => QuietInv'
<1> SUFFICES ASSUME TypeOK, QuietInv, [Next]_vars
            PROVE  QuietInv'
    OBVIOUS
<1> USE DEF clientVars, serverVars, permitVars, channelVars, monitorVars, historyVars,
            FailedStates, HandlerLoop, ClosedStates, At, OnTimer, Goto,
            TypeOK, QuietInv
<1>1. ASSUME NEW c \in Conns, Ask(c) \/ Hangup(c) PROVE QuietInv'
  BY <1>1 DEF Ask, Hangup
<1>2. ASSUME NEW c \in Conns, Connect(c) PROVE QuietInv'
  BY <1>2 DEF Connect
<1>3. ASSUME NEW c \in Conns,
             \/ CountConnection(c) \/ SetupThrows(c) \/ AddChannel(c)
             \/ CreateHandler(c)
      PROVE QuietInv'
  BY <1>3 DEF CountConnection, SetupThrows, AddChannel, CreateHandler
<1>4. ASSUME NEW c \in Conns,
             \/ BeginReceive(c) \/ Receive(c) \/ ReceiveEndOfStream(c)
             \/ ReceiveThrows(c) \/ ReceiveTimesOut(c)
             \/ DrainTimedOutRead(c) \/ HandlerThrows(c)
      PROVE QuietInv'
  BY <1>4
  DEF BeginReceive, Receive, ReceiveEndOfStream, ReceiveThrows, ReceiveTimesOut,
      DrainTimedOutRead, HandlerThrows
<1>5. ASSUME NEW c \in Conns, Reply(c) PROVE QuietInv'
  BY <1>5 DEF Reply
<1>6. ASSUME NEW c \in Conns,
             \/ HandlerReleases(c) \/ HandlerRemoves(c)
             \/ HandlerShutsDown(c)
      PROVE QuietInv'
  BY <1>6
  DEF HandlerReleases, Release, AfterRelease, SemaphoreFull, HandlerRemoves,
      HandlerShutsDown
<1>7. ASSUME NEW c \in Conns, Idle10s(c) \/ NextChannel(c) PROVE QuietInv'
  BY <1>7 DEF Idle10s, NextChannel
<1>8. ASSUME StartAccept \/ ProcessAccept \/ AcceptFails PROVE QuietInv'
  BY <1>8 DEF StartAccept, ProcessAccept, AcceptFails
<1>9. ASSUME TickOnNothing \/ TickFindsChannels \/ TickCounts \/ TickCopies \/ TickCrashes
      PROVE QuietInv'
  BY <1>9 DEF TickOnNothing, vars, TickFindsChannels, TickCounts, ArraySize, TickCopies,
      TickCrashes
<1>10. ASSUME TickEnds \/ CheckLastIO \/ Poll \/ Available PROVE QuietInv'
  BY <1>10 DEF TickEnds, CheckLastIO, Poll, SocketThrows, Readable, Available
<1>11. ASSUME MonitorReleases \/ MonitorRemoves \/ MonitorShutsDown PROVE QuietInv'
  BY <1>11
  DEF MonitorReleases, Release, AfterRelease, SemaphoreFull, MonitorRemoves,
      MonitorShutsDown
<1>12. CASE UNCHANGED vars
  BY <1>12 DEF vars
<1>. QED
  BY <1>1, <1>2, <1>3, <1>4, <1>5, <1>6, <1>7, <1>8, <1>9, <1>10, <1>11, <1>12
  DEF Next, Client, Task, AcceptLoop, Monitor

-----------------------------------------------------------------------------
(* The accounts: permits and connected sockets.                            *)

Balance == PermitAccounting /\ ConnectedCounter

\* What Balance reads, except the number of elements it counts.
SameAccounts ==
    /\ UNCHANGED <<sem, accept, noOfConnectedSockets, swept, refused, lost, lostCounted>>
    /\ Accepted' = Accepted /\ Counted' = Counted /\ HandlerReleased' = HandlerReleased

\* The sets that Balance counts are finite.
LEMMA FiniteAccounts ==
    ASSUME TypeOK
    PROVE  /\ IsFiniteSet(Accepted) /\ Cardinality(Accepted) \in Nat
           /\ IsFiniteSet(Counted) /\ Cardinality(Counted) \in Nat
           /\ IsFiniteSet(HandlerReleased) /\ Cardinality(HandlerReleased) \in Nat
           /\ IsFiniteSet(swept) /\ Cardinality(swept) \in Nat
           /\ IsFiniteSet(refused) /\ Cardinality(refused) \in Nat
           /\ IsFiniteSet(Channels) /\ Cardinality(Channels) \in Nat
           /\ lost \in Nat /\ lostCounted \in Nat
<1>1. \A S \in SUBSET Conns : IsFiniteSet(S) /\ Cardinality(S) \in Nat
  BY ConnsAssumption, FS_Subset, FS_CardinalityType
<1>2. IsFiniteSet({"handler", "monitor"} \X Conns)
  <2>1. IsFiniteSet({"handler"}) /\ IsFiniteSet({"handler"} \cup {"monitor"})
    BY FS_Singleton, FS_AddElement
  <2>2. {"handler", "monitor"} = {"handler"} \cup {"monitor"}
    OBVIOUS
  <2>. QED
    BY <2>1, <2>2, FS_Product, ConnsAssumption
<1>3. IsFiniteSet(refused) /\ Cardinality(refused) \in Nat
  BY <1>2, FS_Subset, FS_CardinalityType DEF TypeOK
<1>. QED
  BY <1>1, <1>3 DEF TypeOK, Accepted, Counted, HandlerReleased

\* A step that touches none of the accounts keeps their balance.
LEMMA SameAccountsBalance == Balance /\ SameAccounts => Balance'
BY DEF Balance, SameAccounts, PermitAccounting, ConnectedCounter, Held

\* Six actions change the accounts, each by one on both sides.
LEMMA BalanceStep ==
    TypeOK /\ QueueInv /\ TimerInv /\ RefusedInv /\ Balance /\ [Next]_vars => Balance'
<1> SUFFICES ASSUME TypeOK, QueueInv, TimerInv, RefusedInv, Balance, [Next]_vars
            PROVE  Balance'
    OBVIOUS
<1> USE DEF clientVars, serverVars, permitVars, channelVars, monitorVars, historyVars,
            FailedStates, HandlerLoop, ClosedStates, At, OnTimer, Goto
<1>1. ASSUME NEW c \in Conns, Connect(c) \/ Ask(c) \/ Hangup(c) PROVE SameAccounts
  BY <1>1
  DEF TypeOK, SameAccounts, Accepted, Counted, HandlerReleased, Connect, Ask, Hangup
<1>2. ASSUME NEW c \in Conns,
             \/ SetupThrows(c) \/ AddChannel(c) \/ CreateHandler(c)
      PROVE SameAccounts
  BY <1>2
  DEF TypeOK, SameAccounts, Accepted, Counted, HandlerReleased, SetupThrows,
      AddChannel, CreateHandler
<1>3. ASSUME NEW c \in Conns, CountConnection(c) PROVE Balance'
  <2>1. /\ Counted' = Counted \cup {c} /\ c \notin Counted
        /\ Accepted' = Accepted /\ HandlerReleased' = HandlerReleased
    BY <1>3 DEF CountConnection, TypeOK, Accepted, Counted, HandlerReleased
  <2>2. Cardinality(Counted') = Cardinality(Counted) + 1
    BY <2>1, FS_AddElement, FiniteAccounts
  <2>. QED
    BY <1>3, <2>1, <2>2, FiniteAccounts, MaxAssumption
    DEF CountConnection, Balance, PermitAccounting, ConnectedCounter, Held, TypeOK
<1>4. ASSUME NEW c \in Conns,
             \/ BeginReceive(c) \/ Receive(c) \/ ReceiveEndOfStream(c)
             \/ ReceiveThrows(c) \/ ReceiveTimesOut(c)
             \/ DrainTimedOutRead(c) \/ Reply(c) \/ HandlerThrows(c)
      PROVE SameAccounts
  BY <1>4
  DEF TypeOK, SameAccounts, Accepted, Counted, HandlerReleased, BeginReceive,
      Receive, ReceiveEndOfStream, ReceiveThrows, ReceiveTimesOut,
      DrainTimedOutRead, Reply, HandlerThrows
<1>5. ASSUME NEW c \in Conns, HandlerRemoves(c) \/ HandlerShutsDown(c)
      PROVE SameAccounts
  BY <1>5
  DEF TypeOK, SameAccounts, Accepted, Counted, HandlerReleased, HandlerRemoves,
      HandlerShutsDown
<1>6. ASSUME NEW c \in Conns, HandlerReleases(c) PROVE Balance'
  <2>1. /\ HandlerReleased' = HandlerReleased \cup {c} /\ c \notin HandlerReleased
        /\ Accepted' = Accepted /\ Counted' = Counted
    BY <1>6
    DEF HandlerReleases, AfterRelease, TypeOK, Accepted, Counted, HandlerReleased
  <2>2. Cardinality(HandlerReleased') = Cardinality(HandlerReleased) + 1
    BY <2>1, FS_AddElement, FiniteAccounts
  <2>3. SemaphoreFull => Cardinality(refused') = Cardinality(refused) + 1
    <3>1. <<"handler", c>> \notin refused
      BY <1>6 DEF HandlerReleases, RefusedInv
    <3>. QED
      BY <1>6, <3>1, FS_AddElement, FiniteAccounts DEF HandlerReleases, Release
  <2>5. /\ Held' = Held /\ sem \in Int /\ Held \in Int
        /\ noOfConnectedSockets \in Int /\ noOfConnectedSockets' = noOfConnectedSockets - 1
        /\ SemaphoreFull => sem' = sem
        /\ ~SemaphoreFull => sem' = sem + 1 /\ refused' = refused
        /\ UNCHANGED <<swept, lost, lostCounted>>
    BY <1>6 DEF HandlerReleases, Release, Held, TypeOK
  <2>6. CASE SemaphoreFull
    BY <2>6, <2>1, <2>2, <2>3, <2>5, FiniteAccounts, MaxAssumption
    DEF Balance, PermitAccounting, ConnectedCounter
  <2>7. CASE ~SemaphoreFull
    BY <2>7, <2>1, <2>2, <2>3, <2>5, FiniteAccounts, MaxAssumption
    DEF Balance, PermitAccounting, ConnectedCounter
  <2>. QED
    BY <2>6, <2>7
<1>7. ASSUME NEW c \in Conns, Idle10s(c) \/ NextChannel(c) PROVE SameAccounts
  BY <1>7
  DEF TypeOK, SameAccounts, Accepted, Counted, HandlerReleased, Idle10s, NextChannel
<1>8. ASSUME StartAccept PROVE Balance'
  <2>1. Accepted' = Accepted /\ Counted' = Counted /\ HandlerReleased' = HandlerReleased
    BY <1>8 DEF StartAccept, Accepted, Counted, HandlerReleased
  <2>. QED
    BY <1>8, <2>1, FiniteAccounts, MaxAssumption
    DEF StartAccept, Balance, PermitAccounting, ConnectedCounter, Held, TypeOK
<1>9. ASSUME ProcessAccept PROVE Balance'
  <2>1. Head(backlog) \in Conns /\ pc[Head(backlog)] = "none"
    BY <1>9, HeadOfBacklog DEF ProcessAccept
  <2>2. /\ Accepted' = Accepted \cup {Head(backlog)} /\ Head(backlog) \notin Accepted
        /\ Counted' = Counted /\ HandlerReleased' = HandlerReleased
    BY <1>9, <2>1 DEF ProcessAccept, TypeOK, Accepted, Counted, HandlerReleased
  <2>3. Cardinality(Accepted') = Cardinality(Accepted) + 1
    BY <2>2, FS_AddElement, FiniteAccounts
  <2>4. /\ Held = 1 /\ Held' = 0 /\ sem \in Int /\ noOfConnectedSockets \in Int
        /\ UNCHANGED <<sem, noOfConnectedSockets, swept, refused, lost, lostCounted>>
    BY <1>9 DEF ProcessAccept, Held, TypeOK
  <2>. QED
    BY <2>2, <2>3, <2>4, FiniteAccounts, MaxAssumption
    DEF Balance, PermitAccounting, ConnectedCounter
<1>10. ASSUME TickOnNothing \/ TickFindsChannels \/ TickCounts \/ TickCopies \/ TickCrashes
      PROVE SameAccounts
  BY <1>10
  DEF TypeOK, SameAccounts, Accepted, Counted, HandlerReleased, TickOnNothing, vars,
      TickFindsChannels, TickCounts, ArraySize, TickCopies, TickCrashes
<1>11. ASSUME TickEnds \/ CheckLastIO \/ Poll \/ Available PROVE SameAccounts
  BY <1>11
  DEF TypeOK, SameAccounts, Accepted, Counted, HandlerReleased, TickEnds,
      CheckLastIO, Poll, SocketThrows, Readable, Available
<1>12. ASSUME MonitorRemoves \/ MonitorShutsDown PROVE SameAccounts
  BY <1>12
  DEF TypeOK, SameAccounts, Accepted, Counted, HandlerReleased, MonitorRemoves,
      MonitorShutsDown
<1>13. ASSUME MonitorReleases PROVE Balance'
  <2>1. cur \in Conns /\ cur \notin swept /\ <<"monitor", cur>> \notin refused
    BY <1>13 DEF MonitorReleases, TypeOK, TimerInv, RefusedInv
  <2>2. Accepted' = Accepted /\ Counted' = Counted /\ HandlerReleased' = HandlerReleased
    BY <1>13 DEF MonitorReleases, Accepted, Counted, HandlerReleased
  <2>3. swept' = swept \cup {cur} /\ Cardinality(swept') = Cardinality(swept) + 1
    BY <1>13, <2>1, FS_AddElement, FiniteAccounts DEF MonitorReleases
  <2>4. SemaphoreFull => Cardinality(refused') = Cardinality(refused) + 1
    BY <1>13, <2>1, FS_AddElement, FiniteAccounts DEF MonitorReleases, Release
  <2>5. /\ Held' = Held /\ sem \in Int /\ Held \in Int
        /\ noOfConnectedSockets \in Int /\ noOfConnectedSockets' = noOfConnectedSockets - 1
        /\ SemaphoreFull => sem' = sem
        /\ ~SemaphoreFull => sem' = sem + 1 /\ refused' = refused
        /\ UNCHANGED <<lost, lostCounted>>
    BY <1>13 DEF MonitorReleases, Release, Held, TypeOK
  <2>6. CASE SemaphoreFull
    BY <2>6, <2>2, <2>3, <2>4, <2>5, FiniteAccounts, MaxAssumption
    DEF Balance, PermitAccounting, ConnectedCounter
  <2>7. CASE ~SemaphoreFull
    BY <2>7, <2>2, <2>3, <2>4, <2>5, FiniteAccounts, MaxAssumption
    DEF Balance, PermitAccounting, ConnectedCounter
  <2>. QED
    BY <2>6, <2>7
<1>14. ASSUME AcceptFails PROVE Balance'
  <2>1. Accepted' = Accepted /\ Counted' = Counted /\ HandlerReleased' = HandlerReleased
    BY <1>14 DEF AcceptFails, Accepted, Counted, HandlerReleased
  <2>2. /\ Held = 1 /\ Held' = 0 /\ sem \in Int /\ noOfConnectedSockets \in Int
        /\ UNCHANGED <<sem, swept, refused>> /\ lost' = lost + 1
        /\ noOfConnectedSockets' - noOfConnectedSockets = lostCounted' - lostCounted
        /\ noOfConnectedSockets' \in Int /\ lostCounted' \in Nat
    BY <1>14 DEF AcceptFails, Held, TypeOK
  <2>3. PermitAccounting'
    BY <2>1, <2>2, FiniteAccounts, MaxAssumption DEF Balance, PermitAccounting
  <2>4. ConnectedCounter'
    BY <2>1, <2>2, FiniteAccounts DEF Balance, ConnectedCounter
  <2>. QED
    BY <2>3, <2>4 DEF Balance
<1>15. ASSUME UNCHANGED vars PROVE SameAccounts
  BY <1>15 DEF TypeOK, SameAccounts, Accepted, Counted, HandlerReleased, vars
<1>. QED
  BY SameAccountsBalance, <1>1, <1>2, <1>3, <1>4, <1>5, <1>6, <1>7, <1>8, <1>9,
     <1>10, <1>11, <1>12, <1>13, <1>14, <1>15
  DEF Next, Client, Task, AcceptLoop, Monitor

\* What is registered after TickCounts is added; everything else can only go.
LEMMA BurstStep ==
    TypeOK /\ ArrayInv /\ CrashNeedsBurst /\ [Next]_vars => ArrayInv' /\ CrashNeedsBurst'
<1> SUFFICES ASSUME TypeOK, ArrayInv, CrashNeedsBurst, [Next]_vars
            PROVE  ArrayInv' /\ CrashNeedsBurst'
    OBVIOUS
<1> DEFINE Shrinks ==
      /\ mon' = "counted" => /\ mon = "counted" /\ slots' = slots
                             /\ Channels' \ added' \subseteq Channels \ added
      /\ crashed' => crashed /\ added' = added
<1> USE DEF clientVars, serverVars, permitVars, channelVars, monitorVars, historyVars,
            At, OnTimer, Goto
<1>1. ASSUME NEW c \in Conns, Client(c) \/ Idle10s(c) PROVE Shrinks
  BY <1>1 DEF Client, Connect, Ask, Hangup, Idle10s
<1>2. ASSUME NEW c \in Conns, Task(c) PROVE Shrinks
  <2>1. CASE AddChannel(c)
    BY <2>1 DEF AddChannel
  <2>2. CASE HandlerReleases(c) \/ HandlerRemoves(c) \/ HandlerShutsDown(c)
    BY <2>2 DEF HandlerReleases, Release, HandlerRemoves, HandlerShutsDown
  <2>3. CASE CountConnection(c) \/ SetupThrows(c) \/ CreateHandler(c)
    BY <2>3 DEF CountConnection, SetupThrows, CreateHandler
  <2>4. CASE \/ BeginReceive(c) \/ Receive(c) \/ ReceiveEndOfStream(c) \/ ReceiveThrows(c)
             \/ ReceiveTimesOut(c) \/ DrainTimedOutRead(c) \/ Reply(c) \/ HandlerThrows(c)
    BY <2>4
    DEF BeginReceive, Receive, ReceiveEndOfStream, ReceiveThrows, ReceiveTimesOut,
        DrainTimedOutRead, Reply, HandlerThrows
  <2>. QED
    BY <1>2, <2>1, <2>2, <2>3, <2>4 DEF Task
<1>3. ASSUME AcceptLoop PROVE Shrinks
  <2>1. UNCHANGED <<mon, slots, Channels, crashed, added>>
    BY <1>3 DEF AcceptLoop, StartAccept, ProcessAccept, AcceptFails
  <2>. QED
    BY <2>1
<1>4. ASSUME Monitor, ~TickCounts, ~TickCopies, ~TickCrashes PROVE Shrinks
  <2>1. CASE TickOnNothing
    BY <2>1 DEF TickOnNothing, vars
  <2>2. CASE ~TickOnNothing
    <3>1. mon' # "counted" /\ UNCHANGED <<crashed, added>>
      BY <1>4, <2>2
      DEF Monitor, TickFindsChannels, NextChannel, TickEnds, CheckLastIO, Poll, Available,
          MonitorReleases, Release, AfterRelease, MonitorRemoves, MonitorShutsDown
    <3>. QED
      BY <3>1
  <2>. QED
    BY <2>1, <2>2
<1>5. CASE TickCopies
  BY <1>5 DEF TickCopies, ArrayInv, CrashNeedsBurst
<1>6. CASE TickCounts
  <2>1. Channels' \ added' = Channels
    BY <1>6 DEF TickCounts
  <2>. QED
    BY <1>6, <2>1, FiniteAccounts, SlackAssumption
    DEF TickCounts, ArraySize, ArrayInv, CrashNeedsBurst
<1>7. CASE TickCrashes
  <2>1. /\ IsFiniteSet(added) /\ Cardinality(added) \in Nat
        /\ Cardinality(Channels \cap added) \in Nat
        /\ Cardinality(Channels \cap added) <= Cardinality(added)
    <3>1. added \in SUBSET Conns /\ Channels \cap added \subseteq added
      BY DEF TypeOK
    <3>. QED
      BY <3>1, ConnsAssumption, FS_Subset, FS_CardinalityType
  <2>2. Cardinality(Channels \ added) =
          Cardinality(Channels) - Cardinality(Channels \cap added)
    BY FiniteAccounts, FS_Difference
  <2>3. /\ Cardinality(Channels \ added) + Slack <= slots /\ Cardinality(Channels) > slots
        /\ slots \in Nat /\ UNCHANGED <<mon, slots, Channels, added>>
    BY <1>7 DEF TickCrashes, ArrayInv, TypeOK
  <2>4. Cardinality(added) >= Slack + 1
    BY <2>1, <2>2, <2>3, FiniteAccounts, SlackAssumption
  <2>. QED
    BY <2>3, <2>4 DEF ArrayInv, CrashNeedsBurst
<1>8. CASE UNCHANGED vars
  BY <1>8 DEF vars, ArrayInv, CrashNeedsBurst
<1>9. Shrinks => ArrayInv' /\ CrashNeedsBurst'
  <2>. SUFFICES ASSUME Shrinks PROVE ArrayInv' /\ CrashNeedsBurst'
    OBVIOUS
  <2>1. CrashNeedsBurst'
    BY DEF CrashNeedsBurst
  <2>2. mon' = "counted" =>
        /\ Cardinality(Channels' \ added') <= Cardinality(Channels \ added)
        /\ Cardinality(Channels' \ added') \in Nat /\ Cardinality(Channels \ added) \in Nat
    <3>1. IsFiniteSet(Channels \ added)
      BY FiniteAccounts, FS_Difference
    <3>2. CASE mon' = "counted"
      BY <3>1, <3>2, FS_Subset, FS_CardinalityType
    <3>. QED
      BY <3>2
  <2>3. ArrayInv'
    BY <2>2, SlackAssumption DEF ArrayInv, TypeOK
  <2>. QED
    BY <2>1, <2>3
<1>. HIDE DEF Shrinks
<1>. QED
  BY <1>1, <1>2, <1>3, <1>4, <1>5, <1>6, <1>7, <1>8, <1>9 DEF Next

-----------------------------------------------------------------------------
(* The theorems.                                                           *)

IInv ==
    /\ TypeOK /\ QueueInv /\ TimerInv /\ RefusedInv /\ RegistryCoversServing
    /\ QuietInv /\ Balance /\ ArrayInv /\ CrashNeedsBurst

\* IInv is inductive: it holds at the start and every step keeps it.
LEMMA InitIInv == Init => IInv
<1> SUFFICES ASSUME Init PROVE IInv
    OBVIOUS
<1>1. TypeOK
  <2>1. peer \in [Conns -> PeerStates] /\ pc \in [Conns -> HandlerStates]
    BY DEF Init, PeerStates, HandlerStates
  <2>2. backlog \in Seq(Conns) /\ sem \in 0 .. MaxConcurrentClientsCount
    BY MaxAssumption DEF Init
  <2>3. /\ mon = "idle" /\ mon \in MonitorStates /\ slots \in Nat /\ cur = NoConn
        /\ noOfConnectedSockets \in Int /\ accept = "waiting"
    BY DEF Init, MonitorStates
  <2>5. crashed \in BOOLEAN
    BY DEF Init
  <2>4. /\ inbox = {} /\ Channels = {} /\ isConnected = {} /\ shut = {} /\ recent = {}
        /\ todo = {} /\ swept = {} /\ refused = {} /\ added = {}
        /\ lost = 0 /\ lostCounted = 0
    BY DEF Init
  <2>. QED
    BY <2>1, <2>2, <2>3, <2>4, <2>5 DEF TypeOK
<1>2. QueueInv /\ TimerInv /\ RefusedInv /\ QuietInv /\ ArrayInv /\ CrashNeedsBurst
  BY DEF Init, QueueInv, TimerInv, RefusedInv, QuietInv, ArrayInv, CrashNeedsBurst,
         Registered, ClosedStates
<1>3. Accepted = {} /\ Counted = {} /\ HandlerReleased = {}
  BY DEF Init, Accepted, Counted, HandlerReleased, ClosedStates
<1>4. RegistryCoversServing
  BY <1>3 DEF RegistryCoversServing, Serving
<1>5. Balance
  BY <1>3, FS_EmptySet, MaxAssumption
  DEF Init, Balance, PermitAccounting, ConnectedCounter, Held
<1>. QED
  BY <1>1, <1>2, <1>4, <1>5 DEF IInv

\* The steps of the lemmas above, put together.
LEMMA NextIInv == IInv /\ [Next]_vars => IInv'
BY TypeStep, QueueStep, TimerStep, RefusedStep, RegistryStep,
   QuietStep, BalanceStep, BurstStep DEF IInv

\* IInv holds in every reachable state.
LEMMA Invariance == Spec => []IInv
BY InitIInv, NextIInv, PTL DEF Spec

\* Every variable keeps its type, whatever the clients, the tasks and the timer do.
THEOREM TypeCorrect == Spec => []TypeOK
<1>1. IInv => TypeOK
  BY DEF IInv
<1>. QED
  BY <1>1, Invariance, PTL

\* The permits of MaxConcurrentClients are accounted for in every state: StartAccept
\* takes one, each ReleaseChannel of the handler or the timer returns one or throws.
THEOREM PermitsAccounted == Spec => []PermitAccounting
<1>1. IInv => PermitAccounting
  BY DEF IInv, Balance
<1>. QED
  BY <1>1, Invariance, PTL

\* _noOfConnectedSockets is the number of counted connections less the releases made.
THEOREM CounterAccounted == Spec => []ConnectedCounter
<1>1. IInv => ConnectedCounter
  BY DEF IInv, Balance
<1>. QED
  BY <1>1, Invariance, PTL

\* The permit balance, read of the connections that are served: what StartAccept has
\* taken and not given back is with them, or lost by a failed accept or a refused release.
ServedBalance ==
    /\ sem \in Nat /\ Held \in Nat /\ Cardinality(Serving) \in Nat
    /\ IsFiniteSet(ReleasedTwice) /\ Cardinality(ReleasedTwice) \in Nat
    /\ Cardinality(refused) \in Nat /\ lost \in Nat
    /\ sem + Held + lost + Cardinality(Serving) + Cardinality(refused) =
         MaxConcurrentClientsCount + Cardinality(ReleasedTwice)

LEMMA AccountsOfServed == IInv => ServedBalance
<1> SUFFICES ASSUME IInv PROVE ServedBalance
    OBVIOUS
<1> USE DEF IInv
<1>1. HandlerReleased \subseteq Accepted /\ swept \subseteq Accepted
  BY DEF HandlerReleased, Accepted, ClosedStates, TimerInv, Registered
<1>2. /\ IsFiniteSet(Released)
      /\ Cardinality(Released) = Cardinality(HandlerReleased) + Cardinality(swept)
                                   - Cardinality(ReleasedTwice)
  BY FiniteAccounts, FS_Union DEF Released, ReleasedTwice
<1>3. /\ IsFiniteSet(ReleasedTwice)
      /\ Cardinality(Serving) \in Nat /\ Cardinality(ReleasedTwice) \in Nat
      /\ Cardinality(Serving) = Cardinality(Accepted) - Cardinality(Released)
  <2>1. /\ Accepted \cap Released = Released
        /\ ReleasedTwice \in SUBSET swept /\ Serving \in SUBSET Accepted
    BY <1>1 DEF Released, ReleasedTwice, Serving
  <2>2. Cardinality(Serving) = Cardinality(Accepted) - Cardinality(Accepted \cap Released)
    BY FiniteAccounts, FS_Difference DEF Serving
  <2>. QED
    BY <2>1, <2>2, FiniteAccounts, FS_Subset, FS_CardinalityType
<1>4. sem \in Nat /\ Held \in Nat
  BY MaxAssumption DEF TypeOK, Held
<1>5. PermitAccounting
  BY DEF Balance
<1>. QED
  BY <1>2, <1>3, <1>4, <1>5, FiniteAccounts, MaxAssumption
  DEF PermitAccounting, ServedBalance

\* A release is only refused while all permits are back: then ServedBalance leaves no
\* refused release without a channel that was closed twice.
RefusalInv == Cardinality(refused) <= Cardinality(ReleasedTwice)

LEMMA ReleasesGrow ==
    ASSUME TypeOK, QueueInv, [Next]_vars
    PROVE  /\ HandlerReleased \subseteq HandlerReleased' /\ swept \subseteq swept'
           /\ refused' = refused \/ sem' = MaxConcurrentClientsCount
<1> USE DEF clientVars, serverVars, permitVars, channelVars, monitorVars, historyVars,
            ClosedStates, At, OnTimer, Goto, TypeOK, HandlerReleased
<1>1. ASSUME NEW c \in Conns, Client(c) \/ Idle10s(c)
      PROVE  UNCHANGED <<pc, swept, refused>>
  BY <1>1 DEF Client, Connect, Ask, Hangup, Idle10s
<1>2. ASSUME NEW c \in Conns, Task(c)
      PROVE  /\ HandlerReleased \subseteq HandlerReleased' /\ swept \subseteq swept'
             /\ refused' = refused \/ sem' = MaxConcurrentClientsCount
  <2>1. CASE HandlerReleases(c)
    BY <2>1 DEF HandlerReleases, Release, AfterRelease, SemaphoreFull
  <2>2. CASE HandlerRemoves(c) \/ HandlerShutsDown(c)
    BY <2>2 DEF HandlerRemoves, HandlerShutsDown
  <2>3. CASE CountConnection(c) \/ SetupThrows(c) \/ AddChannel(c) \/ CreateHandler(c)
    BY <2>3 DEF CountConnection, SetupThrows, AddChannel, CreateHandler
  <2>4. CASE \/ BeginReceive(c) \/ Receive(c) \/ ReceiveEndOfStream(c) \/ ReceiveThrows(c)
             \/ ReceiveTimesOut(c) \/ DrainTimedOutRead(c) \/ Reply(c) \/ HandlerThrows(c)
    BY <2>4
    DEF BeginReceive, Receive, ReceiveEndOfStream, ReceiveThrows, ReceiveTimesOut,
        DrainTimedOutRead, Reply, HandlerThrows
  <2>. QED
    BY <1>2, <2>1, <2>2, <2>3, <2>4 DEF Task
<1>3. CASE StartAccept \/ AcceptFails
  BY <1>3 DEF StartAccept, AcceptFails
<1>4. CASE ProcessAccept
  <2>1. pc[Head(backlog)] = "none"
    BY <1>4, HeadOfBacklog DEF ProcessAccept
  <2>. QED
    BY <1>4, <2>1 DEF ProcessAccept
<1>5. CASE MonitorReleases
  BY <1>5 DEF MonitorReleases, Release, SemaphoreFull
<1>6. CASE Monitor /\ ~MonitorReleases
  BY <1>6
  DEF Monitor, TickOnNothing, vars, TickFindsChannels, TickCounts, TickCopies, TickCrashes,
      NextChannel, TickEnds, CheckLastIO, Poll, Available, MonitorRemoves, MonitorShutsDown
<1>7. CASE UNCHANGED vars
  BY <1>7 DEF vars
<1>. QED
  BY <1>1, <1>2, <1>3, <1>4, <1>5, <1>6, <1>7 DEF Next, AcceptLoop

LEMMA RefusalAlways == Spec => []RefusalInv
<1>1. Init => RefusalInv
  <2>. SUFFICES ASSUME Init PROVE RefusalInv
    OBVIOUS
  <2>1. refused = {} /\ ReleasedTwice = {}
    BY DEF Init, ReleasedTwice
  <2>. QED
    BY <2>1, FS_EmptySet DEF RefusalInv
<1>2. IInv' => ServedBalance'
  BY AccountsOfServed, PTL
<1>3. IInv /\ IInv' /\ RefusalInv /\ [Next]_vars => RefusalInv'
  <2>. SUFFICES ASSUME IInv, IInv', RefusalInv, [Next]_vars PROVE RefusalInv'
    OBVIOUS
  <2>1. /\ ReleasedTwice \subseteq ReleasedTwice'
        /\ refused' = refused \/ sem' = MaxConcurrentClientsCount
    BY ReleasesGrow DEF IInv, ReleasedTwice
  <2>2. CASE refused' = refused
    <3>1. Cardinality(ReleasedTwice) <= Cardinality(ReleasedTwice')
      BY <2>1, <1>2, FS_Subset DEF ServedBalance
    <3>. QED
      BY <2>2, <3>1, <1>2, AccountsOfServed DEF RefusalInv, ServedBalance
  <2>3. CASE sem' = MaxConcurrentClientsCount
    BY <2>3, <1>2, MaxAssumption DEF RefusalInv, ServedBalance
  <2>. QED
    BY <2>1, <2>2, <2>3
<1>. QED
  BY <1>1, <1>3, Invariance, PTL DEF Spec

\* The server serves at most MaxConcurrentClientsCount clients, and one more for each
\* channel that was closed both by its handler and by the timer; and StartAccept waits
\* for a permit only while at least that many connections are taken and not released.
THEOREM CapacityBounded == Spec => []CapacityBound
<1>1. IInv /\ RefusalInv => CapacityBound
  BY AccountsOfServed, MaxAssumption DEF RefusalInv, ServedBalance, CapacityBound
<1>. QED
  BY <1>1, Invariance, RefusalAlways, PTL

\* A channel stays findable for the timer until a release of it begins.
THEOREM RegistryComplete == Spec => []RegistryCoversServing
<1>1. IInv => RegistryCoversServing
  BY DEF IInv
<1>. QED
  BY <1>1, Invariance, PTL

\* A closed channel stays in Channels only when a full semaphore refused its releases.
THEOREM ZombiesExplained == Spec => []ZombieExplained
<1>1. IInv => ZombieExplained
  BY DEF IInv, RefusedInv, ZombieExplained
<1>. QED
  BY <1>1, Invariance, PTL

\* Neither the timer nor a timeout closes the channel of a silent client.
THEOREM QuietClientsKept == Spec => []QuietClientKept
<1>1. IInv => QuietClientKept
  BY DEF IInv, QuietInv, QuietClientKept, MonitorCloses
<1>. QED
  BY <1>1, Invariance, PTL

\* The copy of Channels.Values throws only after more than Slack channels were added since
\* the array was sized, even when channels went between the test for zero and the sizing.
THEOREM CrashesNeedBurst == Spec => []CrashNeedsBurst
<1>1. IInv => CrashNeedsBurst
  BY DEF IInv
<1>. QED
  BY <1>1, Invariance, PTL

\* The timer releases each channel at most once.
THEOREM TimerReleasesOnce == Spec => MonitorReleasesOnce
<1>1. IInv /\ [Next]_vars =>
        [\A c \in Conns : mon = "release" /\ cur = c /\ mon' # mon => c \notin swept]_vars
  BY DEF IInv, TimerInv
<1>. QED
  BY <1>1, Invariance, PTL DEF Spec, MonitorReleasesOnce

-----------------------------------------------------------------------------
(* The safety half of RequestResolved.                                     *)

\* A request that is not answered yet is unread, or with the handler, or its channel
\* is being closed; the handler that has it has read it.
RequestKept == \A c \in Conns :
    /\ peer[c] = "waiting" =>
         c \in inbox \/ c \in shut \/ pc[c] \in {"busy", "release"} \cup ClosedStates
    /\ pc[c] = "busy" => c \notin inbox /\ peer[c] \in {"waiting", "hungup"}
    /\ c \in inbox => peer[c] \in {"waiting", "hungup"}

LEMMA RequestStep ==
    TypeOK /\ QueueInv /\ RequestKept /\ [Next]_vars => RequestKept'
<1> SUFFICES ASSUME TypeOK, QueueInv, RequestKept, [Next]_vars PROVE RequestKept'
    OBVIOUS
<1> USE DEF clientVars, serverVars, permitVars, channelVars, monitorVars, historyVars,
            ClosedStates, At, OnTimer, Goto, TypeOK, RequestKept
<1>1. ASSUME NEW c \in Conns, Client(c) \/ Idle10s(c) PROVE RequestKept'
  <2>1. CASE Connect(c)
    BY <2>1 DEF Connect, QueueInv
  <2>2. CASE Ask(c)
    BY <2>2 DEF Ask
  <2>3. CASE Hangup(c)
    BY <2>3 DEF Hangup
  <2>4. CASE Idle10s(c)
    BY <2>4 DEF Idle10s
  <2>. QED
    BY <1>1, <2>1, <2>2, <2>3, <2>4 DEF Client
<1>2. ASSUME NEW c \in Conns, Task(c) PROVE RequestKept'
  <2>1. CASE HandlerReleases(c) \/ HandlerRemoves(c) \/ HandlerShutsDown(c)
    BY <2>1 DEF HandlerReleases, Release, AfterRelease, HandlerRemoves, HandlerShutsDown
  <2>2. CASE CountConnection(c) \/ SetupThrows(c) \/ AddChannel(c) \/ CreateHandler(c)
    BY <2>2 DEF CountConnection, SetupThrows, AddChannel, CreateHandler
  <2>3. CASE Receive(c)
    BY <2>3 DEF Receive
  <2>4. CASE Reply(c)
    BY <2>4 DEF Reply
  <2>5. CASE \/ BeginReceive(c) \/ ReceiveEndOfStream(c) \/ ReceiveThrows(c)
             \/ ReceiveTimesOut(c) \/ DrainTimedOutRead(c) \/ HandlerThrows(c)
    BY <2>5
    DEF BeginReceive, ReceiveEndOfStream, ReceiveThrows, ReceiveTimesOut, DrainTimedOutRead,
        HandlerThrows
  <2>. QED
    BY <1>2, <2>1, <2>2, <2>3, <2>4, <2>5 DEF Task
<1>3. CASE StartAccept \/ AcceptFails
  BY <1>3 DEF StartAccept, AcceptFails
<1>4. CASE ProcessAccept
  <2>1. Head(backlog) \in Conns /\ pc[Head(backlog)] = "none"
    BY <1>4, HeadOfBacklog DEF ProcessAccept
  <2>. QED
    BY <1>4, <2>1 DEF ProcessAccept
<1>5. CASE MonitorShutsDown
  BY <1>5 DEF MonitorShutsDown
<1>6. CASE Monitor /\ ~MonitorShutsDown
  BY <1>6
  DEF Monitor, TickOnNothing, vars, TickFindsChannels, TickCounts, TickCopies, TickCrashes,
      NextChannel, TickEnds, CheckLastIO, Poll, Available, MonitorReleases, Release, MonitorRemoves
<1>7. CASE UNCHANGED vars
  BY <1>7 DEF vars
<1>. QED
  BY <1>1, <1>2, <1>3, <1>4, <1>5, <1>6, <1>7 DEF Next, AcceptLoop

\* No request is lost inside the server: whoever waits for an answer has a request that
\* its handler will read or has read, or a channel that is closed.
THEOREM RequestsKept == Spec => []RequestKept
<1>1. Init => RequestKept
  BY DEF Init, RequestKept
<1>2. IInv /\ RequestKept /\ [Next]_vars => RequestKept'
  BY RequestStep DEF IInv
<1>. QED
  BY <1>1, <1>2, Invariance, PTL DEF Spec

=============================================================================
