-------------------------------- MODULE Relay --------------------------------
(***************************************************************************)
(* A client, the business server's handler that serves it, and the         *)
(* connection that this handler makes to the cache server: two channels in *)
(* a row, each command relayed over both and its answer back.  The cache   *)
(* server may be down when the connection is made, crash and start again;  *)
(* the timers of either server may close a channel; every read may time    *)
(* out, and is then still waited for, and what it brings is dropped.       *)
(*                                                                         *)
(* Sources: v2 Server.Business/ChannelHandler.cs, BusinessServerClient.cs, *)
(* the loop of Server.Cache/ChannelHandler.cs, ASyncChannel.cs.            *)
(* What a command does is CacheServer.tla, bytes are Framing.tla, permits  *)
(* and registration are ASyncServer.tla; a command is its number, and its  *)
(* effect is that it is in "ran".  A peer that vanishes without a FIN or a *)
(* RST is not modelled: the reads of both sides would wait for ever.       *)
(***************************************************************************)
EXTENDS Integers, Sequences

CONSTANTS
    Clients,        \* connections of BusinessServerClient, and their handlers
    MaxCommands,    \* bound: commands over one connection
    MaxCrashes      \* bound: crashes of the cache server

ASSUME BoundAssumption == MaxCommands \in Nat /\ MaxCrashes \in Nat

VARIABLES
    \* the client
    cpc,            \* where the client is
    connected,      \* IsConnected of its channel
    asked,          \* number of commands it has asked
    query,          \* it expects a derived response type (no Add command)
    outcome,        \* what GetObject made of each command
    \* the channel between the client and its handler
    requests, replies,
    clientShut, handlerShut,    \* the ends that are closed
    \* the business server's handler
    hpc,            \* where ProcessInternal is
    held,           \* command
    answer,         \* response
    \* the channel between the handler and the cache server
    link,           \* its state, as the handler's writes find it
    toCache, fromCache,
    \* the cache server
    cacheUp, crashes,
    xpc,            \* where its handler of this connection is
    xcmd,           \* the command of that handler
    ran             \* history: the commands that took effect

clientState  == <<cpc, connected, asked, query, outcome>>
channel      == <<requests, replies, clientShut, handlerShut>>
handlerState == <<hpc, held, answer>>
cacheLink    == <<link, toCache, fromCache>>
cacheState   == <<cacheUp, crashes, xpc, xcmd, ran>>
vars == <<clientState, channel, handlerState, cacheLink, cacheState>>

Responses == {"answer", "fallback"} \X (1..MaxCommands)
NoResponse == <<"none", 0>>

Everyone(x) == [c \in Clients |-> x]

\* The cache server starts by the clock, perhaps after the first client came.
Init ==
    /\ cpc = Everyone("out") /\ connected = Everyone(FALSE)
    /\ asked = Everyone(0) /\ query = Everyone(FALSE) /\ outcome = Everyone(<<>>)
    /\ requests = Everyone(<<>>) /\ replies = Everyone(<<>>)
    /\ clientShut = Everyone(FALSE) /\ handlerShut = Everyone(FALSE)
    /\ hpc = Everyone("none") /\ held = Everyone(0) /\ answer = Everyone(NoResponse)
    /\ link = Everyone("none") /\ toCache = Everyone(<<>>) /\ fromCache = Everyone(<<>>)
    /\ cacheUp = FALSE /\ crashes = 0
    /\ xpc = Everyone("none") /\ xcmd = Everyone(0)
    /\ ran = Everyone(<<>>)

ClientAt(c, label)  == cpc[c] = label
HandlerAt(c, label) == hpc[c] = label
CacheAt(c, label)   == cacheUp /\ xpc[c] = label

-----------------------------------------------------------------------------
(* The client: BusinessServerClient as the web client uses it.  The results*)
(* of Connect and SendObjectAsync are ignored; only GetObject tells.  A    *)
(* connection is made when it is in the backlog, before anyone accepts it. *)

Connect(c) ==
    /\ ClientAt(c, "out")
    /\ cpc' = [cpc EXCEPT ![c] = "idle"]
    /\ \/ /\ connected' = [connected EXCEPT ![c] = TRUE]
          /\ hpc' = [hpc EXCEPT ![c] = "queued"]
       \/ UNCHANGED <<connected, hpc>>
    /\ UNCHANGED <<asked, query, outcome, channel, held, answer, cacheLink, cacheState>>

\* SendObjectAsync: bytes written to a closed connection are lost, or it throws.
Ask(c) ==
    /\ ClientAt(c, "idle") /\ asked[c] < MaxCommands
    /\ cpc' = [cpc EXCEPT ![c] = "waiting"]
    /\ asked' = [asked EXCEPT ![c] = @ + 1]
    /\ \E q \in BOOLEAN : query' = [query EXCEPT ![c] = q]
    /\ IF connected[c] /\ ~handlerShut[c]
       THEN /\ requests' = [requests EXCEPT ![c] = Append(@, asked[c] + 1)]
            /\ UNCHANGED connected
       ELSE /\ connected' \in {connected, [connected EXCEPT ![c] = FALSE]}
            /\ UNCHANGED requests
    /\ UNCHANGED <<outcome, replies, clientShut, handlerShut, handlerState, cacheLink, cacheState>>

\* GetObject returned how: a query leaves with an exception when it gets no answer
\* (null is dereferenced) or the fallback (it has not the type of the answer).
Resolve(c, how) ==
    /\ outcome' = [outcome EXCEPT ![c] = Append(@, how)]
    /\ cpc' = [cpc EXCEPT ![c] = IF query[c] /\ how[1] # "answer" THEN "leaving" ELSE "idle"]
    /\ UNCHANGED <<asked, query>>

Nothing(c) == <<"none", asked[c]>>

GetReply(c) ==
    /\ ClientAt(c, "waiting") /\ connected[c] /\ replies[c] # <<>>
    /\ Resolve(c, Head(replies[c]))
    /\ replies' = [replies EXCEPT ![c] = Tail(@)]
    /\ UNCHANGED <<connected, requests, clientShut, handlerShut, handlerState, cacheLink, cacheState>>

\* The end of the stream: null; a reset: null, and the channel is not connected.
ReplyEnds(c) ==
    /\ ClientAt(c, "waiting") /\ connected[c] /\ replies[c] = <<>> /\ handlerShut[c]
    /\ Resolve(c, Nothing(c))
    /\ connected' \in {connected, [connected EXCEPT ![c] = FALSE]}
    /\ UNCHANGED <<channel, handlerState, cacheLink, cacheState>>

\* ReceiveAsync throws on a channel that is not connected; no caller catches it.
GetObjectThrows(c) ==
    /\ ClientAt(c, "waiting") /\ ~connected[c]
    /\ outcome' = [outcome EXCEPT ![c] = Append(@, Nothing(c))]
    /\ cpc' = [cpc EXCEPT ![c] = "leaving"]
    /\ UNCHANGED <<connected, asked, query, channel, handlerState, cacheLink, cacheState>>

ReplyTimesOut(c) ==
    /\ ClientAt(c, "waiting") /\ connected[c] /\ replies[c] = <<>> /\ ~handlerShut[c]
    /\ cpc' = [cpc EXCEPT ![c] = "late"]
    /\ UNCHANGED <<connected, asked, query, outcome, channel, handlerState, cacheLink, cacheState>>

\* Mutant: the channel is kept when the late answer does not come at once.
LateReplyExpected(c) ==
    /\ ClientAt(c, "late")
    /\ Resolve(c, Nothing(c))
    /\ UNCHANGED <<connected, channel, handlerState, cacheLink, cacheState>>

\* The read that timed out ends at last: its data is dropped and the stream closed.
LateReply(c) ==
    /\ ClientAt(c, "late")
    /\ replies[c] # <<>> \/ handlerShut[c]
    /\ Resolve(c, Nothing(c))
    /\ connected' = [connected EXCEPT ![c] = FALSE]
    /\ clientShut' = [clientShut EXCEPT ![c] = TRUE]
    /\ replies' = [replies EXCEPT ![c] = <<>>]
    /\ UNCHANGED <<requests, handlerShut, handlerState, cacheLink, cacheState>>

\* Close, by Dispose or because the process ends: also in the middle of a command.
Leave(c) ==
    /\ cpc[c] \notin {"out", "gone"}
    /\ cpc' = [cpc EXCEPT ![c] = "gone"]
    /\ connected' = [connected EXCEPT ![c] = FALSE]
    /\ clientShut' = [clientShut EXCEPT ![c] = TRUE]
    /\ requests' \in {requests, [requests EXCEPT ![c] = <<>>]}
    /\ replies' = [replies EXCEPT ![c] = <<>>]
    /\ UNCHANGED <<asked, query, outcome, handlerShut, handlerState, cacheLink, cacheState>>

-----------------------------------------------------------------------------
(* The business server's handler.                                          *)

\* The accept loop has a permit for the connection, and its task makes the handler; or
\* the task fails, and nobody will read the channel: the handler's constructor parses
\* CacheHostName as an IP address, which throws on the configured "servercache".
Accept(c) ==
    /\ HandlerAt(c, "queued")
    /\ \E label \in {"accepted", "orphan"} : hpc' = [hpc EXCEPT ![c] = label]
    /\ UNCHANGED <<clientState, channel, held, answer, cacheLink, cacheState>>

\* ConnectWithCache, whose result is ignored.
ConnectWithCache(c) ==
    /\ HandlerAt(c, "accepted")
    /\ link' = [link EXCEPT ![c] = IF cacheUp THEN "open" ELSE "none"]
    /\ hpc' = [hpc EXCEPT ![c] = "loop"]
    /\ UNCHANGED <<clientState, channel, held, answer, toCache, fromCache, cacheState>>

ReceiveCommand(c) ==
    /\ HandlerAt(c, "loop") /\ ~handlerShut[c] /\ requests[c] # <<>>
    /\ held' = [held EXCEPT ![c] = Head(requests[c])]
    /\ requests' = [requests EXCEPT ![c] = Tail(@)]
    /\ hpc' = [hpc EXCEPT ![c] = "send"]
    /\ UNCHANGED <<clientState, replies, clientShut, handlerShut, answer, cacheLink, cacheState>>

\* No command (end of the stream, or a closed channel): command.ToString() throws.
CommandEnds(c) ==
    /\ HandlerAt(c, "loop")
    /\ handlerShut[c] \/ (requests[c] = <<>> /\ clientShut[c])
    /\ hpc' = [hpc EXCEPT ![c] = "release"]
    /\ UNCHANGED <<clientState, channel, held, answer, cacheLink, cacheState>>

CommandTimesOut(c) ==
    /\ HandlerAt(c, "loop") /\ ~handlerShut[c] /\ requests[c] = <<>> /\ ~clientShut[c]
    /\ hpc' = [hpc EXCEPT ![c] = "drain"]
    /\ UNCHANGED <<clientState, channel, held, answer, cacheLink, cacheState>>

\* A command that comes after five minutes of silence is read and dropped.
DropLateCommand(c) ==
    /\ HandlerAt(c, "drain")
    /\ handlerShut[c] \/ requests[c] # <<>> \/ clientShut[c]
    /\ requests' = [requests EXCEPT ![c] = <<>>]
    /\ handlerShut' = [handlerShut EXCEPT ![c] = TRUE]
    /\ hpc' = [hpc EXCEPT ![c] = "release"]
    /\ UNCHANGED <<clientState, replies, clientShut, held, answer, cacheLink, cacheState>>

\* SendObjectAsync(command) to the cache.  The first write to a connection that the
\* other side has closed may succeed; once one has failed, all fail.
SendCommand(c) ==
    /\ HandlerAt(c, "send")
    /\ \/ /\ link[c] \in {"open", "broken"}
          /\ toCache' = [toCache EXCEPT ![c] = IF link[c] = "open" THEN Append(@, held[c]) ELSE @]
          /\ hpc' = [hpc EXCEPT ![c] = "await"]
          /\ UNCHANGED <<link, answer>>
       \/ /\ link[c] \in {"broken", "none"}
          /\ link' = [link EXCEPT ![c] = "none"]
          /\ answer' = [answer EXCEPT ![c] = <<"fallback", held[c]>>]
          /\ hpc' = [hpc EXCEPT ![c] = "reply"]
          /\ UNCHANGED toCache
    /\ UNCHANGED <<clientState, channel, held, fromCache, cacheState>>

ReceiveAnswer(c) ==
    /\ HandlerAt(c, "await") /\ fromCache[c] # <<>>
    /\ answer' = [answer EXCEPT ![c] = Head(fromCache[c])]
    /\ fromCache' = [fromCache EXCEPT ![c] = Tail(@)]
    /\ hpc' = [hpc EXCEPT ![c] = "reply"]
    /\ UNCHANGED <<clientState, channel, held, link, toCache, cacheState>>

\* Mutant: no answer is treated like a command that could not be sent.
FallBackOnNull(c) ==
    /\ HandlerAt(c, "await") /\ fromCache[c] = <<>> /\ link[c] = "broken"
    /\ answer' = [answer EXCEPT ![c] = <<"fallback", held[c]>>]
    /\ hpc' = [hpc EXCEPT ![c] = "reply"]
    /\ UNCHANGED <<clientState, channel, held, cacheLink, cacheState>>

\* Mutant: the handler connects again and sends the command once more.
RetryOnNull(c) ==
    /\ HandlerAt(c, "await") /\ fromCache[c] = <<>> /\ link[c] = "broken"
    /\ cacheUp /\ xpc[c] = "closed"
    /\ link' = [link EXCEPT ![c] = "open"]
    /\ xpc' = [xpc EXCEPT ![c] = "none"]
    /\ hpc' = [hpc EXCEPT ![c] = "send"]
    /\ UNCHANGED <<clientState, channel, held, answer, toCache, fromCache, cacheUp, crashes, xcmd, ran>>

\* No answer: response.ToString() throws.
AnswerEnds(c) ==
    /\ HandlerAt(c, "await") /\ fromCache[c] = <<>> /\ link[c] = "broken"
    /\ hpc' = [hpc EXCEPT ![c] = "release"]
    /\ UNCHANGED <<clientState, channel, held, answer, cacheLink, cacheState>>

AnswerTimesOut(c) ==
    /\ HandlerAt(c, "await") /\ fromCache[c] = <<>> /\ link[c] = "open"
    /\ hpc' = [hpc EXCEPT ![c] = "late"]
    /\ UNCHANGED <<clientState, channel, held, answer, cacheLink, cacheState>>

DropLateAnswer(c) ==
    /\ HandlerAt(c, "late")
    /\ fromCache[c] # <<>> \/ link[c] = "broken"
    /\ link' = [link EXCEPT ![c] = "shut"]
    /\ fromCache' = [fromCache EXCEPT ![c] = <<>>]
    /\ hpc' = [hpc EXCEPT ![c] = "release"]
    /\ UNCHANGED <<clientState, channel, held, answer, toCache, cacheState>>

\* SendObjectAsync(response), its result ignored; it throws on a closed channel.
Reply(c) ==
    /\ HandlerAt(c, "reply")
    /\ IF handlerShut[c]
       THEN hpc' = [hpc EXCEPT ![c] = "release"] /\ UNCHANGED replies
       ELSE /\ replies' = [replies EXCEPT ![c] = IF clientShut[c] THEN @ ELSE Append(@, answer[c])]
            /\ hpc' = [hpc EXCEPT ![c] = "loop"]
    /\ UNCHANGED <<clientState, requests, clientShut, handlerShut, held, answer, cacheLink, cacheState>>

\* Mutant: only the channel to the cache is closed.
KeepChannel(c) ==
    /\ HandlerAt(c, "release")
    /\ hpc' = [hpc EXCEPT ![c] = "releaseCache"]
    /\ UNCHANGED <<clientState, channel, held, answer, cacheLink, cacheState>>

\* Release, first half: _channel.Close().  A reset may discard what the client has not read.
CloseChannel(c) ==
    /\ HandlerAt(c, "release")
    /\ handlerShut' = [handlerShut EXCEPT ![c] = TRUE]
    /\ requests' = [requests EXCEPT ![c] = <<>>]
    /\ replies' \in {replies, [replies EXCEPT ![c] = <<>>]}
    /\ hpc' = [hpc EXCEPT ![c] = "releaseCache"]
    /\ UNCHANGED <<clientState, clientShut, held, answer, cacheLink, cacheState>>

\* Mutant: only the client's channel is closed.
KeepCacheChannel(c) ==
    /\ HandlerAt(c, "releaseCache")
    /\ hpc' = [hpc EXCEPT ![c] = "closed"]
    /\ UNCHANGED <<clientState, channel, held, answer, cacheLink, cacheState>>

\* Second half: _cachChannel.Close().
CloseCacheChannel(c) ==
    /\ HandlerAt(c, "releaseCache")
    /\ link' = [link EXCEPT ![c] = IF @ = "none" THEN @ ELSE "shut"]
    /\ toCache' \in {toCache, [toCache EXCEPT ![c] = <<>>]}
    /\ fromCache' = [fromCache EXCEPT ![c] = <<>>]
    /\ hpc' = [hpc EXCEPT ![c] = "closed"]
    /\ UNCHANGED <<clientState, channel, held, answer, cacheState>>

\* The business server's dead-socket timer closes the channel under its handler.  A
\* channel that nobody reads it closes only when the client has left nothing unread.
TimerClosesClient(c) ==
    /\ hpc[c] \notin {"none", "queued", "releaseCache", "closed"} /\ ~handlerShut[c]
    /\ hpc[c] = "orphan" => clientShut[c] /\ requests[c] = <<>>
    /\ handlerShut' = [handlerShut EXCEPT ![c] = TRUE]
    /\ requests' = [requests EXCEPT ![c] = <<>>]
    /\ UNCHANGED <<clientState, replies, clientShut, handlerState, cacheLink, cacheState>>

-----------------------------------------------------------------------------
(* The cache server.                                                       *)

\* The cache server has closed its end of the connection.
Broken(c) == [link EXCEPT ![c] = IF @ = "open" THEN "broken" ELSE @]

CacheAccepts(c) ==
    /\ CacheAt(c, "none") /\ link[c] # "none"
    /\ xpc' = [xpc EXCEPT ![c] = "reading"]
    /\ UNCHANGED <<clientState, channel, handlerState, cacheLink, cacheUp, crashes, xcmd, ran>>

CacheReceives(c) ==
    /\ CacheAt(c, "reading") /\ toCache[c] # <<>>
    /\ xcmd' = [xcmd EXCEPT ![c] = Head(toCache[c])]
    /\ toCache' = [toCache EXCEPT ![c] = Tail(@)]
    /\ xpc' = [xpc EXCEPT ![c] = "busy"]
    /\ UNCHANGED <<clientState, channel, handlerState, link, fromCache, cacheUp, crashes, ran>>

CacheTimesOut(c) ==
    /\ CacheAt(c, "reading") /\ toCache[c] = <<>> /\ link[c] = "open"
    /\ xpc' = [xpc EXCEPT ![c] = "draining"]
    /\ UNCHANGED <<clientState, channel, handlerState, cacheLink, cacheUp, crashes, xcmd, ran>>

\* Null, or what came too late: the loop ends and the channel is closed.
CacheReadEnds(c) ==
    /\ \/ CacheAt(c, "reading") /\ toCache[c] = <<>> /\ link[c] # "open"
       \/ CacheAt(c, "draining") /\ (toCache[c] # <<>> \/ link[c] # "open")
    /\ link' = Broken(c)
    /\ toCache' = [toCache EXCEPT ![c] = <<>>]
    /\ xpc' = [xpc EXCEPT ![c] = "closed"]
    /\ UNCHANGED <<clientState, channel, handlerState, fromCache, cacheUp, crashes, xcmd, ran>>

CacheRuns(c) ==
    /\ CacheAt(c, "busy")
    /\ ran' = [ran EXCEPT ![c] = Append(@, xcmd[c])]
    /\ xpc' = [xpc EXCEPT ![c] = "reply"]
    /\ UNCHANGED <<clientState, channel, handlerState, cacheLink, cacheUp, crashes, xcmd>>

\* An exception that is no CacheException, before or after the effect: no answer.
CacheThrows(c) ==
    /\ CacheAt(c, "busy") \/ CacheAt(c, "reply")
    /\ link' = Broken(c)
    /\ toCache' = [toCache EXCEPT ![c] = <<>>]
    /\ xpc' = [xpc EXCEPT ![c] = "closed"]
    /\ UNCHANGED <<clientState, channel, handlerState, fromCache, cacheUp, crashes, xcmd, ran>>

CacheReplies(c) ==
    /\ CacheAt(c, "reply") /\ link[c] # "broken"
    /\ fromCache' = [fromCache EXCEPT ![c] =
           IF link[c] = "open" THEN Append(@, <<"answer", xcmd[c]>>) ELSE @]
    /\ xpc' = [xpc EXCEPT ![c] = "reading"]
    /\ UNCHANGED <<clientState, channel, handlerState, link, toCache, cacheUp, crashes, xcmd, ran>>

\* The cache server's dead-socket timer closes the channel under its handler.
TimerClosesLink(c) ==
    /\ cacheUp /\ xpc[c] \notin {"none", "closed"} /\ link[c] = "open"
    /\ link' = Broken(c)
    /\ toCache' = [toCache EXCEPT ![c] = <<>>]
    /\ UNCHANGED <<clientState, channel, handlerState, fromCache, cacheState>>

\* Every connection ends; a reset may discard answers that are on the way.
Crash ==
    /\ cacheUp /\ crashes < MaxCrashes
    /\ cacheUp' = FALSE /\ crashes' = crashes + 1
    /\ link' = [c \in Clients |-> IF link[c] = "open" THEN "broken" ELSE link[c]]
    /\ toCache' = Everyone(<<>>)
    /\ \E lost \in SUBSET Clients :
           fromCache' = [c \in Clients |-> IF c \in lost THEN <<>> ELSE fromCache[c]]
    /\ xpc' = [c \in Clients |-> IF xpc[c] = "none" /\ link[c] = "none" THEN "none" ELSE "closed"]
    /\ UNCHANGED <<clientState, channel, handlerState, xcmd, ran>>

StartServer ==
    /\ ~cacheUp
    /\ cacheUp' = TRUE
    /\ UNCHANGED <<clientState, channel, handlerState, cacheLink, crashes, xpc, xcmd, ran>>

-----------------------------------------------------------------------------
ClientReads(c) == GetReply(c) \/ ReplyEnds(c) \/ GetObjectThrows(c) \/ LateReply(c)
Client(c) == Connect(c) \/ Ask(c) \/ Leave(c) \/ ClientReads(c)

Handler(c) ==
    \/ ConnectWithCache(c) \/ ReceiveCommand(c) \/ CommandEnds(c) \/ DropLateCommand(c)
    \/ SendCommand(c) \/ ReceiveAnswer(c) \/ AnswerEnds(c) \/ DropLateAnswer(c)
    \/ Reply(c) \/ CloseChannel(c) \/ CloseCacheChannel(c)

CacheHandler(c) ==
    \/ CacheAccepts(c) \/ CacheReceives(c) \/ CacheReadEnds(c)
    \/ CacheRuns(c) \/ CacheThrows(c) \/ CacheReplies(c)

Timeouts(c) ==
    \/ ReplyTimesOut(c) \/ CommandTimesOut(c) \/ AnswerTimesOut(c) \/ CacheTimesOut(c)
    \/ TimerClosesClient(c) \/ TimerClosesLink(c)

Next ==
    \/ \E c \in Clients : Client(c) \/ Accept(c) \/ Handler(c) \/ CacheHandler(c) \/ Timeouts(c)
    \/ Crash \/ StartServer

Spec == Init /\ [][Next]_vars

\* The thread pools run the handlers and the client's task, and the cache server
\* accepts (its 10000 permits are never all taken by the 1000 handlers of the business
\* server).  Nothing makes a client ask or leave, the cache server crash or start, or the
\* business server accept: it may be out of permits.
Fairness == \A c \in Clients :
    WF_vars(ClientReads(c)) /\ WF_vars(Handler(c)) /\ WF_vars(CacheHandler(c))

FairSpec == Spec /\ Fairness

-----------------------------------------------------------------------------
(* Properties.                                                             *)

ClientStates  == {"out", "idle", "waiting", "late", "leaving", "gone"}
HandlerStates == {"none", "queued", "orphan", "accepted", "loop", "drain", "send", "await", "late", "reply",
                  "release", "releaseCache", "closed"}
CacheStates   == {"none", "reading", "draining", "busy", "reply", "closed"}
LinkStates    == {"none", "open", "broken", "shut"}
Numbers       == 1..MaxCommands

TypeOK ==
    /\ cpc \in [Clients -> ClientStates] /\ connected \in [Clients -> BOOLEAN]
    /\ asked \in [Clients -> 0..MaxCommands] /\ query \in [Clients -> BOOLEAN]
    /\ outcome \in [Clients -> Seq(Responses \cup ({"none"} \X Numbers))]
    /\ requests \in [Clients -> Seq(Numbers)] /\ replies \in [Clients -> Seq(Responses)]
    /\ clientShut \in [Clients -> BOOLEAN] /\ handlerShut \in [Clients -> BOOLEAN]
    /\ hpc \in [Clients -> HandlerStates]
    /\ held \in [Clients -> 0..MaxCommands]
    /\ answer \in [Clients -> Responses \cup {NoResponse}]
    /\ link \in [Clients -> LinkStates]
    /\ toCache \in [Clients -> Seq(Numbers)] /\ fromCache \in [Clients -> Seq(Responses)]
    /\ cacheUp \in BOOLEAN /\ crashes \in 0..MaxCrashes
    /\ xpc \in [Clients -> CacheStates] /\ xcmd \in [Clients -> 0..MaxCommands]
    /\ ran \in [Clients -> Seq(Numbers)]

\* What a client takes for the answer to its n-th command is the cache server's
\* answer to that command, which has run; nothing on the two channels carries a number.
AnswerIsOwn == \A c \in Clients : \A n \in 1..Len(outcome[c]) :
    /\ outcome[c][n][2] = n
    /\ outcome[c][n][1] = "answer" => \E i \in 1..Len(ran[c]) : ran[c][i] = n

\* The fallback answer ("Cache communication error") says that the command has not
\* run, and neither it nor any later command of this connection ever will: the handler
\* does not connect again.
FallbackIsFinal == \A c \in Clients : \A n \in 1..Len(outcome[c]) :
    outcome[c][n][1] = "fallback" => \A i \in 1..Len(ran[c]) : ran[c][i] < n

\* The cache server still owes the handler something: an answer, or the end of the stream.
AnswerOwed(c) ==
    \/ link[c] = "broken" \/ fromCache[c] # <<>>
    \/ cacheUp /\ xpc[c] \in {"busy", "reply"}
    \/ cacheUp /\ xpc[c] \in {"none", "reading", "draining"} /\ toCache[c] # <<>>

\* So does the handler the client.
ReplyOwed(c) ==
    \/ handlerShut[c] \/ replies[c] # <<>>
    \/ hpc[c] \in {"send", "await", "late", "reply", "release"}
    \/ hpc[c] \in {"accepted", "loop", "drain"} /\ requests[c] # <<>>

\* Its connection has no handler: not yet, or never.  Such a client may wait for ever: the
\* timer finds its request unread and thinks it alive.
Unserved(c) == hpc[c] \in {"queued", "orphan"}

\* Nobody on the chain waits for something that nobody owes him, although the reads are
\* made without limit where they timed out once and each end relies on the other to
\* close; but for a client whose command lies unread in a connection without a handler.
WaitIsOwed == \A c \in Clients :
    /\ cpc[c] \in {"waiting", "late"} /\ connected[c] =>
         ReplyOwed(c) \/ (Unserved(c) /\ requests[c] # <<>>)
    /\ hpc[c] \in {"await", "late"} => AnswerOwed(c)

\* Both servers and the connection between them implement a procedure call: at most
\* once, in order, each ask resolved once.
Call == INSTANCE Rpc
ImplementsRpc == Call!Spec

\* A client that has a handler and waits for an answer stops waiting, though a read that
\* timed out is waited for without limit: whatever fails closes the channel it reads.
WaitEnds == \A c \in Clients :
    cpc[c] \in {"waiting", "late"} ~> cpc[c] \notin {"waiting", "late"} \/ Unserved(c)

\* Once a client has gone, its handler ends, if it had one, and so does the connection to
\* the cache server with its handler there.
ChainCloses == \A c \in Clients : cpc[c] = "gone" ~>
    /\ hpc[c] \in {"none", "closed"} \/ Unserved(c)
    /\ link[c] # "open"
    /\ xpc[c] = "closed" \/ (xpc[c] = "none" /\ (link[c] = "none" \/ ~cacheUp))

=============================================================================
