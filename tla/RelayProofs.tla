----------------------------- MODULE RelayProofs -----------------------------
(***************************************************************************)
(* For any number of clients, commands and crashes: what a client takes    *)
(* for an answer is the answer to its command, a fallback answer is final, *)
(* and the chain implements Rpc.  Nothing on the two channels carries a    *)
(* number; the argument is that a command is in one place at a time, from  *)
(* the client over the handler to the cache server and back, and that      *)
(* whatever fails closes the chain behind it.                              *)
(***************************************************************************)
EXTENDS Relay, SequenceTheorems, TLAPS

HasRun(c, n) == \E i \in 1..Len(ran[c]) : ran[c][i] = n
Below(c, n)  == \A i \in 1..Len(ran[c]) : ran[c][i] < n

\* No command of this connection will ever run again.
Dead(c) ==
    /\ link[c] = "none" /\ toCache[c] = <<>> /\ xpc[c] \notin {"busy", "reply"}
    /\ hpc[c] \notin {"none", "queued", "orphan", "accepted"}

\* What a response says is true.
Sound(c, r) ==
    /\ r[1] = "answer" => HasRun(c, r[2])
    /\ r[1] = "fallback" => Below(c, r[2]) /\ Dead(c)

Waiting(c) == cpc[c] \in {"waiting", "late"}

ClientInv(c) ==
    /\ cpc[c] = "out" => hpc[c] = "none" /\ ~clientShut[c] /\ ~connected[c]
    /\ cpc[c] \in {"out", "idle", "leaving"} => Len(outcome[c]) = asked[c]
    /\ Waiting(c) => Len(outcome[c]) + 1 = asked[c]
    /\ clientShut[c] => ~connected[c]
    /\ cpc[c] = "gone" => clientShut[c]
    /\ connected[c] => hpc[c] # "none"
    /\ hpc[c] # "none" /\ ~connected[c] => handlerShut[c] \/ clientShut[c]
    /\ hpc[c] \in {"releaseCache", "closed"} => handlerShut[c]

\* A command on its way to the handler is the last one asked, and the only one.
RequestInv(c) == requests[c] # <<>> =>
    /\ requests[c] = <<asked[c]>> /\ held[c] < asked[c]
    /\ hpc[c] \in {"queued", "orphan", "accepted", "loop", "drain"} /\ ~handlerShut[c]
    /\ replies[c] = <<>>
    /\ (Waiting(c) /\ connected[c]) \/ cpc[c] = "gone"

\* A response on its way to the client is the one it waits for.
ReplyInv(c) == replies[c] # <<>> =>
    /\ replies[c] = <<replies[c][1]>> /\ replies[c][1][2] = asked[c]
    /\ Waiting(c) /\ connected[c]
    /\ hpc[c] \in {"loop", "drain", "release", "releaseCache", "closed"}
    /\ Sound(c, replies[c][1])

HandlerInv(c) ==
    /\ held[c] <= asked[c]
    /\ hpc[c] \in {"send", "await", "late", "reply"} => held[c] \in Numbers
    /\ hpc[c] \in {"send", "await", "late", "reply", "release"} /\ ~handlerShut[c] /\ ~clientShut[c] =>
         held[c] = asked[c] /\ Waiting(c) /\ replies[c] = <<>>
    /\ hpc[c] = "send" => Below(c, held[c])
    /\ hpc[c] = "reply" => /\ answer[c] \in Responses /\ answer[c][2] = held[c]
                           /\ Sound(c, answer[c])

\* The command the handler holds is in at most one place beyond it.
CacheInv(c) ==
    /\ \A i \in 1..Len(ran[c]) : ran[c][i] <= held[c]
    /\ hpc[c] \in {"none", "queued", "orphan", "accepted", "loop", "drain", "send", "reply"} =>
         toCache[c] = <<>> /\ fromCache[c] = <<>> /\ xpc[c] \notin {"busy", "reply"}
    /\ toCache[c] # <<>> =>
         /\ toCache[c] = <<held[c]>> /\ Below(c, held[c])
         /\ fromCache[c] = <<>> /\ xpc[c] \notin {"busy", "reply"}
    /\ fromCache[c] # <<>> =>
         /\ fromCache[c] = << <<"answer", held[c]>> >> /\ HasRun(c, held[c])
         /\ xpc[c] \notin {"busy", "reply"}
    /\ xpc[c] \in {"busy", "reply"} => xcmd[c] = held[c] /\ xcmd[c] \in Numbers
    /\ xpc[c] = "busy" => Below(c, held[c])
    /\ hpc[c] \in {"await", "late"} => link[c] # "none"
    /\ xpc[c] = "reply" => HasRun(c, held[c])

OutcomeInv(c) == \A n \in 1..Len(outcome[c]) :
    outcome[c][n][2] = n /\ Sound(c, outcome[c][n])

Local(c) ==
    /\ ClientInv(c) /\ RequestInv(c) /\ ReplyInv(c) /\ HandlerInv(c) /\ CacheInv(c)
    /\ OutcomeInv(c)

Inv == TypeOK /\ \A c \in Clients : Local(c)

-----------------------------------------------------------------------------
\* Queues of at most one element.
LEMMA Singletons ==
    /\ \A x : Append(<<>>, x) = <<x>> /\ Head(<<x>>) = x /\ Tail(<<x>>) = <<>> /\ <<x>> # <<>>
    /\ \A x : <<x>>[1] = x
    /\ Len(<<>>) = 0
  OBVIOUS

LEMMA BoundIsNat == MaxCommands \in Nat /\ MaxCrashes \in Nat
  BY BoundAssumption

\* What is known of one client.
LEMMA TypeAt ==
    ASSUME TypeOK, NEW c \in Clients
    PROVE  /\ asked[c] \in Nat /\ asked[c] <= MaxCommands /\ held[c] \in Nat
           /\ outcome[c] \in Seq(Responses \cup ({"none"} \X Numbers))
           /\ Len(outcome[c]) \in Nat
           /\ requests[c] \in Seq(Numbers) /\ replies[c] \in Seq(Responses)
           /\ toCache[c] \in Seq(Numbers) /\ fromCache[c] \in Seq(Responses)
           /\ ran[c] \in Seq(Numbers) /\ Len(ran[c]) \in Nat
           /\ \A i \in 1..Len(ran[c]) : ran[c][i] \in Numbers
           /\ cpc[c] \in ClientStates /\ hpc[c] \in HandlerStates /\ xpc[c] \in CacheStates
           /\ link[c] \in LinkStates /\ connected[c] \in BOOLEAN
           /\ clientShut[c] \in BOOLEAN /\ handlerShut[c] \in BOOLEAN
  <1>1. asked[c] \in 0..MaxCommands /\ held[c] \in 0..MaxCommands
    BY DEF TypeOK
  <1>2. /\ outcome[c] \in Seq(Responses \cup ({"none"} \X Numbers))
        /\ requests[c] \in Seq(Numbers) /\ replies[c] \in Seq(Responses)
        /\ toCache[c] \in Seq(Numbers) /\ fromCache[c] \in Seq(Responses)
        /\ ran[c] \in Seq(Numbers)
    BY DEF TypeOK
  <1>3. Len(outcome[c]) \in Nat /\ Len(ran[c]) \in Nat /\ \A i \in 1..Len(ran[c]) : ran[c][i] \in Numbers
    BY <1>2, LenProperties, ElementOfSeq
  <1>4. /\ cpc[c] \in ClientStates /\ hpc[c] \in HandlerStates /\ xpc[c] \in CacheStates
        /\ link[c] \in LinkStates /\ connected[c] \in BOOLEAN
        /\ clientShut[c] \in BOOLEAN /\ handlerShut[c] \in BOOLEAN
    BY DEF TypeOK
  <1>. QED  BY <1>1, <1>2, <1>3, <1>4, BoundIsNat

LEMMA InitInv == Init => Inv
  <1>. SUFFICES ASSUME Init PROVE Inv
    OBVIOUS
  <1>1. \A T : <<>> \in Seq(T)
    BY EmptySeq
  <1>2. TypeOK
    <2>1. 0 \in 0..MaxCommands /\ 0 \in 0..MaxCrashes
      BY BoundIsNat
    <2>2. NoResponse \in Responses \cup {NoResponse}
      OBVIOUS
    <2>. QED  BY <1>1, <2>1, <2>2
              DEF Init, Everyone, TypeOK, ClientStates, HandlerStates, CacheStates, LinkStates
  <1>3. ASSUME NEW c \in Clients PROVE Local(c)
    <2>1. /\ cpc[c] = "out" /\ ~connected[c] /\ asked[c] = 0 /\ outcome[c] = <<>>
          /\ requests[c] = <<>> /\ replies[c] = <<>> /\ ~clientShut[c] /\ ~handlerShut[c]
          /\ hpc[c] = "none" /\ held[c] = 0 /\ toCache[c] = <<>> /\ fromCache[c] = <<>>
          /\ xpc[c] = "none" /\ ran[c] = <<>>
      BY <1>3 DEF Init, Everyone
    <2>. QED  BY <2>1, Singletons
              DEF Local, ClientInv, RequestInv, ReplyInv, HandlerInv, CacheInv, OutcomeInv, Waiting
  <1>. QED  BY <1>2, <1>3 DEF Inv

-----------------------------------------------------------------------------
(* What the steps have in common.                                          *)

SameClient(d) ==
    /\ cpc'[d] = cpc[d] /\ connected'[d] = connected[d] /\ asked'[d] = asked[d]
    /\ query'[d] = query[d] /\ outcome'[d] = outcome[d]
SameChannel(d) ==
    /\ requests'[d] = requests[d] /\ replies'[d] = replies[d]
    /\ clientShut'[d] = clientShut[d] /\ handlerShut'[d] = handlerShut[d]
SameHandler(d) == hpc'[d] = hpc[d] /\ held'[d] = held[d] /\ answer'[d] = answer[d]
SameCache(d) ==
    /\ link'[d] = link[d] /\ toCache'[d] = toCache[d] /\ fromCache'[d] = fromCache[d]
    /\ xpc'[d] = xpc[d] /\ xcmd'[d] = xcmd[d] /\ ran'[d] = ran[d]
Same(d) == SameClient(d) /\ SameChannel(d) /\ SameHandler(d) /\ SameCache(d)

LEMMA SameKeeps ==
    ASSUME NEW d, Local(d), Same(d)
    PROVE  Local(d)'
  <1>1. /\ \A n : HasRun(d, n)' <=> HasRun(d, n)
        /\ \A n : Below(d, n)' <=> Below(d, n)
        /\ Dead(d)' <=> Dead(d)
        /\ Waiting(d)' <=> Waiting(d)
    BY DEF Same, SameClient, SameHandler, SameCache, HasRun, Below, Dead, Waiting
  <1>2. \A r : Sound(d, r)' <=> Sound(d, r)
    BY <1>1 DEF Sound
  <1>3. ClientInv(d)' /\ RequestInv(d)'
    BY <1>1 DEF Local, ClientInv, RequestInv, Same, SameClient, SameChannel, SameHandler
  <1>4. ReplyInv(d)' /\ HandlerInv(d)'
    <2>1. Sound(d, replies[d][1])' <=> Sound(d, replies[d][1])
      BY <1>1 DEF Sound, Same, SameChannel
    <2>2. Sound(d, answer[d])' <=> Sound(d, answer[d])
      BY <1>1 DEF Sound, Same, SameHandler
    <2>3. Below(d, held[d])' <=> Below(d, held[d])
      BY <1>1 DEF Below, Same, SameHandler, SameCache
    <2>. QED  BY <1>1, <2>1, <2>2, <2>3
              DEF Local, ReplyInv, HandlerInv, Same, SameClient, SameChannel, SameHandler
  <1>5. CacheInv(d)'
    BY DEF Local, CacheInv, HasRun, Below, Same, SameHandler, SameCache
  <1>6. OutcomeInv(d)'
    <2>1. outcome'[d] = outcome[d]
      BY DEF Same, SameClient
    <2>2. \A i : Sound(d, outcome[d][i])' <=> Sound(d, outcome[d][i])
      BY <1>2, <2>1
    <2>. QED  BY <2>1, <2>2 DEF Local, OutcomeInv
  <1>. QED  BY <1>3, <1>4, <1>5, <1>6 DEF Local

\* A step of one chain.
LEMMA OneChain ==
    ASSUME Inv, TypeOK', NEW c \in Clients, Local(c)',
           \A d \in Clients : d # c => Same(d)
    PROVE  Inv'
  <1>1. ASSUME NEW d \in Clients PROVE Local(d)'
    <2>1. CASE d = c
      BY <2>1
    <2>2. CASE d # c
      BY <2>2, SameKeeps DEF Inv
    <2>. QED  BY <2>1, <2>2
  <1>. QED  BY <1>1 DEF Inv

\* What was true of a response stays true.
LEMMA SoundKeeps ==
    ASSUME NEW c, ran'[c] = ran[c], Dead(c) => Dead(c)'
    PROVE  /\ \A n : (HasRun(c, n)' <=> HasRun(c, n)) /\ (Below(c, n)' <=> Below(c, n))
           /\ \A r : Sound(c, r) => Sound(c, r)'
  <1>1. \A n : (HasRun(c, n)' <=> HasRun(c, n)) /\ (Below(c, n)' <=> Below(c, n))
    BY DEF HasRun, Below
  <1>. QED  BY <1>1 DEF Sound

LEMMA OutcomeKeeps ==
    ASSUME NEW c, OutcomeInv(c), ran'[c] = ran[c], Dead(c) => Dead(c)', outcome'[c] = outcome[c]
    PROVE  OutcomeInv(c)'
  BY DEF OutcomeInv, Sound, HasRun, Below

LEMMA OutcomeGrows ==
    ASSUME TypeOK, NEW c \in Clients, OutcomeInv(c), ran'[c] = ran[c], Dead(c) => Dead(c)',
           NEW r \in Responses \cup ({"none"} \X Numbers), r[2] = Len(outcome[c]) + 1, Sound(c, r),
           outcome'[c] = Append(outcome[c], r)
    PROVE  /\ OutcomeInv(c)' /\ Len(outcome'[c]) = Len(outcome[c]) + 1
           /\ outcome'[c] \in Seq(Responses \cup ({"none"} \X Numbers))
  <1>. DEFINE T == Responses \cup ({"none"} \X Numbers)
  <1>1. outcome[c] \in Seq(T) /\ Len(outcome[c]) \in Nat
    BY TypeAt
  <1>. HIDE DEF T
  <1>2. /\ outcome'[c] \in Seq(T) /\ Len(outcome'[c]) = Len(outcome[c]) + 1
        /\ \A i \in 1..Len(outcome[c]) : outcome'[c][i] = outcome[c][i]
        /\ outcome'[c][Len(outcome[c]) + 1] = r
    BY <1>1, AppendProperties DEF T
  <1>3. ASSUME NEW n \in 1..Len(outcome'[c])
        PROVE  \E x : /\ x = outcome'[c][n] /\ x[2] = n /\ Sound(c, x)
    <2>1. CASE n = Len(outcome[c]) + 1
      BY <2>1, <1>2
    <2>2. CASE n # Len(outcome[c]) + 1
      <3>1. n \in 1..Len(outcome[c])
        BY <2>2, <1>1, <1>2
      <3>. QED  BY <3>1, <1>2 DEF OutcomeInv
    <2>. QED  BY <2>1, <2>2
  <1>4. \A x : Sound(c, x) => Sound(c, x)'
    BY SoundKeeps
  <1>5. OutcomeInv(c)'
    <2>. SUFFICES ASSUME NEW n \in 1..Len(outcome'[c])
                  PROVE  outcome'[c][n][2] = n /\ Sound(c, outcome[c][n])'
      BY DEF OutcomeInv
    <2>1. PICK x : x = outcome'[c][n] /\ x[2] = n /\ Sound(c, x)
      BY <1>3
    <2>2. Sound(c, x)'
      BY <2>1, <1>4
    <2>. QED  BY <2>1, <2>2 DEF Sound, HasRun, Below
  <1>. QED  BY <1>2, <1>5 DEF T

-----------------------------------------------------------------------------
(* The client.  Its steps leave the handler and the cache server alone, so *)
(* what is known of these stays.                                           *)

LEMMA BeyondClient ==
    ASSUME NEW c, Local(c), SameHandler(c), SameCache(c)
    PROVE  /\ CacheInv(c)' /\ (Dead(c) => Dead(c)') /\ ran'[c] = ran[c]
           /\ \A r : Sound(c, r) => Sound(c, r)'
           /\ hpc[c] = "send" => Below(c, held[c])'
           /\ hpc[c] = "reply" => Sound(c, answer[c])'
  <1>1. Dead(c) => Dead(c)'
    BY DEF Dead, SameHandler, SameCache
  <1>2. CacheInv(c)'
    BY DEF Local, CacheInv, HasRun, Below, SameHandler, SameCache
  <1>3. \A r : Sound(c, r) => Sound(c, r)'
    BY <1>1, SoundKeeps DEF SameCache
  <1>4. hpc[c] = "send" => Below(c, held[c])'
    BY DEF Local, HandlerInv, Below, SameHandler, SameCache
  <1>5. hpc[c] = "reply" => Sound(c, answer[c])'
    BY <1>1 DEF Local, HandlerInv, Sound, HasRun, Below, SameHandler, SameCache
  <1>. QED  BY <1>1, <1>2, <1>3, <1>4, <1>5 DEF SameCache

LEMMA ConnectKeeps ==
    ASSUME Inv, NEW c \in Clients, Connect(c)
    PROVE  Inv'
  <1>t. TypeOK /\ Local(c)
    BY DEF Inv
  <1>1. /\ cpc[c] = "out" /\ cpc'[c] = "idle"
        /\ (connected'[c] /\ hpc'[c] = "queued") \/ (connected'[c] = connected[c] /\ hpc'[c] = hpc[c])
        /\ asked'[c] = asked[c] /\ query'[c] = query[c] /\ outcome'[c] = outcome[c]
        /\ SameChannel(c) /\ held'[c] = held[c] /\ answer'[c] = answer[c] /\ SameCache(c)
        /\ \A d \in Clients : d # c => Same(d)
    BY <1>t DEF Connect, ClientAt, TypeOK, channel, cacheLink, cacheState,
                Same, SameClient, SameChannel, SameHandler, SameCache
  <1>2. TypeOK'
    BY <1>t DEF Connect, TypeOK, channel, cacheLink, cacheState, ClientStates, HandlerStates
  <1>3. /\ hpc[c] = "none" /\ ~connected[c] /\ ~clientShut[c] /\ ~Waiting(c) /\ ~Waiting(c)'
        /\ requests[c] = <<>> /\ replies[c] = <<>>
    BY <1>1, <1>t DEF Local, ClientInv, RequestInv, ReplyInv, Waiting
  <1>4. ClientInv(c)' /\ RequestInv(c)' /\ ReplyInv(c)'
    BY <1>1, <1>3, <1>t DEF Local, ClientInv, RequestInv, ReplyInv, SameChannel
  <1>5. HandlerInv(c)' /\ CacheInv(c)'
    BY <1>1, <1>3, <1>t DEF Local, HandlerInv, CacheInv, HasRun, Below, SameCache
  <1>6. OutcomeInv(c)'
    BY <1>1, <1>3, <1>t, OutcomeKeeps DEF Local, Dead, SameCache
  <1>. QED  BY <1>1, <1>2, <1>4, <1>5, <1>6, OneChain DEF Local

LEMMA AskKeeps ==
    ASSUME Inv, NEW c \in Clients, Ask(c)
    PROVE  Inv'
  <1>k. PICK a : a = asked[c]
    OBVIOUS
  <1>. USE <1>k
  <1>t. TypeOK /\ Local(c)
    BY DEF Inv
  <1>1. /\ cpc[c] = "idle" /\ cpc'[c] = "waiting" /\ a < MaxCommands /\ asked'[c] = a + 1
        /\ outcome'[c] = outcome[c] /\ replies'[c] = replies[c]
        /\ clientShut'[c] = clientShut[c] /\ handlerShut'[c] = handlerShut[c]
        /\ SameHandler(c) /\ SameCache(c) /\ \A d \in Clients : d # c => Same(d)
        /\ \/ /\ connected[c] /\ ~handlerShut[c] /\ connected'[c] = connected[c]
              /\ requests'[c] = Append(requests[c], a + 1)
           \/ /\ ~(connected[c] /\ ~handlerShut[c]) /\ connected'[c] \in {connected[c], FALSE}
              /\ requests'[c] = requests[c]
    <2>1. /\ cpc[c] = "idle" /\ cpc'[c] = "waiting" /\ a < MaxCommands /\ asked'[c] = a + 1
          /\ outcome'[c] = outcome[c] /\ replies'[c] = replies[c]
          /\ clientShut'[c] = clientShut[c] /\ handlerShut'[c] = handlerShut[c]
      BY <1>t DEF Ask, ClientAt, TypeOK
    <2>2. SameHandler(c) /\ SameCache(c)
      BY <1>t DEF Ask, handlerState, cacheLink, cacheState, SameHandler, SameCache
    <2>3. \A d \in Clients : d # c => SameClient(d) /\ SameChannel(d)
      BY <1>t DEF Ask, TypeOK, SameClient, SameChannel
    <2>4. \A d \in Clients : d # c => Same(d)
      BY <2>3 DEF Ask, handlerState, cacheLink, cacheState, Same, SameHandler, SameCache
    <2>5. \/ /\ connected[c] /\ ~handlerShut[c] /\ connected'[c] = connected[c]
             /\ requests'[c] = Append(requests[c], a + 1)
          \/ /\ ~(connected[c] /\ ~handlerShut[c]) /\ connected'[c] \in {connected[c], FALSE}
             /\ requests'[c] = requests[c]
      <3>1. CASE connected[c] /\ ~handlerShut[c]
        BY <3>1, <1>t DEF Ask, TypeOK
      <3>2. CASE ~(connected[c] /\ ~handlerShut[c])
        <4>1. connected'[c] \in {connected[c], FALSE}
          BY <3>2, <1>t DEF Ask, TypeOK
        <4>2. requests'[c] = requests[c]
          BY <3>2 DEF Ask
        <4>. QED  BY <3>2, <4>1, <4>2
      <3>. QED  BY <3>1, <3>2
    <2>. QED  BY <2>1, <2>2, <2>4, <2>5
  <1>2. a \in Nat /\ a + 1 \in Numbers /\ a + 1 \in 0..MaxCommands /\ held[c] \in Nat
    BY <1>1, <1>t, TypeAt, BoundIsNat DEF Numbers
  <1>3. requests[c] = <<>> /\ replies[c] = <<>> /\ ~Waiting(c) /\ Waiting(c)'
    BY <1>1, <1>t DEF Local, RequestInv, ReplyInv, Waiting
  <1>4. TypeOK'
    <2>1. asked' \in [Clients -> 0..MaxCommands] /\ query' \in [Clients -> BOOLEAN]
          /\ cpc' \in [Clients -> ClientStates] /\ connected' \in [Clients -> BOOLEAN]
      BY <1>2, <1>t DEF Ask, TypeOK, ClientStates
    <2>2. requests' \in [Clients -> Seq(Numbers)]
      <3>1. Append(requests[c], a + 1) \in Seq(Numbers)
        BY <1>2, <1>t, TypeAt, AppendProperties
      <3>. QED  BY <3>1, <1>t DEF Ask, TypeOK
    <2>. QED  BY <2>1, <2>2, <1>t DEF Ask, TypeOK, handlerState, cacheLink, cacheState
  <1>5. ClientInv(c)'
    BY <1>1, <1>2, <1>3, <1>t DEF Local, ClientInv, SameHandler
  <1>6. RequestInv(c)'
    <2>1. CASE requests'[c] = <<>>
      BY <2>1 DEF RequestInv
    <2>2. CASE requests'[c] # <<>>
      <3>1. /\ connected[c] /\ ~handlerShut[c] /\ connected'[c] /\ requests'[c] = <<a + 1>>
        BY <2>2, <1>1, <1>3, Singletons
      <3>2. hpc[c] \in {"queued", "orphan", "accepted", "loop", "drain"}
        BY <3>1, <1>1, <1>3, <1>t, TypeAt DEF Local, ClientInv, HandlerInv, HandlerStates
      <3>3. held[c] < a + 1
        BY <1>2, <1>t DEF Local, HandlerInv
      <3>. QED  BY <3>1, <3>2, <3>3, <1>1, <1>3 DEF RequestInv, SameHandler
    <2>. QED  BY <2>1, <2>2
  <1>7. ReplyInv(c)'
    BY <1>1, <1>3 DEF ReplyInv
  <1>8. HandlerInv(c)' /\ CacheInv(c)'
    <2>1. held[c] <= a + 1
      BY <1>2, <1>t DEF Local, HandlerInv
    <2>2. ~(hpc[c] \in {"send", "await", "late", "reply", "release"} /\ ~handlerShut[c] /\ ~clientShut[c])
      BY <1>3, <1>t DEF Local, HandlerInv
    <2>3. /\ CacheInv(c)' /\ (hpc[c] = "send" => Below(c, held[c])')
          /\ (hpc[c] = "reply" => Sound(c, answer[c])')
      BY <1>1, <1>t, BeyondClient
    <2>. QED  BY <2>1, <2>2, <2>3, <1>1, <1>t DEF Local, HandlerInv, SameHandler
  <1>9. OutcomeInv(c)'
    BY <1>1, <1>t, BeyondClient, OutcomeKeeps DEF Local
  <1>. QED  BY <1>1, <1>4, <1>5, <1>6, <1>7, <1>8, <1>9, OneChain DEF Local

\* The client gets one more outcome, and nothing is left for it on the channel.
LEMMA ResolveKeeps ==
    ASSUME Inv, NEW c \in Clients, Waiting(c), requests[c] = <<>>,
           NEW r \in Responses \cup ({"none"} \X Numbers), r[2] = asked[c], Sound(c, r),
           outcome' = [outcome EXCEPT ![c] = Append(@, r)],
           NEW w \in {"idle", "leaving"}, cpc' = [cpc EXCEPT ![c] = w],
           connected' \in {connected, [connected EXCEPT ![c] = FALSE]},
           clientShut' \in {clientShut, [clientShut EXCEPT ![c] = TRUE]},
           clientShut'[c] => ~connected'[c],
           hpc[c] # "none" /\ ~connected'[c] => handlerShut[c] \/ clientShut'[c],
           replies' \in [Clients -> Seq(Responses)],
           replies'[c] = <<>>, \A d \in Clients : d # c => replies'[d] = replies[d],
           hpc[c] \in {"send", "await", "late", "reply", "release"} => handlerShut[c] \/ clientShut'[c],
           UNCHANGED <<asked, query, requests, handlerShut, handlerState, cacheLink, cacheState>>
    PROVE  Inv'
  <1>t. TypeOK /\ Local(c)
    BY DEF Inv
  <1>1. /\ cpc'[c] = w /\ asked'[c] = asked[c] /\ requests'[c] = <<>> /\ handlerShut'[c] = handlerShut[c]
        /\ outcome'[c] = Append(outcome[c], r) /\ SameHandler(c) /\ SameCache(c)
        /\ \A d \in Clients : d # c => Same(d)
        /\ clientShut[c] => clientShut'[c]
        /\ clientShut'[c] \in BOOLEAN /\ connected'[c] \in BOOLEAN
        /\ connected'[c] => connected[c]
    BY <1>t DEF TypeOK, handlerState, cacheLink, cacheState,
                Same, SameClient, SameChannel, SameHandler, SameCache
  <1>3. /\ Len(outcome[c]) + 1 = asked[c]
        /\ connected[c] => hpc[c] # "none"
        /\ hpc[c] \in {"releaseCache", "closed"} => handlerShut[c]
    BY <1>t DEF Local, ClientInv
  <1>4. /\ (Dead(c) => Dead(c)') /\ ran'[c] = ran[c] /\ CacheInv(c)'
        /\ (hpc[c] = "send" => Below(c, held[c])') /\ (hpc[c] = "reply" => Sound(c, answer[c])')
    BY <1>1, <1>t, BeyondClient
  <1>5. /\ OutcomeInv(c)' /\ Len(outcome'[c]) = Len(outcome[c]) + 1
        /\ outcome'[c] \in Seq(Responses \cup ({"none"} \X Numbers))
    BY <1>1, <1>3, <1>4, <1>t, OutcomeGrows DEF Local
  <1>6. TypeOK'
    <2>1. outcome' \in [Clients -> Seq(Responses \cup ({"none"} \X Numbers))]
      BY <1>1, <1>5, <1>t DEF TypeOK
    <2>2. cpc' \in [Clients -> ClientStates] /\ connected' \in [Clients -> BOOLEAN]
          /\ clientShut' \in [Clients -> BOOLEAN]
      BY <1>t DEF TypeOK, ClientStates
    <2>. QED  BY <2>1, <2>2, <1>t DEF TypeOK, handlerState, cacheLink, cacheState
  <1>7. ~Waiting(c)' /\ cpc'[c] # "out" /\ cpc'[c] # "gone"
    BY <1>1 DEF Waiting
  <1>8. ClientInv(c)'
    BY <1>1, <1>3, <1>5, <1>7 DEF ClientInv, SameHandler
  <1>9. RequestInv(c)' /\ ReplyInv(c)'
    BY <1>1 DEF RequestInv, ReplyInv
  <1>10. HandlerInv(c)'
    BY <1>1, <1>4, <1>t DEF Local, HandlerInv, SameHandler
  <1>. QED  BY <1>1, <1>4, <1>5, <1>6, <1>8, <1>9, <1>10, OneChain DEF Local

LEMMA Unanswered ==
    ASSUME TypeOK, NEW c \in Clients, Local(c), Waiting(c)
    PROVE  /\ Nothing(c) \in Responses \cup ({"none"} \X Numbers)
           /\ Nothing(c)[2] = asked[c] /\ Sound(c, Nothing(c))
  <1>1. asked[c] \in Numbers
    BY TypeAt, BoundIsNat DEF Local, ClientInv, Numbers
  <1>. QED  BY <1>1 DEF Nothing, Sound

LEMMA ClientReadsKeeps ==
    ASSUME Inv, NEW c \in Clients, ClientReads(c)
    PROVE  Inv'
  <1>t. TypeOK /\ Local(c)
    BY DEF Inv
  <1>1. /\ connected \in [Clients -> BOOLEAN] /\ clientShut \in [Clients -> BOOLEAN]
        /\ replies \in [Clients -> Seq(Responses)] /\ <<>> \in Seq(Responses)
    BY <1>t, EmptySeq DEF TypeOK
  <1>2. /\ clientShut[c] => ~connected[c]
        /\ hpc[c] # "none" /\ ~connected[c] => handlerShut[c] \/ clientShut[c]
        /\ handlerShut[c] => requests[c] = <<>>
        /\ replies[c] # <<>> => requests[c] = <<>>
        /\ Waiting(c) /\ ~connected[c] => requests[c] = <<>>
    BY <1>t DEF Local, ClientInv, RequestInv, Waiting
  <1>3. CASE GetReply(c)
    <2>1. PICK r : r = Head(replies[c])
      OBVIOUS
    <2>2. /\ Waiting(c) /\ connected[c] /\ replies[c] # <<>>
          /\ outcome' = [outcome EXCEPT ![c] = Append(@, r)]
          /\ \E w \in {"idle", "leaving"} : cpc' = [cpc EXCEPT ![c] = w]
          /\ replies' = [replies EXCEPT ![c] = Tail(@)]
          /\ UNCHANGED <<asked, query, connected, clientShut, requests, handlerShut, handlerState,
                         cacheLink, cacheState>>
      BY <1>3, <2>1 DEF GetReply, Resolve, ClientAt, Waiting
    <2>3. /\ r \in Responses /\ r[2] = asked[c] /\ Sound(c, r) /\ Tail(replies[c]) = <<>>
          /\ hpc[c] \in {"loop", "drain", "release", "releaseCache", "closed"}
      <3>1. /\ replies[c] = <<replies[c][1]>> /\ replies[c][1][2] = asked[c] /\ Sound(c, replies[c][1])
            /\ hpc[c] \in {"loop", "drain", "release", "releaseCache", "closed"}
        BY <2>2, <1>t DEF Local, ReplyInv
      <3>2. r = replies[c][1] /\ Tail(replies[c]) = <<>>
        BY <2>1, <3>1, Singletons, Zenon
      <3>3. replies[c] \in Seq(Responses)
        BY <1>1
      <3>4. r \in Responses
        BY <2>1, <2>2, <3>3, HeadTailProperties
      <3>. QED  BY <3>1, <3>2, <3>4
    <2>4. hpc[c] = "release" => handlerShut[c] \/ clientShut[c]
      BY <2>2, <1>t DEF Local, HandlerInv
    <2>5. /\ replies' \in [Clients -> Seq(Responses)] /\ replies'[c] = <<>>
          /\ \A d \in Clients : d # c => replies'[d] = replies[d]
      BY <2>2, <2>3, <1>1
    <2>. QED  BY <2>2, <2>3, <2>4, <2>5, <1>2, ResolveKeeps
  <1>4. CASE ReplyEnds(c)
    <2>1. /\ Waiting(c) /\ connected[c] /\ replies[c] = <<>> /\ handlerShut[c]
          /\ outcome' = [outcome EXCEPT ![c] = Append(@, Nothing(c))]
          /\ \E w \in {"idle", "leaving"} : cpc' = [cpc EXCEPT ![c] = w]
          /\ connected' \in {connected, [connected EXCEPT ![c] = FALSE]}
          /\ UNCHANGED <<asked, query, replies, clientShut, requests, handlerShut, handlerState,
                         cacheLink, cacheState>>
      BY <1>4 DEF ReplyEnds, Resolve, ClientAt, Waiting, channel
    <2>2. clientShut'[c] => ~connected'[c]
      BY <2>1, <1>1, <1>2
    <2>3. PICK r : r = Nothing(c)
      OBVIOUS
    <2>. QED  BY <2>1, <2>2, <2>3, <1>1, <1>2, <1>t, Unanswered, ResolveKeeps
  <1>5. CASE GetObjectThrows(c)
    <2>1. /\ Waiting(c) /\ ~connected[c]
          /\ outcome' = [outcome EXCEPT ![c] = Append(@, Nothing(c))]
          /\ cpc' = [cpc EXCEPT ![c] = "leaving"]
          /\ UNCHANGED <<asked, query, connected, replies, clientShut, requests, handlerShut,
                         handlerState, cacheLink, cacheState>>
      BY <1>5 DEF GetObjectThrows, ClientAt, Waiting, channel
    <2>2. replies[c] = <<>>
      BY <2>1, <1>t DEF Local, ReplyInv
    <2>3. PICK r : r = Nothing(c)
      OBVIOUS
    <2>. QED  BY <2>1, <2>2, <2>3, <1>1, <1>2, <1>t, Unanswered, ResolveKeeps
  <1>6. CASE LateReply(c)
    <2>1. /\ Waiting(c) /\ (replies[c] # <<>> \/ handlerShut[c])
          /\ outcome' = [outcome EXCEPT ![c] = Append(@, Nothing(c))]
          /\ \E w \in {"idle", "leaving"} : cpc' = [cpc EXCEPT ![c] = w]
          /\ connected' = [connected EXCEPT ![c] = FALSE]
          /\ clientShut' = [clientShut EXCEPT ![c] = TRUE]
          /\ replies' = [replies EXCEPT ![c] = <<>>]
          /\ UNCHANGED <<asked, query, requests, handlerShut, handlerState, cacheLink, cacheState>>
      BY <1>6 DEF LateReply, Resolve, ClientAt, Waiting
    <2>2. /\ replies' \in [Clients -> Seq(Responses)] /\ replies'[c] = <<>>
          /\ \A d \in Clients : d # c => replies'[d] = replies[d]
          /\ clientShut'[c] /\ ~connected'[c]
      BY <2>1, <1>1
    <2>3. PICK r : r = Nothing(c)
      OBVIOUS
    <2>. QED  BY <2>1, <2>2, <2>3, <1>2, <1>t, Unanswered, ResolveKeeps
  <1>. QED  BY <1>3, <1>4, <1>5, <1>6 DEF ClientReads

LEMMA ReplyTimesOutKeeps ==
    ASSUME Inv, NEW c \in Clients, ReplyTimesOut(c)
    PROVE  Inv'
  <1>t. TypeOK /\ Local(c)
    BY DEF Inv
  <1>1. /\ cpc[c] = "waiting" /\ cpc'[c] = "late"
        /\ asked'[c] = asked[c] /\ outcome'[c] = outcome[c] /\ connected'[c] = connected[c]
        /\ SameChannel(c) /\ SameHandler(c) /\ SameCache(c)
        /\ \A d \in Clients : d # c => Same(d)
        /\ replies[c] = <<>>
    BY <1>t DEF ReplyTimesOut, ClientAt, TypeOK, channel, handlerState, cacheLink, cacheState,
                Same, SameClient, SameChannel, SameHandler, SameCache
  <1>2. TypeOK'
    BY <1>t DEF ReplyTimesOut, TypeOK, channel, handlerState, cacheLink, cacheState, ClientStates
  <1>3. Waiting(c) /\ Waiting(c)'
    BY <1>1 DEF Waiting
  <1>4. /\ (Dead(c) => Dead(c)') /\ ran'[c] = ran[c] /\ CacheInv(c)'
        /\ (hpc[c] = "send" => Below(c, held[c])') /\ (hpc[c] = "reply" => Sound(c, answer[c])')
    BY <1>1, <1>t, BeyondClient
  <1>5. ClientInv(c)' /\ RequestInv(c)' /\ ReplyInv(c)'
    BY <1>1, <1>3, <1>t DEF Local, ClientInv, RequestInv, ReplyInv, SameChannel, SameHandler
  <1>6. HandlerInv(c)'
    BY <1>1, <1>3, <1>4, <1>t DEF Local, HandlerInv, SameChannel, SameHandler
  <1>7. OutcomeInv(c)'
    BY <1>1, <1>4, <1>t, OutcomeKeeps DEF Local
  <1>. QED  BY <1>1, <1>2, <1>4, <1>5, <1>6, <1>7, OneChain DEF Local

LEMMA LeaveKeeps ==
    ASSUME Inv, NEW c \in Clients, Leave(c)
    PROVE  Inv'
  <1>t. TypeOK /\ Local(c)
    BY DEF Inv
  <1>1. /\ cpc[c] \notin {"out", "gone"} /\ cpc'[c] = "gone" /\ ~connected'[c] /\ clientShut'[c]
        /\ requests'[c] \in {requests[c], <<>>} /\ replies'[c] = <<>>
        /\ handlerShut'[c] = handlerShut[c] /\ asked'[c] = asked[c] /\ outcome'[c] = outcome[c]
        /\ SameHandler(c) /\ SameCache(c) /\ \A d \in Clients : d # c => Same(d)
    BY <1>t DEF Leave, TypeOK, handlerState, cacheLink, cacheState,
                Same, SameClient, SameChannel, SameHandler, SameCache
  <1>2. TypeOK'
    <2>1. <<>> \in Seq(Numbers) /\ <<>> \in Seq(Responses)
      BY EmptySeq
    <2>2. requests' \in [Clients -> Seq(Numbers)]
      BY <2>1, <1>t DEF Leave, TypeOK
    <2>3. replies' \in [Clients -> Seq(Responses)]
      BY <2>1, <1>t DEF Leave, TypeOK
    <2>4. /\ cpc' \in [Clients -> ClientStates]
          /\ connected' \in [Clients -> BOOLEAN] /\ clientShut' \in [Clients -> BOOLEAN]
      BY <1>t DEF Leave, TypeOK, ClientStates
    <2>. QED  BY <2>2, <2>3, <2>4, <1>t DEF Leave, TypeOK, handlerState, cacheLink, cacheState
  <1>3. ~Waiting(c)'
    BY <1>1 DEF Waiting
  <1>4. /\ (Dead(c) => Dead(c)') /\ ran'[c] = ran[c] /\ CacheInv(c)'
        /\ (hpc[c] = "send" => Below(c, held[c])') /\ (hpc[c] = "reply" => Sound(c, answer[c])')
    BY <1>1, <1>t, BeyondClient
  <1>5. ClientInv(c)' /\ RequestInv(c)' /\ ReplyInv(c)'
    BY <1>1, <1>3, <1>t DEF Local, ClientInv, RequestInv, ReplyInv, SameHandler
  <1>6. HandlerInv(c)'
    BY <1>1, <1>4, <1>t DEF Local, HandlerInv, SameHandler
  <1>7. OutcomeInv(c)'
    BY <1>1, <1>4, <1>t, OutcomeKeeps DEF Local
  <1>. QED  BY <1>1, <1>2, <1>4, <1>5, <1>6, <1>7, OneChain DEF Local

-----------------------------------------------------------------------------
(* The business server's handler.                                          *)

\* A step of the handler away from the cache server: a command or an answer that did
\* not come, or came too late.
LEMMA HandlerMoves ==
    ASSUME Inv, NEW c \in Clients, hpc[c] \in {"loop", "drain", "await"},
           NEW w \in {"drain", "late", "release"}, hpc' = [hpc EXCEPT ![c] = w],
           w = "drain" => hpc[c] = "loop", w = "late" => hpc[c] = "await",
           handlerShut' \in {handlerShut, [handlerShut EXCEPT ![c] = TRUE]},
           requests' \in {requests, [requests EXCEPT ![c] = <<>>]},
           handlerShut'[c] => requests'[c] = <<>>, w # "drain" => requests'[c] = <<>>,
           w = "release" /\ hpc[c] # "await" => handlerShut'[c] \/ clientShut[c],
           UNCHANGED <<clientState, replies, clientShut, held, answer, cacheLink, cacheState>>
    PROVE  Inv'
  <1>t. TypeOK /\ Local(c)
    BY DEF Inv
  <1>1. /\ SameClient(c) /\ SameCache(c) /\ hpc'[c] = w /\ held'[c] = held[c] /\ answer'[c] = answer[c]
        /\ replies'[c] = replies[c] /\ clientShut'[c] = clientShut[c]
        /\ requests'[c] \in {requests[c], <<>>} /\ (handlerShut[c] => handlerShut'[c])
        /\ \A d \in Clients : d # c => Same(d)
    BY <1>t DEF TypeOK, clientState, cacheLink, cacheState,
                Same, SameClient, SameChannel, SameHandler, SameCache
  <1>2. TypeOK'
    <2>1. <<>> \in Seq(Numbers)
      BY EmptySeq
    <2>2. /\ hpc' \in [Clients -> HandlerStates] /\ handlerShut' \in [Clients -> BOOLEAN]
          /\ requests' \in [Clients -> Seq(Numbers)]
      <3>1. /\ hpc \in [Clients -> HandlerStates] /\ handlerShut \in [Clients -> BOOLEAN]
            /\ requests \in [Clients -> Seq(Numbers)] /\ w \in HandlerStates
        BY <1>t DEF TypeOK, HandlerStates
      <3>2. hpc' \in [Clients -> HandlerStates]
        BY <3>1
      <3>3. handlerShut' \in [Clients -> BOOLEAN]
        BY <3>1
      <3>4. requests' \in [Clients -> Seq(Numbers)]
        BY <2>1, <3>1
      <3>. QED  BY <3>2, <3>3, <3>4
    <2>. QED  BY <2>2, <1>t DEF TypeOK, clientState, cacheLink, cacheState
  <1>3. (Waiting(c)' <=> Waiting(c)) /\ ran'[c] = ran[c] /\ (Dead(c) => Dead(c)')
    BY <1>1 DEF Waiting, Dead, SameClient, SameCache
  <1>4. ClientInv(c)' /\ RequestInv(c)'
    BY <1>1, <1>3, <1>t DEF Local, ClientInv, RequestInv, SameClient
  <1>5. ReplyInv(c)'
    <2>1. replies[c] # <<>> => Sound(c, replies[c][1])'
      BY <1>1, <1>3, <1>t DEF Local, ReplyInv, Sound, HasRun, Below
    <2>. QED  BY <2>1, <1>1, <1>3, <1>t DEF Local, ReplyInv, SameClient
  <1>6. HandlerInv(c)'
    BY <1>1, <1>3, <1>t DEF Local, HandlerInv, ReplyInv, SameClient
  <1>7. CacheInv(c)'
    BY <1>1, <1>t DEF Local, CacheInv, HasRun, Below, SameCache
  <1>8. OutcomeInv(c)'
    BY <1>1, <1>3, <1>t, OutcomeKeeps DEF Local, SameClient
  <1>. QED  BY <1>1, <1>2, <1>4, <1>5, <1>6, <1>7, <1>8, OneChain DEF Local

LEMMA AcceptKeeps ==
    ASSUME Inv, NEW c \in Clients, Accept(c)
    PROVE  Inv'
  <1>t. TypeOK /\ Local(c)
    BY DEF Inv
  <1>1. /\ SameClient(c) /\ SameChannel(c) /\ hpc[c] = "queued" /\ hpc'[c] \in {"accepted", "orphan"}
        /\ held'[c] = held[c] /\ answer'[c] = answer[c] /\ SameCache(c)
        /\ \A d \in Clients : d # c => Same(d)
    BY <1>t DEF Accept, HandlerAt, TypeOK, clientState, channel, cacheLink, cacheState,
                Same, SameClient, SameChannel, SameHandler, SameCache
  <1>2. TypeOK'
    BY <1>t DEF Accept, TypeOK, clientState, channel, cacheLink, cacheState, HandlerStates
  <1>3. (Waiting(c)' <=> Waiting(c)) /\ ~Dead(c)
    BY <1>1 DEF Waiting, Dead, SameClient
  <1>4. ClientInv(c)' /\ RequestInv(c)' /\ ReplyInv(c)'
    BY <1>1, <1>3, <1>t DEF Local, ClientInv, RequestInv, ReplyInv, SameClient, SameChannel
  <1>5. HandlerInv(c)'
    BY <1>1, <1>t DEF Local, HandlerInv, SameClient, SameChannel
  <1>6. CacheInv(c)'
    BY <1>1, <1>t DEF Local, CacheInv, HasRun, Below, SameCache
  <1>7. OutcomeInv(c)'
    BY <1>1, <1>3, <1>t, OutcomeKeeps DEF Local, SameClient, SameCache
  <1>. QED  BY <1>1, <1>2, <1>4, <1>5, <1>6, <1>7, OneChain DEF Local

LEMMA ConnectWithCacheKeeps ==
    ASSUME Inv, NEW c \in Clients, ConnectWithCache(c)
    PROVE  Inv'
  <1>t. TypeOK /\ Local(c)
    BY DEF Inv
  <1>1. /\ SameClient(c) /\ SameChannel(c) /\ hpc[c] = "accepted" /\ hpc'[c] = "loop"
        /\ held'[c] = held[c] /\ answer'[c] = answer[c] /\ link'[c] \in LinkStates
        /\ toCache'[c] = toCache[c] /\ fromCache'[c] = fromCache[c]
        /\ xpc'[c] = xpc[c] /\ xcmd'[c] = xcmd[c] /\ ran'[c] = ran[c]
        /\ \A d \in Clients : d # c => Same(d)
    BY <1>t DEF ConnectWithCache, HandlerAt, TypeOK, clientState, channel, cacheState, LinkStates,
                Same, SameClient, SameChannel, SameHandler, SameCache
  <1>2. TypeOK'
    BY <1>t DEF ConnectWithCache, TypeOK, clientState, channel, cacheState, HandlerStates, LinkStates
  <1>3. (Waiting(c)' <=> Waiting(c)) /\ ~Dead(c)
    BY <1>1 DEF Waiting, Dead, SameClient
  <1>4. ClientInv(c)' /\ RequestInv(c)' /\ ReplyInv(c)'
    BY <1>1, <1>3, <1>t DEF Local, ClientInv, RequestInv, ReplyInv, SameClient, SameChannel
  <1>5. HandlerInv(c)'
    BY <1>1, <1>t DEF Local, HandlerInv, SameClient
  <1>6. CacheInv(c)'
    BY <1>1, <1>t DEF Local, CacheInv, HasRun, Below
  <1>7. OutcomeInv(c)'
    BY <1>1, <1>3, <1>t, OutcomeKeeps DEF Local, SameClient
  <1>. QED  BY <1>1, <1>2, <1>4, <1>5, <1>6, <1>7, OneChain DEF Local

LEMMA ReceiveCommandKeeps ==
    ASSUME Inv, NEW c \in Clients, ReceiveCommand(c)
    PROVE  Inv'
  <1>t. TypeOK /\ Local(c)
    BY DEF Inv
  <1>1. /\ SameClient(c) /\ SameCache(c) /\ hpc[c] = "loop" /\ hpc'[c] = "send"
        /\ ~handlerShut[c] /\ requests[c] # <<>> /\ held'[c] = Head(requests[c])
        /\ requests'[c] = Tail(requests[c]) /\ answer'[c] = answer[c]
        /\ replies'[c] = replies[c] /\ clientShut'[c] = clientShut[c] /\ handlerShut'[c] = handlerShut[c]
        /\ \A d \in Clients : d # c => Same(d)
    BY <1>t DEF ReceiveCommand, HandlerAt, TypeOK, clientState, cacheLink, cacheState,
                Same, SameClient, SameChannel, SameHandler, SameCache
  <1>2. /\ requests[c] = <<asked[c]>> /\ held[c] < asked[c] /\ replies[c] = <<>>
        /\ Waiting(c) \/ clientShut[c]
    BY <1>1, <1>t DEF Local, RequestInv, ClientInv
  <1>3. held'[c] = asked[c] /\ requests'[c] = <<>>
    BY <1>1, <1>2, Singletons, Zenon
  <1>4. /\ asked[c] \in Nat /\ held[c] \in Nat /\ asked[c] \in Numbers /\ asked[c] \in 0..MaxCommands
        /\ \A i \in 1..Len(ran[c]) : ran[c][i] \in Nat
    BY <1>2, <1>t, TypeAt, BoundIsNat DEF Numbers
  <1>5. TypeOK'
    <2>1. <<>> \in Seq(Numbers)
      BY EmptySeq
    <2>2. held' \in [Clients -> 0..MaxCommands]
      <3>1. held' = [held EXCEPT ![c] = asked[c]]
        BY <1>1, <1>3, <1>t DEF ReceiveCommand, TypeOK
      <3>. QED  BY <3>1, <1>4, <1>t DEF TypeOK
    <2>3. requests' \in [Clients -> Seq(Numbers)]
      <3>1. requests' = [requests EXCEPT ![c] = <<>>]
        BY <1>1, <1>3, <1>t DEF ReceiveCommand, TypeOK
      <3>. QED  BY <3>1, <2>1, <1>t DEF TypeOK
    <2>4. hpc' \in [Clients -> HandlerStates]
      BY <1>t DEF ReceiveCommand, TypeOK, HandlerStates
    <2>. QED  BY <2>2, <2>3, <2>4, <1>t DEF ReceiveCommand, TypeOK, clientState, cacheLink, cacheState
  <1>6. (Waiting(c)' <=> Waiting(c)) /\ (Dead(c) => Dead(c)') /\ ran'[c] = ran[c]
    BY <1>1 DEF Waiting, Dead, SameClient, SameCache
  <1>7. Below(c, asked[c]) /\ \A i \in 1..Len(ran[c]) : ran[c][i] <= asked[c]
    <2>1. \A i \in 1..Len(ran[c]) : ran[c][i] <= held[c]
      BY <1>t DEF Local, CacheInv
    <2>. QED  BY <2>1, <1>2, <1>4 DEF Below
  <1>8. ClientInv(c)' /\ RequestInv(c)' /\ ReplyInv(c)'
    BY <1>1, <1>2, <1>3, <1>6, <1>t DEF Local, ClientInv, RequestInv, ReplyInv, SameClient
  <1>9. HandlerInv(c)'
    <2>1. Below(c, held[c])'
      BY <1>3, <1>6, <1>7 DEF Below
    <2>2. held'[c] <= asked'[c] /\ held'[c] \in Numbers /\ held'[c] = asked'[c]
      BY <1>1, <1>3, <1>4 DEF SameClient
    <2>3. clientShut'[c] \/ Waiting(c)'
      BY <1>1, <1>2, <1>6
    <2>. QED  BY <2>1, <2>2, <2>3, <1>1, <1>2 DEF HandlerInv
  <1>10. CacheInv(c)'
    BY <1>1, <1>3, <1>6, <1>7, <1>t DEF Local, CacheInv, SameCache
  <1>11. OutcomeInv(c)'
    BY <1>1, <1>6, <1>t, OutcomeKeeps DEF Local, SameClient
  <1>. QED  BY <1>1, <1>5, <1>8, <1>9, <1>10, <1>11, OneChain DEF Local

LEMMA SendCommandKeeps ==
    ASSUME Inv, NEW c \in Clients, SendCommand(c)
    PROVE  Inv'
  <1>k. PICK h : h = held[c]
    OBVIOUS
  <1>. USE <1>k
  <1>t. TypeOK /\ Local(c)
    BY DEF Inv
  <1>1. /\ SameClient(c) /\ SameChannel(c) /\ hpc[c] = "send" /\ held'[c] = h
        /\ fromCache'[c] = fromCache[c] /\ xpc'[c] = xpc[c] /\ xcmd'[c] = xcmd[c] /\ ran'[c] = ran[c]
        /\ \A d \in Clients : d # c => Same(d)
        /\ \/ /\ link[c] \in {"open", "broken"} /\ hpc'[c] = "await" /\ link'[c] = link[c]
              /\ toCache'[c] \in {toCache[c], Append(toCache[c], h)} /\ answer'[c] = answer[c]
           \/ /\ link'[c] = "none" /\ hpc'[c] = "reply" /\ toCache'[c] = toCache[c]
              /\ answer'[c] = <<"fallback", h>>
    BY <1>t DEF SendCommand, HandlerAt, TypeOK, clientState, channel, cacheState,
                Same, SameClient, SameChannel, SameHandler, SameCache
  <1>2. /\ h \in Numbers /\ Below(c, h) /\ toCache[c] = <<>> /\ fromCache[c] = <<>>
        /\ xpc[c] \notin {"busy", "reply"} /\ requests[c] = <<>> /\ replies[c] = <<>>
    BY <1>1, <1>t DEF Local, HandlerInv, CacheInv, RequestInv, ReplyInv
  <1>3. toCache'[c] \in {<<>>, <<h>>}
    BY <1>1, <1>2, Singletons, Zenon
  <1>4. TypeOK'
    <2>1. Append(toCache[c], h) \in Seq(Numbers)
      BY <1>2, <1>t, TypeAt, AppendProperties
    <2>2. <<"fallback", h>> \in Responses
      BY <1>2 DEF Responses, Numbers
    <2>3. /\ toCache' \in [Clients -> Seq(Numbers)] /\ answer' \in [Clients -> Responses \cup {NoResponse}]
          /\ hpc' \in [Clients -> HandlerStates] /\ link' \in [Clients -> LinkStates]
      <3>1. /\ toCache \in [Clients -> Seq(Numbers)] /\ answer \in [Clients -> Responses \cup {NoResponse}]
            /\ hpc \in [Clients -> HandlerStates] /\ link \in [Clients -> LinkStates]
            /\ {"await", "reply"} \subseteq HandlerStates /\ "none" \in LinkStates
        BY <1>t DEF TypeOK, HandlerStates, LinkStates
      <3>2. /\ toCache' = toCache \/ \E q \in Seq(Numbers) : toCache' = [toCache EXCEPT ![c] = q]
            /\ answer' = answer \/ \E r \in Responses : answer' = [answer EXCEPT ![c] = r]
            /\ \E w \in {"await", "reply"} : hpc' = [hpc EXCEPT ![c] = w]
            /\ link' = link \/ link' = [link EXCEPT ![c] = "none"]
        <4>1. toCache[c] \in Seq(Numbers)
          BY <3>1
        <4>. QED  BY <2>1, <2>2, <4>1 DEF SendCommand
      <3>3. toCache' \in [Clients -> Seq(Numbers)] /\ link' \in [Clients -> LinkStates]
        BY <3>1, <3>2
      <3>4. answer' \in [Clients -> Responses \cup {NoResponse}] /\ hpc' \in [Clients -> HandlerStates]
        BY <3>1, <3>2
      <3>. QED  BY <3>3, <3>4
    <2>. QED  BY <2>3, <1>t DEF SendCommand, TypeOK, clientState, channel, cacheState
  <1>5. /\ Waiting(c)' <=> Waiting(c)
        /\ hpc'[c] = "reply" => Dead(c)'
        /\ Dead(c) => Dead(c)'
        /\ Below(c, h)'
    BY <1>1, <1>2 DEF Waiting, Dead, Below, SameClient
  <1>6. ClientInv(c)' /\ RequestInv(c)' /\ ReplyInv(c)'
    BY <1>1, <1>2, <1>5, <1>t DEF Local, ClientInv, RequestInv, ReplyInv, SameClient, SameChannel
  <1>7. HandlerInv(c)'
    <2>1. hpc'[c] = "reply" => /\ answer'[c] \in Responses /\ answer'[c][2] = h
                               /\ Sound(c, answer[c])'
      <3>. SUFFICES ASSUME hpc'[c] = "reply"
                    PROVE  answer'[c] \in Responses /\ answer'[c][2] = h /\ Sound(c, answer[c])'
        OBVIOUS
      <3>1. answer'[c] = <<"fallback", h>> /\ <<"fallback", h>> \in Responses
        BY <1>1, <1>2 DEF Responses, Numbers
      <3>. QED  BY <3>1, <1>5 DEF Sound, Below
    <2>. QED  BY <2>1, <1>1, <1>2, <1>5, <1>t DEF Local, HandlerInv, SameClient, SameChannel
  <1>8. CacheInv(c)'
    <2>1. hpc'[c] = "reply" => toCache'[c] = <<>>
      BY <1>1, <1>2
    <2>2. hpc'[c] = "await" => link'[c] # "none"
      BY <1>1
    <2>. QED  BY <2>1, <2>2, <1>1, <1>2, <1>3, <1>5, <1>t DEF Local, CacheInv, HasRun, Below
  <1>9. OutcomeInv(c)'
    BY <1>1, <1>5, <1>t, OutcomeKeeps DEF Local, SameClient
  <1>. QED  BY <1>1, <1>4, <1>6, <1>7, <1>8, <1>9, OneChain DEF Local

LEMMA ReceiveAnswerKeeps ==
    ASSUME Inv, NEW c \in Clients, ReceiveAnswer(c)
    PROVE  Inv'
  <1>k. PICK h, r : h = held[c] /\ r = Head(fromCache[c])
    OBVIOUS
  <1>. USE <1>k
  <1>t. TypeOK /\ Local(c)
    BY DEF Inv
  <1>1. /\ SameClient(c) /\ SameChannel(c) /\ hpc[c] = "await" /\ hpc'[c] = "reply" /\ held'[c] = h
        /\ fromCache[c] # <<>> /\ answer'[c] = r /\ fromCache'[c] = Tail(fromCache[c])
        /\ link'[c] = link[c] /\ toCache'[c] = toCache[c]
        /\ xpc'[c] = xpc[c] /\ xcmd'[c] = xcmd[c] /\ ran'[c] = ran[c]
        /\ \A d \in Clients : d # c => Same(d)
    BY <1>t DEF ReceiveAnswer, HandlerAt, TypeOK, clientState, channel, cacheState,
                Same, SameClient, SameChannel, SameHandler, SameCache
  <1>2. /\ fromCache[c] = << <<"answer", h>> >> /\ HasRun(c, h) /\ h \in Numbers
        /\ toCache[c] = <<>> /\ xpc[c] \notin {"busy", "reply"}
        /\ requests[c] = <<>> /\ replies[c] = <<>>
    BY <1>1, <1>t DEF Local, HandlerInv, CacheInv, RequestInv, ReplyInv
  <1>3. r = <<"answer", h>> /\ fromCache'[c] = <<>> /\ r \in Responses
    <2>1. r = <<"answer", h>> /\ fromCache'[c] = <<>>
      BY <1>1, <1>2, Singletons, Zenon
    <2>. QED  BY <2>1, <1>2 DEF Responses, Numbers
  <1>4. TypeOK'
    <2>1. /\ fromCache \in [Clients -> Seq(Responses)] /\ answer \in [Clients -> Responses \cup {NoResponse}]
          /\ hpc \in [Clients -> HandlerStates] /\ <<>> \in Seq(Responses) /\ "reply" \in HandlerStates
      BY <1>t, EmptySeq DEF TypeOK, HandlerStates
    <2>2. /\ fromCache' = [fromCache EXCEPT ![c] = <<>>] /\ answer' = [answer EXCEPT ![c] = r]
          /\ hpc' = [hpc EXCEPT ![c] = "reply"]
      BY <2>1, <1>1, <1>3 DEF ReceiveAnswer
    <2>3. /\ fromCache' \in [Clients -> Seq(Responses)] /\ answer' \in [Clients -> Responses \cup {NoResponse}]
          /\ hpc' \in [Clients -> HandlerStates]
      BY <2>1, <2>2, <1>3
    <2>. QED  BY <2>3, <1>t DEF ReceiveAnswer, TypeOK, clientState, channel, cacheState
  <1>5. /\ Waiting(c)' <=> Waiting(c)
        /\ Dead(c) => Dead(c)'
        /\ HasRun(c, h)'
    BY <1>1, <1>2 DEF Waiting, Dead, HasRun, SameClient
  <1>6. ClientInv(c)' /\ RequestInv(c)' /\ ReplyInv(c)'
    BY <1>1, <1>2, <1>5, <1>t DEF Local, ClientInv, RequestInv, ReplyInv, SameClient, SameChannel
  <1>7. HandlerInv(c)'
    <2>1. answer'[c] \in Responses /\ answer'[c][2] = h /\ Sound(c, answer[c])'
      BY <1>1, <1>3, <1>5 DEF Sound, HasRun
    <2>. QED  BY <2>1, <1>1, <1>2, <1>5, <1>t DEF Local, HandlerInv, SameClient, SameChannel
  <1>8. CacheInv(c)'
    BY <1>1, <1>2, <1>3, <1>t DEF Local, CacheInv
  <1>9. OutcomeInv(c)'
    BY <1>1, <1>5, <1>t, OutcomeKeeps DEF Local, SameClient
  <1>. QED  BY <1>1, <1>4, <1>6, <1>7, <1>8, <1>9, OneChain DEF Local

LEMMA DropLateAnswerKeeps ==
    ASSUME Inv, NEW c \in Clients, DropLateAnswer(c)
    PROVE  Inv'
  <1>t. TypeOK /\ Local(c)
    BY DEF Inv
  <1>1. /\ SameClient(c) /\ SameChannel(c) /\ hpc[c] = "late" /\ hpc'[c] = "release"
        /\ held'[c] = held[c] /\ answer'[c] = answer[c]
        /\ fromCache'[c] = <<>> /\ toCache'[c] = toCache[c]
        /\ xpc'[c] = xpc[c] /\ xcmd'[c] = xcmd[c] /\ ran'[c] = ran[c]
        /\ \A d \in Clients : d # c => Same(d)
    BY <1>t DEF DropLateAnswer, HandlerAt, TypeOK, clientState, channel, cacheState,
                Same, SameClient, SameChannel, SameHandler, SameCache
  <1>2. TypeOK'
    <2>1. /\ fromCache \in [Clients -> Seq(Responses)] /\ link \in [Clients -> LinkStates]
          /\ hpc \in [Clients -> HandlerStates] /\ <<>> \in Seq(Responses)
          /\ "release" \in HandlerStates /\ "shut" \in LinkStates
      BY <1>t, EmptySeq DEF TypeOK, HandlerStates, LinkStates
    <2>2. /\ fromCache' \in [Clients -> Seq(Responses)] /\ link' \in [Clients -> LinkStates]
          /\ hpc' \in [Clients -> HandlerStates]
      BY <2>1 DEF DropLateAnswer
    <2>. QED  BY <2>2, <1>t DEF DropLateAnswer, TypeOK, clientState, channel, cacheState
  <1>3. ~Dead(c) /\ (Waiting(c)' <=> Waiting(c)) /\ requests[c] = <<>> /\ replies[c] = <<>>
    BY <1>1, <1>t DEF Local, CacheInv, RequestInv, ReplyInv, Dead, Waiting, SameClient
  <1>4. ClientInv(c)' /\ RequestInv(c)' /\ ReplyInv(c)'
    BY <1>1, <1>3, <1>t DEF Local, ClientInv, RequestInv, ReplyInv, SameClient, SameChannel
  <1>5. HandlerInv(c)'
    BY <1>1, <1>3, <1>t DEF Local, HandlerInv, SameClient, SameChannel
  <1>6. CacheInv(c)'
    BY <1>1, <1>t DEF Local, CacheInv, HasRun, Below
  <1>7. OutcomeInv(c)'
    BY <1>1, <1>3, <1>t, OutcomeKeeps DEF Local, SameClient
  <1>. QED  BY <1>1, <1>2, <1>4, <1>5, <1>6, <1>7, OneChain DEF Local

LEMMA ReplyKeeps ==
    ASSUME Inv, NEW c \in Clients, Reply(c)
    PROVE  Inv'
  <1>k. PICK r : r = answer[c]
    OBVIOUS
  <1>. USE <1>k
  <1>t. TypeOK /\ Local(c)
    BY DEF Inv
  <1>1. /\ SameClient(c) /\ SameCache(c) /\ hpc[c] = "reply" /\ held'[c] = held[c] /\ answer'[c] = r
        /\ requests'[c] = requests[c]
        /\ clientShut'[c] = clientShut[c] /\ handlerShut'[c] = handlerShut[c]
        /\ \A d \in Clients : d # c => Same(d)
        /\ \/ handlerShut[c] /\ hpc'[c] = "release" /\ replies'[c] = replies[c]
           \/ /\ ~handlerShut[c] /\ hpc'[c] = "loop"
              /\ replies'[c] = IF clientShut[c] THEN replies[c] ELSE Append(replies[c], r)
    BY <1>t DEF Reply, HandlerAt, TypeOK, clientState, cacheLink, cacheState,
                Same, SameClient, SameChannel, SameHandler, SameCache
  <1>2. /\ r \in Responses /\ r[2] = held[c] /\ Sound(c, r)
        /\ requests[c] = <<>> /\ replies[c] = <<>>
        /\ ~handlerShut[c] /\ ~clientShut[c] => held[c] = asked[c] /\ Waiting(c) /\ connected[c]
    BY <1>1, <1>t DEF Local, ClientInv, HandlerInv, RequestInv, ReplyInv
  <1>3. replies'[c] = <<>> \/ (~handlerShut[c] /\ ~clientShut[c] /\ replies'[c] = <<r>>)
    BY <1>1, <1>2, Singletons, Zenon
  <1>4. TypeOK'
    <2>1. /\ replies \in [Clients -> Seq(Responses)] /\ hpc \in [Clients -> HandlerStates]
          /\ {"loop", "release"} \subseteq HandlerStates
      BY <1>t DEF TypeOK, HandlerStates
    <2>2. replies[c] \in Seq(Responses) /\ Append(replies[c], r) \in Seq(Responses)
      BY <2>1, <1>2, AppendProperties
    <2>3. hpc' \in [Clients -> HandlerStates]
      BY <2>1 DEF Reply
    <2>4. replies' \in [Clients -> Seq(Responses)]
      <3>1. replies' = replies \/ \E q \in Seq(Responses) : replies' = [replies EXCEPT ![c] = q]
        BY <2>2 DEF Reply
      <3>. QED  BY <2>1, <3>1
    <2>. QED  BY <2>3, <2>4, <1>t DEF Reply, TypeOK, clientState, cacheLink, cacheState
  <1>5. /\ Waiting(c)' <=> Waiting(c)
        /\ Dead(c) => Dead(c)'
        /\ ran'[c] = ran[c]
    BY <1>1 DEF Waiting, Dead, SameClient, SameCache
  <1>6. ClientInv(c)' /\ RequestInv(c)'
    BY <1>1, <1>2, <1>5, <1>t DEF Local, ClientInv, RequestInv, SameClient
  <1>7. ReplyInv(c)'
    <2>1. CASE replies'[c] = <<>>
      BY <2>1 DEF ReplyInv
    <2>2. CASE ~handlerShut[c] /\ ~clientShut[c] /\ replies'[c] = <<r>>
      <3>1. replies'[c][1] = r
        BY <2>2, Singletons, Zenon
      <3>2. Sound(c, r)'
        BY <1>2, <1>5, SoundKeeps
      <3>3. Sound(c, replies[c][1])'
        BY <3>1, <3>2 DEF Sound, HasRun, Below
      <3>4. replies'[c] = <<replies'[c][1]>> /\ replies'[c][1][2] = asked'[c]
        BY <3>1, <2>2, <1>1, <1>2 DEF SameClient
      <3>5. Waiting(c)' /\ connected'[c] /\ hpc'[c] = "loop"
        BY <2>2, <1>1, <1>2, <1>5 DEF SameClient
      <3>. QED  BY <3>3, <3>4, <3>5 DEF ReplyInv
    <2>. QED  BY <2>1, <2>2, <1>3
  <1>8. HandlerInv(c)'
    BY <1>1, <1>t DEF Local, HandlerInv, SameClient
  <1>9. CacheInv(c)'
    BY <1>1, <1>t DEF Local, CacheInv, HasRun, Below, SameCache
  <1>10. OutcomeInv(c)'
    BY <1>1, <1>5, <1>t, OutcomeKeeps DEF Local, SameClient
  <1>. QED  BY <1>1, <1>4, <1>6, <1>7, <1>8, <1>9, <1>10, OneChain DEF Local

\* Release, and the timer that closes the channel under the handler.
LEMMA CloseChannelKeeps ==
    ASSUME Inv, NEW c \in Clients, CloseChannel(c) \/ TimerClosesClient(c)
    PROVE  Inv'
  <1>t. TypeOK /\ Local(c)
    BY DEF Inv
  <1>1. /\ SameClient(c) /\ SameCache(c) /\ held'[c] = held[c] /\ answer'[c] = answer[c]
        /\ requests'[c] = <<>> /\ handlerShut'[c] /\ clientShut'[c] = clientShut[c]
        /\ replies'[c] \in {replies[c], <<>>}
        /\ \A d \in Clients : d # c => Same(d)
        /\ \/ hpc[c] = "release" /\ hpc'[c] = "releaseCache"
           \/ hpc'[c] = hpc[c]
    <2>1. CASE CloseChannel(c)
      BY <2>1, <1>t DEF CloseChannel, HandlerAt, TypeOK, clientState, cacheLink, cacheState,
                        Same, SameClient, SameChannel, SameHandler, SameCache
    <2>2. CASE TimerClosesClient(c)
      BY <2>2, <1>t DEF TimerClosesClient, TypeOK, clientState, handlerState, cacheLink, cacheState,
                        Same, SameClient, SameChannel, SameHandler, SameCache
    <2>. QED  BY <2>1, <2>2
  <1>2. TypeOK'
    <2>1. /\ requests \in [Clients -> Seq(Numbers)] /\ replies \in [Clients -> Seq(Responses)]
          /\ handlerShut \in [Clients -> BOOLEAN] /\ hpc \in [Clients -> HandlerStates]
          /\ <<>> \in Seq(Numbers) /\ <<>> \in Seq(Responses) /\ "releaseCache" \in HandlerStates
      BY <1>t, EmptySeq DEF TypeOK, HandlerStates
    <2>2. /\ requests' = [requests EXCEPT ![c] = <<>>] /\ handlerShut' = [handlerShut EXCEPT ![c] = TRUE]
          /\ replies' \in {replies, [replies EXCEPT ![c] = <<>>]}
          /\ hpc' = hpc \/ hpc' = [hpc EXCEPT ![c] = "releaseCache"]
          /\ UNCHANGED <<clientState, clientShut, held, answer, cacheLink, cacheState>>
      BY DEF CloseChannel, TimerClosesClient, handlerState
    <2>3. requests' \in [Clients -> Seq(Numbers)] /\ handlerShut' \in [Clients -> BOOLEAN]
      BY <2>1, <2>2
    <2>4. replies' \in [Clients -> Seq(Responses)]
      BY <2>1, <2>2
    <2>5. hpc' \in [Clients -> HandlerStates]
      BY <2>1, <2>2
    <2>. QED  BY <2>2, <2>3, <2>4, <2>5, <1>t DEF TypeOK, clientState, cacheLink, cacheState
  <1>3. (Waiting(c)' <=> Waiting(c)) /\ (Dead(c) => Dead(c)') /\ ran'[c] = ran[c]
    BY <1>1 DEF Waiting, Dead, SameClient, SameCache
  <1>4. ClientInv(c)' /\ RequestInv(c)'
    BY <1>1, <1>3, <1>t DEF Local, ClientInv, RequestInv, SameClient
  <1>5. ReplyInv(c)'
    <2>1. replies[c] # <<>> => Sound(c, replies[c][1])
      BY <1>t DEF Local, ReplyInv
    <2>2. replies'[c] # <<>> => Sound(c, replies[c][1])'
      BY <2>1, <1>1, <1>3 DEF Sound, HasRun, Below
    <2>. QED  BY <2>2, <1>1, <1>3, <1>t DEF Local, ReplyInv, SameClient
  <1>6. HandlerInv(c)'
    <2>1. /\ hpc'[c] = "send" => Below(c, held[c])'
          /\ hpc'[c] = "reply" => Sound(c, answer[c])'
      BY <1>1, <1>3, <1>t DEF Local, HandlerInv, Sound, HasRun, Below
    <2>. QED  BY <2>1, <1>1, <1>3, <1>t DEF Local, HandlerInv, SameClient
  <1>7. CacheInv(c)'
    BY <1>1, <1>t DEF Local, CacheInv, HasRun, Below, SameCache
  <1>8. OutcomeInv(c)'
    BY <1>1, <1>3, <1>t, OutcomeKeeps DEF Local, SameClient
  <1>. QED  BY <1>1, <1>2, <1>4, <1>5, <1>6, <1>7, <1>8, OneChain DEF Local

LEMMA CloseCacheChannelKeeps ==
    ASSUME Inv, NEW c \in Clients, CloseCacheChannel(c)
    PROVE  Inv'
  <1>t. TypeOK /\ Local(c)
    BY DEF Inv
  <1>1. /\ SameClient(c) /\ SameChannel(c) /\ hpc[c] = "releaseCache" /\ hpc'[c] = "closed"
        /\ held'[c] = held[c] /\ answer'[c] = answer[c]
        /\ link[c] = "none" => link'[c] = "none"
        /\ toCache'[c] \in {toCache[c], <<>>} /\ fromCache'[c] = <<>>
        /\ xpc'[c] = xpc[c] /\ xcmd'[c] = xcmd[c] /\ ran'[c] = ran[c]
        /\ \A d \in Clients : d # c => Same(d)
    BY <1>t DEF CloseCacheChannel, HandlerAt, TypeOK, clientState, channel, cacheState,
                Same, SameClient, SameChannel, SameHandler, SameCache
  <1>2. TypeOK'
    <2>1. /\ toCache \in [Clients -> Seq(Numbers)] /\ fromCache \in [Clients -> Seq(Responses)]
          /\ link \in [Clients -> LinkStates] /\ hpc \in [Clients -> HandlerStates]
          /\ <<>> \in Seq(Numbers) /\ <<>> \in Seq(Responses)
          /\ "closed" \in HandlerStates /\ {"none", "shut"} \subseteq LinkStates
      BY <1>t, EmptySeq DEF TypeOK, HandlerStates, LinkStates
    <2>2. hpc' \in [Clients -> HandlerStates] /\ link' \in [Clients -> LinkStates]
      BY <2>1 DEF CloseCacheChannel
    <2>3. toCache' \in [Clients -> Seq(Numbers)]
      BY <2>1 DEF CloseCacheChannel
    <2>4. fromCache' \in [Clients -> Seq(Responses)]
      BY <2>1 DEF CloseCacheChannel
    <2>. QED  BY <2>2, <2>3, <2>4, <1>t DEF CloseCacheChannel, TypeOK, clientState, channel, cacheState
  <1>3. (Waiting(c)' <=> Waiting(c)) /\ (Dead(c) => Dead(c)')
    BY <1>1 DEF Waiting, Dead, SameClient
  <1>4. ClientInv(c)' /\ RequestInv(c)'
    BY <1>1, <1>3, <1>t DEF Local, ClientInv, RequestInv, SameClient, SameChannel
  <1>5. ReplyInv(c)'
    <2>1. replies[c] # <<>> => Sound(c, replies[c][1])
      BY <1>t DEF Local, ReplyInv
    <2>2. replies'[c] # <<>> => Sound(c, replies[c][1])'
      BY <2>1, <1>1, <1>3 DEF Sound, HasRun, Below, SameChannel
    <2>. QED  BY <2>2, <1>1, <1>3, <1>t DEF Local, ReplyInv, SameClient, SameChannel
  <1>6. HandlerInv(c)'
    BY <1>1, <1>t DEF Local, HandlerInv, SameClient
  <1>7. CacheInv(c)'
    BY <1>1, <1>t DEF Local, CacheInv, HasRun, Below
  <1>8. OutcomeInv(c)'
    BY <1>1, <1>3, <1>t, OutcomeKeeps DEF Local, SameClient
  <1>. QED  BY <1>1, <1>2, <1>4, <1>5, <1>6, <1>7, <1>8, OneChain DEF Local

LEMMA HandlerKeeps ==
    ASSUME Inv, NEW c \in Clients,
           Handler(c) \/ CommandTimesOut(c) \/ AnswerTimesOut(c) \/ TimerClosesClient(c)
    PROVE  Inv'
  <1>t. TypeOK /\ Local(c)
    BY DEF Inv
  <1>1. requests \in [Clients -> Seq(Numbers)]
    BY <1>t DEF TypeOK
  <1>2. handlerShut[c] \/ hpc[c] = "await" => requests[c] = <<>>
    BY <1>t DEF Local, RequestInv
  <1>3. CASE CommandEnds(c)
    BY <1>2, <1>3, HandlerMoves DEF CommandEnds, HandlerAt, channel
  <1>4. CASE CommandTimesOut(c)
    BY <1>2, <1>4, HandlerMoves DEF CommandTimesOut, HandlerAt, channel
  <1>5. CASE DropLateCommand(c)
    <2>1. requests'[c] = <<>> /\ handlerShut' = [handlerShut EXCEPT ![c] = TRUE] /\ handlerShut'[c]
      BY <1>1, <1>5, <1>t DEF DropLateCommand, TypeOK
    <2>. QED  BY <2>1, <1>5, HandlerMoves DEF DropLateCommand, HandlerAt
  <1>6. CASE AnswerEnds(c)
    BY <1>2, <1>6, HandlerMoves DEF AnswerEnds, HandlerAt, channel
  <1>7. CASE AnswerTimesOut(c)
    BY <1>2, <1>7, HandlerMoves DEF AnswerTimesOut, HandlerAt, channel
  <1>. QED  BY <1>3, <1>4, <1>5, <1>6, <1>7, ConnectWithCacheKeeps, ReceiveCommandKeeps,
               SendCommandKeeps, ReceiveAnswerKeeps, DropLateAnswerKeeps, ReplyKeeps,
               CloseChannelKeeps, CloseCacheChannelKeeps
            DEF Handler

-----------------------------------------------------------------------------
(* The cache server.                                                       *)

\* A step of the cache server at one connection that runs and answers nothing.
LEMMA CacheQuiet ==
    ASSUME NEW c \in Clients, Local(c), SameClient(c), SameChannel(c), SameHandler(c),
           ran'[c] = ran[c], xcmd'[c] = xcmd[c],
           xpc'[c] = xpc[c] \/ xpc'[c] \notin {"busy", "reply"},
           toCache'[c] \in {toCache[c], <<>>}, fromCache'[c] \in {fromCache[c], <<>>},
           link'[c] = link[c] \/ (link[c] # "none" /\ link'[c] # "none")
    PROVE  Local(c)'
  <1>1. (Waiting(c)' <=> Waiting(c)) /\ (Dead(c) => Dead(c)')
    BY DEF Waiting, Dead, SameClient, SameHandler
  <1>2. ClientInv(c)' /\ RequestInv(c)'
    BY <1>1 DEF Local, ClientInv, RequestInv, SameClient, SameChannel, SameHandler
  <1>3. ReplyInv(c)'
    <2>1. replies'[c] # <<>> => Sound(c, replies[c][1])'
      BY <1>1 DEF Local, ReplyInv, Sound, HasRun, Below, SameChannel
    <2>. QED  BY <2>1, <1>1 DEF Local, ReplyInv, SameClient, SameChannel, SameHandler
  <1>4. HandlerInv(c)'
    <2>1. /\ hpc'[c] = "send" => Below(c, held[c])'
          /\ hpc'[c] = "reply" => Sound(c, answer[c])'
      BY <1>1 DEF Local, HandlerInv, Sound, HasRun, Below, SameHandler
    <2>. QED  BY <2>1, <1>1 DEF Local, HandlerInv, SameClient, SameChannel, SameHandler
  <1>5. CacheInv(c)'
    BY DEF Local, CacheInv, HasRun, Below, SameHandler
  <1>6. OutcomeInv(c)'
    BY <1>1, OutcomeKeeps DEF Local, SameClient
  <1>. QED  BY <1>2, <1>3, <1>4, <1>5, <1>6 DEF Local

\* What a step of the cache server at one connection leaves alone.
CacheOnly(c) ==
    /\ UNCHANGED <<clientState, channel, handlerState>>
    /\ \A d \in Clients : d # c => SameCache(d)

LEMMA CacheStep ==
    ASSUME Inv, TypeOK', NEW c \in Clients, CacheOnly(c), Local(c)'
    PROVE  Inv'
  <1>1. \A d \in Clients : d # c => Same(d)
    BY DEF CacheOnly, clientState, channel, handlerState, Same, SameClient, SameChannel, SameHandler
  <1>. QED  BY <1>1, OneChain

LEMMA QuietKeeps ==
    ASSUME Inv, NEW c \in Clients,
           CacheAccepts(c) \/ CacheTimesOut(c) \/ CacheReadEnds(c) \/ CacheThrows(c) \/ TimerClosesLink(c)
    PROVE  Inv'
  <1>t. TypeOK /\ Local(c)
    BY DEF Inv
  <1>1. /\ link' = link \/ link' = Broken(c)
        /\ toCache' = toCache \/ toCache' = [toCache EXCEPT ![c] = <<>>]
        /\ xpc' = xpc \/ \E w \in {"reading", "draining", "closed"} : xpc' = [xpc EXCEPT ![c] = w]
        /\ UNCHANGED <<clientState, channel, handlerState, fromCache, cacheUp, crashes, xcmd, ran>>
    BY DEF CacheAccepts, CacheTimesOut, CacheReadEnds, CacheThrows, TimerClosesLink, cacheLink, cacheState
  <1>2. /\ link \in [Clients -> LinkStates] /\ toCache \in [Clients -> Seq(Numbers)]
        /\ xpc \in [Clients -> CacheStates] /\ <<>> \in Seq(Numbers)
        /\ "broken" \in LinkStates /\ {"reading", "draining", "closed"} \subseteq CacheStates
    BY <1>t, EmptySeq DEF TypeOK, LinkStates, CacheStates
  <1>3. /\ link' \in [Clients -> LinkStates]
        /\ link'[c] = link[c] \/ (link[c] # "none" /\ link'[c] # "none")
        /\ \A d \in Clients : d # c => link'[d] = link[d]
    BY <1>1, <1>2 DEF Broken
  <1>4. /\ toCache' \in [Clients -> Seq(Numbers)] /\ toCache'[c] \in {toCache[c], <<>>}
        /\ \A d \in Clients : d # c => toCache'[d] = toCache[d]
    BY <1>1, <1>2
  <1>5. /\ xpc' \in [Clients -> CacheStates]
        /\ xpc'[c] = xpc[c] \/ xpc'[c] \notin {"busy", "reply"}
        /\ \A d \in Clients : d # c => xpc'[d] = xpc[d]
    BY <1>1, <1>2
  <1>6. TypeOK'
    BY <1>1, <1>3, <1>4, <1>5, <1>t DEF TypeOK, clientState, channel, handlerState
  <1>7. CacheOnly(c) /\ SameClient(c) /\ SameChannel(c) /\ SameHandler(c)
    BY <1>1, <1>3, <1>4, <1>5
       DEF CacheOnly, SameCache, SameClient, SameChannel, SameHandler, clientState, channel, handlerState
  <1>8. Local(c)'
    BY <1>1, <1>3, <1>4, <1>5, <1>7, <1>t, CacheQuiet
  <1>. QED  BY <1>6, <1>7, <1>8, CacheStep

LEMMA CacheReceivesKeeps ==
    ASSUME Inv, NEW c \in Clients, CacheReceives(c)
    PROVE  Inv'
  <1>k. PICK h : h = held[c]
    OBVIOUS
  <1>. USE <1>k
  <1>t. TypeOK /\ Local(c)
    BY DEF Inv
  <1>1. /\ SameClient(c) /\ SameChannel(c) /\ SameHandler(c) /\ CacheOnly(c)
        /\ xpc[c] = "reading" /\ xpc'[c] = "busy" /\ toCache[c] # <<>>
        /\ xcmd'[c] = Head(toCache[c]) /\ toCache'[c] = Tail(toCache[c])
        /\ link'[c] = link[c] /\ fromCache'[c] = fromCache[c] /\ ran'[c] = ran[c]
    BY <1>t DEF CacheReceives, CacheAt, TypeOK, clientState, channel, handlerState, CacheOnly,
                SameClient, SameChannel, SameHandler, SameCache
  <1>2. /\ toCache[c] = <<h>> /\ Below(c, h) /\ fromCache[c] = <<>>
        /\ hpc[c] \notin {"none", "queued", "orphan", "accepted", "loop", "drain", "send", "reply"}
    BY <1>1, <1>t DEF Local, CacheInv
  <1>3. xcmd'[c] = h /\ toCache'[c] = <<>>
    BY <1>1, <1>2, Singletons, Zenon
  <1>4. h \in Numbers /\ h \in 0..MaxCommands
    <2>1. toCache[c] \in Seq(Numbers) /\ toCache[c] # <<>>
      BY <1>1, <1>t, TypeAt
    <2>2. Head(toCache[c]) \in Numbers
      BY <2>1, HeadTailProperties
    <2>3. h \in Numbers
      BY <2>2, <1>1, <1>3
    <2>. QED  BY <2>3, BoundIsNat DEF Numbers
  <1>5. TypeOK'
    <2>1. /\ toCache \in [Clients -> Seq(Numbers)] /\ xcmd \in [Clients -> 0..MaxCommands]
          /\ xpc \in [Clients -> CacheStates] /\ <<>> \in Seq(Numbers) /\ "busy" \in CacheStates
      BY <1>t, EmptySeq DEF TypeOK, CacheStates
    <2>2. /\ toCache' = [toCache EXCEPT ![c] = <<>>] /\ xcmd' = [xcmd EXCEPT ![c] = h]
          /\ xpc' = [xpc EXCEPT ![c] = "busy"]
      BY <2>1, <1>1, <1>3 DEF CacheReceives
    <2>3. toCache' \in [Clients -> Seq(Numbers)] /\ xcmd' \in [Clients -> 0..MaxCommands]
          /\ xpc' \in [Clients -> CacheStates]
      BY <2>1, <2>2, <1>4
    <2>. QED  BY <2>3, <1>t DEF CacheReceives, TypeOK, clientState, channel, handlerState
  <1>6. (Waiting(c)' <=> Waiting(c)) /\ ~Dead(c)
    BY <1>1 DEF Waiting, Dead, SameClient
  <1>7. ClientInv(c)' /\ RequestInv(c)'
    BY <1>1, <1>6, <1>t DEF Local, ClientInv, RequestInv, SameClient, SameChannel, SameHandler
  <1>8. ReplyInv(c)'
    <2>1. replies'[c] # <<>> => Sound(c, replies[c][1])'
      BY <1>1, <1>6, <1>t DEF Local, ReplyInv, Sound, HasRun, Below, SameChannel
    <2>. QED  BY <2>1, <1>1, <1>6, <1>t DEF Local, ReplyInv, SameClient, SameChannel, SameHandler
  <1>9. HandlerInv(c)'
    BY <1>1, <1>2, <1>6, <1>t DEF Local, HandlerInv, SameClient, SameChannel, SameHandler
  <1>10. CacheInv(c)'
    BY <1>1, <1>2, <1>3, <1>4, <1>t DEF Local, CacheInv, HasRun, Below, SameHandler
  <1>11. OutcomeInv(c)'
    BY <1>1, <1>6, <1>t, OutcomeKeeps DEF Local, SameClient
  <1>. QED  BY <1>1, <1>5, <1>7, <1>8, <1>9, <1>10, <1>11, CacheStep DEF Local

LEMMA CacheRunsKeeps ==
    ASSUME Inv, NEW c \in Clients, CacheRuns(c)
    PROVE  Inv'
  <1>k. PICK h : h = held[c]
    OBVIOUS
  <1>. USE <1>k
  <1>t. TypeOK /\ Local(c)
    BY DEF Inv
  <1>1. /\ SameClient(c) /\ SameChannel(c) /\ SameHandler(c) /\ CacheOnly(c)
        /\ xpc[c] = "busy" /\ xpc'[c] = "reply"
        /\ xcmd'[c] = xcmd[c] /\ toCache'[c] = toCache[c] /\ link'[c] = link[c]
        /\ fromCache'[c] = fromCache[c] /\ ran'[c] = Append(ran[c], xcmd[c])
    BY <1>t DEF CacheRuns, CacheAt, TypeOK, clientState, channel, handlerState, cacheLink, CacheOnly,
                SameClient, SameChannel, SameHandler, SameCache
  <1>2. /\ xcmd[c] = h /\ h \in Numbers /\ Below(c, h) /\ toCache[c] = <<>> /\ fromCache[c] = <<>>
        /\ hpc[c] \notin {"none", "queued", "orphan", "accepted", "loop", "drain", "send", "reply"}
    BY <1>1, <1>t DEF Local, CacheInv
  <1>3. ran[c] \in Seq(Numbers) /\ Len(ran[c]) \in Nat
    BY <1>t, TypeAt
  <1>4. /\ ran'[c] \in Seq(Numbers) /\ Len(ran'[c]) = Len(ran[c]) + 1
        /\ \A i \in 1..Len(ran[c]) : ran'[c][i] = ran[c][i]
        /\ ran'[c][Len(ran[c]) + 1] = h
    BY <1>1, <1>2, <1>3, AppendProperties
  <1>5. TypeOK'
    <2>1. ran \in [Clients -> Seq(Numbers)] /\ xpc \in [Clients -> CacheStates] /\ "reply" \in CacheStates
      BY <1>t DEF TypeOK, CacheStates
    <2>2. PICK s : s = ran'[c]
      OBVIOUS
    <2>3. ran' = [ran EXCEPT ![c] = s] /\ xpc' = [xpc EXCEPT ![c] = "reply"]
      BY <2>1, <2>2 DEF CacheRuns
    <2>4. ran' \in [Clients -> Seq(Numbers)] /\ xpc' \in [Clients -> CacheStates]
      BY <2>1, <2>2, <2>3, <1>4
    <2>. QED  BY <2>4, <1>t DEF CacheRuns, TypeOK, clientState, channel, handlerState, cacheLink
  <1>6. (Waiting(c)' <=> Waiting(c)) /\ ~Dead(c)
    BY <1>1 DEF Waiting, Dead, SameClient
  <1>7. (\A n : HasRun(c, n) => HasRun(c, n)') /\ HasRun(c, h)'
    BY <1>3, <1>4 DEF HasRun
  <1>8. \A r : Sound(c, r) => Sound(c, r)'
    BY <1>6, <1>7 DEF Sound
  <1>9. ClientInv(c)' /\ RequestInv(c)'
    BY <1>1, <1>6, <1>t DEF Local, ClientInv, RequestInv, SameClient, SameChannel, SameHandler
  <1>10. ReplyInv(c)'
    <2>1. replies'[c] # <<>> => Sound(c, replies[c][1])'
      <3>. SUFFICES ASSUME replies'[c] # <<>> PROVE Sound(c, replies[c][1])'
        OBVIOUS
      <3>1. PICK r : r = replies[c][1]
        OBVIOUS
      <3>2. Sound(c, r)
        BY <3>1, <1>1, <1>t DEF Local, ReplyInv, SameChannel, Sound
      <3>3. Sound(c, r)' /\ replies'[c][1] = r
        BY <3>1, <3>2, <1>1, <1>8 DEF SameChannel
      <3>. QED  BY <3>3 DEF Sound, HasRun, Below
    <2>. QED  BY <2>1, <1>1, <1>6, <1>t DEF Local, ReplyInv, SameClient, SameChannel, SameHandler
  <1>11. HandlerInv(c)'
    BY <1>1, <1>2, <1>6, <1>t DEF Local, HandlerInv, SameClient, SameChannel, SameHandler
  <1>12. CacheInv(c)'
    <2>1. \A i \in 1..Len(ran'[c]) : ran'[c][i] <= h
      <3>. SUFFICES ASSUME NEW i \in 1..Len(ran'[c]) PROVE ran'[c][i] <= h
        OBVIOUS
      <3>1. CASE i \in 1..Len(ran[c])
        <4>1. ran'[c][i] = ran[c][i] /\ ran[c][i] <= held[c]
          BY <3>1, <1>4, <1>t DEF Local, CacheInv
        <4>. QED  BY <4>1
      <3>2. CASE i \notin 1..Len(ran[c])
        <4>1. ran'[c][i] = h
          BY <3>2, <1>3, <1>4
        <4>. QED  BY <4>1, <1>2, BoundIsNat DEF Numbers
      <3>. QED  BY <3>1, <3>2
    <2>2. HasRun(c, held[c])'
      BY <1>1, <1>7 DEF HasRun, SameHandler
    <2>3. held'[c] = h /\ hpc'[c] = hpc[c]
      BY <1>1 DEF SameHandler
    <2>4. hpc'[c] \in {"await", "late"} => link'[c] # "none"
      BY <1>1, <2>3, <1>t DEF Local, CacheInv
    <2>. QED  BY <1>1, <1>2, <2>1, <2>2, <2>3, <2>4 DEF CacheInv
  <1>13. OutcomeInv(c)'
    <2>. SUFFICES ASSUME NEW n \in 1..Len(outcome[c])
                  PROVE  outcome[c][n][2] = n /\ Sound(c, outcome[c][n])'
      BY <1>1 DEF OutcomeInv, SameClient
    <2>1. PICK r : r = outcome[c][n]
      OBVIOUS
    <2>2. r[2] = n /\ Sound(c, r)
      BY <2>1, <1>t DEF Local, OutcomeInv, Sound
    <2>3. Sound(c, r)' /\ outcome'[c][n] = r
      BY <2>1, <2>2, <1>1, <1>8 DEF SameClient
    <2>. QED  BY <2>1, <2>2, <2>3 DEF Sound, HasRun, Below
  <1>. QED  BY <1>1, <1>5, <1>9, <1>10, <1>11, <1>12, <1>13, CacheStep DEF Local

LEMMA CacheRepliesKeeps ==
    ASSUME Inv, NEW c \in Clients, CacheReplies(c)
    PROVE  Inv'
  <1>k. PICK h : h = held[c]
    OBVIOUS
  <1>. USE <1>k
  <1>t. TypeOK /\ Local(c)
    BY DEF Inv
  <1>1. /\ SameClient(c) /\ SameChannel(c) /\ SameHandler(c) /\ CacheOnly(c)
        /\ xpc[c] = "reply" /\ xpc'[c] = "reading"
        /\ xcmd'[c] = xcmd[c] /\ toCache'[c] = toCache[c] /\ link'[c] = link[c] /\ ran'[c] = ran[c]
        /\ fromCache'[c] = IF link[c] = "open" THEN Append(fromCache[c], <<"answer", xcmd[c]>>)
                                               ELSE fromCache[c]
    BY <1>t DEF CacheReplies, CacheAt, TypeOK, clientState, channel, handlerState, CacheOnly,
                SameClient, SameChannel, SameHandler, SameCache
  <1>2. /\ xcmd[c] = h /\ h \in Numbers /\ HasRun(c, h) /\ toCache[c] = <<>> /\ fromCache[c] = <<>>
        /\ hpc[c] \notin {"none", "queued", "orphan", "accepted", "loop", "drain", "send", "reply"}
    BY <1>1, <1>t DEF Local, CacheInv
  <1>3. fromCache'[c] \in {<<>>, << <<"answer", h>> >>}
    <2>1. PICK r : r = <<"answer", h>>
      OBVIOUS
    <2>2. Append(<<>>, r) = <<r>>
      BY Singletons, Zenon
    <2>. QED  BY <1>1, <1>2, <2>1, <2>2
  <1>4. <<"answer", h>> \in Responses /\ << <<"answer", h>> >> \in Seq(Responses)
    BY <1>2 DEF Responses, Numbers
  <1>5. TypeOK'
    <2>1. /\ fromCache \in [Clients -> Seq(Responses)] /\ xpc \in [Clients -> CacheStates]
          /\ "reading" \in CacheStates /\ <<>> \in Seq(Responses)
      BY <1>t, EmptySeq DEF TypeOK, CacheStates
    <2>2. PICK s : s = fromCache'[c]
      OBVIOUS
    <2>3. fromCache' = [fromCache EXCEPT ![c] = s] /\ xpc' = [xpc EXCEPT ![c] = "reading"]
      BY <2>1, <2>2 DEF CacheReplies
    <2>4. fromCache' \in [Clients -> Seq(Responses)] /\ xpc' \in [Clients -> CacheStates]
      BY <2>1, <2>2, <2>3, <1>3, <1>4
    <2>. QED  BY <2>4, <1>t DEF CacheReplies, TypeOK, clientState, channel, handlerState
  <1>6. (Waiting(c)' <=> Waiting(c)) /\ ~Dead(c)
    BY <1>1 DEF Waiting, Dead, SameClient
  <1>7. ClientInv(c)' /\ RequestInv(c)'
    BY <1>1, <1>6, <1>t DEF Local, ClientInv, RequestInv, SameClient, SameChannel, SameHandler
  <1>8. ReplyInv(c)'
    <2>1. replies'[c] # <<>> => Sound(c, replies[c][1])'
      BY <1>1, <1>6, <1>t DEF Local, ReplyInv, Sound, HasRun, Below, SameChannel
    <2>. QED  BY <2>1, <1>1, <1>6, <1>t DEF Local, ReplyInv, SameClient, SameChannel, SameHandler
  <1>9. HandlerInv(c)'
    BY <1>1, <1>2, <1>6, <1>t DEF Local, HandlerInv, SameClient, SameChannel, SameHandler
  <1>10. CacheInv(c)'
    <2>1. HasRun(c, held[c])'
      BY <1>1, <1>2 DEF HasRun, SameHandler
    <2>2. held'[c] = h /\ hpc'[c] = hpc[c]
      BY <1>1 DEF SameHandler
    <2>3. /\ \A i \in 1..Len(ran'[c]) : ran'[c][i] <= held'[c]
          /\ hpc'[c] \in {"await", "late"} => link'[c] # "none"
      BY <1>1, <2>2, <1>t DEF Local, CacheInv
    <2>. QED  BY <1>1, <1>2, <1>3, <2>1, <2>2, <2>3 DEF CacheInv
  <1>11. OutcomeInv(c)'
    BY <1>1, <1>6, <1>t, OutcomeKeeps DEF Local, SameClient
  <1>. QED  BY <1>1, <1>5, <1>7, <1>8, <1>9, <1>10, <1>11, CacheStep DEF Local

LEMMA CrashKeeps ==
    ASSUME Inv, Crash
    PROVE  Inv'
  <1>t. TypeOK
    BY DEF Inv
  <1>1. ASSUME NEW c \in Clients
        PROVE  /\ SameClient(c) /\ SameChannel(c) /\ SameHandler(c)
               /\ ran'[c] = ran[c] /\ xcmd'[c] = xcmd[c]
               /\ xpc'[c] = xpc[c] \/ xpc'[c] \notin {"busy", "reply"}
               /\ toCache'[c] \in {toCache[c], <<>>} /\ fromCache'[c] \in {fromCache[c], <<>>}
               /\ link'[c] = link[c] \/ (link[c] # "none" /\ link'[c] # "none")
    BY <1>t DEF Crash, Everyone, TypeOK, clientState, channel, handlerState,
                SameClient, SameChannel, SameHandler
  <1>2. \A c \in Clients : Local(c)'
    BY <1>1, CacheQuiet DEF Inv
  <1>3. TypeOK'
    <2>1. /\ link \in [Clients -> LinkStates] /\ fromCache \in [Clients -> Seq(Responses)]
          /\ xpc \in [Clients -> CacheStates] /\ crashes \in 0..MaxCrashes
          /\ <<>> \in Seq(Numbers) /\ <<>> \in Seq(Responses)
      BY <1>t, EmptySeq DEF TypeOK
    <2>2. link' \in [Clients -> LinkStates] /\ xpc' \in [Clients -> CacheStates]
      BY <2>1 DEF Crash, LinkStates, CacheStates
    <2>3. toCache' \in [Clients -> Seq(Numbers)]
      BY <2>1 DEF Crash, Everyone
    <2>4. fromCache' \in [Clients -> Seq(Responses)]
      BY <2>1 DEF Crash
    <2>5. crashes' \in 0..MaxCrashes
      <3>1. crashes < MaxCrashes /\ crashes' = crashes + 1
        BY DEF Crash
      <3>. QED  BY <2>1, <3>1, BoundIsNat
    <2>6. cacheUp' \in BOOLEAN
      BY DEF Crash
    <2>. QED  BY <2>2, <2>3, <2>4, <2>5, <2>6, <1>t DEF Crash, TypeOK, clientState, channel, handlerState
  <1>. QED  BY <1>2, <1>3 DEF Inv

LEMMA StartServerKeeps ==
    ASSUME Inv, StartServer
    PROVE  Inv'
  <1>t. TypeOK
    BY DEF Inv
  <1>1. \A c \in Clients : Same(c)
    BY DEF StartServer, clientState, channel, handlerState, cacheLink,
           Same, SameClient, SameChannel, SameHandler, SameCache
  <1>2. TypeOK'
    BY <1>t DEF StartServer, TypeOK, clientState, channel, handlerState, cacheLink
  <1>. QED  BY <1>1, <1>2, SameKeeps DEF Inv

-----------------------------------------------------------------------------
(* The invariant, and what follows from it.                                *)

LEMMA NextInv == Inv /\ [Next]_vars => Inv'
  <1>. SUFFICES ASSUME Inv, [Next]_vars PROVE Inv'
    OBVIOUS
  <1>1. ASSUME NEW c \in Clients, Client(c) \/ Accept(c) \/ Handler(c) \/ CacheHandler(c) \/ Timeouts(c)
        PROVE  Inv'
    BY <1>1, ConnectKeeps, AcceptKeeps, AskKeeps, LeaveKeeps, ClientReadsKeeps, ReplyTimesOutKeeps, HandlerKeeps,
       QuietKeeps, CacheReceivesKeeps, CacheRunsKeeps, CacheRepliesKeeps
    DEF Client, CacheHandler, Timeouts
  <1>2. CASE UNCHANGED vars
    <2>1. UNCHANGED <<clientState, channel, handlerState, cacheLink, cacheState>>
      BY <1>2 DEF vars
    <2>2. \A c \in Clients : Same(c)
      BY <2>1 DEF clientState, channel, handlerState, cacheLink, cacheState,
                  Same, SameClient, SameChannel, SameHandler, SameCache
    <2>3. TypeOK'
      BY <2>1 DEF Inv, TypeOK, clientState, channel, handlerState, cacheLink, cacheState
    <2>. QED  BY <2>2, <2>3, SameKeeps DEF Inv
  <1>. QED  BY <1>1, <1>2, CrashKeeps, StartServerKeeps DEF Next

LEMMA Always == Spec => []Inv
  BY InitInv, NextInv, PTL DEF Spec

\* Every variable keeps its type, and every queue what it carries.
THEOREM TypeCorrect == Spec => []TypeOK
  <1>1. Inv => TypeOK
    BY DEF Inv
  <1>. QED  BY <1>1, Always, PTL

\* Nothing on the two channels carries a number, and yet what GetObject returns is the
\* answer to the command that was asked, which has run.
THEOREM AnswersAreOwn == Spec => []AnswerIsOwn
  <1>1. Inv => AnswerIsOwn
    BY DEF Inv, Local, OutcomeInv, Sound, HasRun, AnswerIsOwn
  <1>. QED  BY <1>1, Always, PTL

\* After a "Cache communication error" neither the command nor a later one of the
\* connection runs.
THEOREM FallbacksAreFinal == Spec => []FallbackIsFinal
  <1>1. Inv => FallbackIsFinal
    <2>. SUFFICES ASSUME Inv, NEW c \in Clients, NEW n \in 1..Len(outcome[c]),
                         outcome[c][n][1] = "fallback"
                  PROVE  \A i \in 1..Len(ran[c]) : ran[c][i] < n
      BY DEF FallbackIsFinal
    <2>1. outcome[c][n][2] = n /\ Sound(c, outcome[c][n])
      BY DEF Inv, Local, OutcomeInv
    <2>. QED  BY <2>1 DEF Sound, Below
  <1>. QED  BY <1>1, Always, PTL

-----------------------------------------------------------------------------
(* Nobody waits for nothing.  The handler's connection to the cache server *)
(* is open only while the cache server is up and serves it, and the        *)
(* handler closes it only when it has ended; the rest is in WaitIsOwed.    *)

LinkOwed(c) ==
    /\ link[c] = "open" => cacheUp /\ xpc[c] # "closed"
    /\ link[c] = "shut" => hpc[c] \in {"release", "releaseCache", "closed"}
    /\ hpc[c] \in {"none", "queued", "orphan", "accepted"} => link[c] = "none" /\ xpc[c] = "none"

\* A command that lies where no handler reads.
Unread(c) == Unserved(c) /\ requests[c] # <<>>

Owed(c) ==
    /\ Waiting(c) /\ connected[c] => ReplyOwed(c) \/ Unread(c)
    /\ hpc[c] \in {"await", "late"} => AnswerOwed(c)
    /\ LinkOwed(c)

LEMMA OwedSame ==
    ASSUME NEW d, Owed(d), Same(d), cacheUp => cacheUp'
    PROVE  Owed(d)'
  BY DEF Owed, Waiting, ReplyOwed, Unread, Unserved, AnswerOwed, LinkOwed,
         Same, SameClient, SameChannel, SameHandler, SameCache

\* What TypeOK says of the variables a step of one chain changes.
LEMMA ChainOf ==
    ASSUME TypeOK
    PROVE  /\ DOMAIN cpc = Clients /\ DOMAIN connected = Clients
           /\ DOMAIN requests = Clients /\ DOMAIN replies = Clients
           /\ DOMAIN clientShut = Clients /\ DOMAIN handlerShut = Clients
           /\ DOMAIN hpc = Clients /\ DOMAIN link = Clients
           /\ DOMAIN toCache = Clients /\ DOMAIN fromCache = Clients /\ DOMAIN xpc = Clients
  BY DEF TypeOK

LEMMA ClientKeepsOwed ==
    ASSUME Inv, NEW c \in Clients, Owed(c), Client(c) \/ ReplyTimesOut(c)
    PROVE  Owed(c)'
  <1>t. TypeOK /\ ClientInv(c) /\ RequestInv(c) /\ HandlerInv(c)
    BY DEF Inv, Local
  <1>1. CASE Connect(c)
    <2>1. /\ cpc[c] = "out" /\ cpc'[c] = "idle" /\ hpc[c] = "none"
          /\ hpc'[c] \in {"none", "queued"} /\ link' = link /\ xpc' = xpc
      BY <1>1, <1>t, ChainOf DEF Connect, ClientAt, ClientInv, cacheLink, cacheState
    <2>. QED  BY <2>1 DEF Owed, Waiting, LinkOwed
  <1>2. CASE Ask(c)
    <2>1. /\ cpc[c] = "idle" /\ hpc' = hpc /\ handlerShut' = handlerShut /\ replies' = replies
          /\ link' = link /\ fromCache' = fromCache /\ toCache' = toCache /\ xpc' = xpc
          /\ cacheUp' = cacheUp
      BY <1>2 DEF Ask, ClientAt, handlerState, cacheLink, cacheState
    <2>2. ASSUME connected'[c], ~handlerShut[c]
          PROVE  requests'[c] # <<>> /\ hpc[c] \notin {"none", "releaseCache", "closed"}
      <3>1. connected[c] /\ requests'[c] = Append(requests[c], asked[c] + 1)
        BY <1>2, <2>2, <1>t, ChainOf DEF Ask
      <3>2. requests[c] = <<>>
        BY <2>1, <1>t DEF RequestInv, Waiting
      <3>. QED  BY <2>1, <2>2, <3>1, <3>2, <1>t, Singletons DEF ClientInv
    <2>3. connected'[c] => ReplyOwed(c)' \/ Unread(c)'
      <3>. SUFFICES ASSUME connected'[c], ~handlerShut[c] PROVE ReplyOwed(c)' \/ Unread(c)'
        BY <2>1 DEF ReplyOwed
      <3>1. hpc[c] \in HandlerStates
        BY <1>t, TypeAt
      <3>. QED  BY <2>1, <2>2, <3>1 DEF ReplyOwed, Unread, Unserved, HandlerStates
    <2>. QED  BY <2>1, <2>3 DEF Owed, AnswerOwed, LinkOwed
  <1>3. CASE Leave(c) \/ ClientReads(c)
    <2>1. /\ cpc'[c] \notin {"waiting", "late"} /\ hpc' = hpc /\ link' = link /\ cacheUp' = cacheUp
          /\ fromCache' = fromCache /\ toCache' = toCache /\ xpc' = xpc
      BY <1>3, <1>t, ChainOf
      DEF Leave, ClientReads, GetReply, ReplyEnds, GetObjectThrows, LateReply, Resolve,
          handlerState, cacheLink, cacheState
    <2>. QED  BY <2>1 DEF Owed, Waiting, AnswerOwed, LinkOwed
  <1>4. CASE ReplyTimesOut(c)
    <2>1. /\ cpc[c] = "waiting" /\ connected' = connected /\ hpc' = hpc /\ link' = link
          /\ requests' = requests /\ replies' = replies /\ handlerShut' = handlerShut
          /\ cacheUp' = cacheUp /\ fromCache' = fromCache /\ toCache' = toCache /\ xpc' = xpc
      BY <1>4 DEF ReplyTimesOut, ClientAt, channel, handlerState, cacheLink, cacheState
    <2>. QED  BY <2>1 DEF Owed, Waiting, ReplyOwed, Unread, Unserved, AnswerOwed, LinkOwed
  <1>. QED  BY <1>1, <1>2, <1>3, <1>4 DEF Client

LEMMA HandlerKeepsOwed ==
    ASSUME Inv, NEW c \in Clients, Owed(c),
           Accept(c) \/ Handler(c) \/ CommandTimesOut(c) \/ AnswerTimesOut(c) \/ TimerClosesClient(c)
    PROVE  Owed(c)'
  <1>t. TypeOK /\ ClientInv(c) /\ ReplyInv(c) /\ HandlerInv(c) /\ CacheInv(c)
    BY DEF Inv, Local
  <1>d. hpc[c] \in HandlerStates /\ link[c] \in LinkStates /\ xpc[c] \in CacheStates
    BY <1>t, TypeAt
  <1>1. CASE ConnectWithCache(c)
    <2>1. /\ hpc[c] = "accepted" /\ hpc'[c] = "loop" /\ UNCHANGED <<clientState, channel>>
          /\ link'[c] = (IF cacheUp THEN "open" ELSE "none") /\ cacheUp' = cacheUp /\ xpc' = xpc
      BY <1>1, <1>t, ChainOf DEF ConnectWithCache, HandlerAt, cacheState
    <2>. QED  BY <2>1 DEF Owed, Waiting, ReplyOwed, Unread, Unserved, LinkOwed, clientState, channel
  <1>2. CASE ReceiveCommand(c) \/ ReceiveAnswer(c)
    <2>1. /\ hpc[c] \in {"loop", "await"} /\ hpc'[c] \in {"send", "reply"}
          /\ link' = link /\ cacheUp' = cacheUp /\ xpc' = xpc
      BY <1>2, <1>t, ChainOf DEF ReceiveCommand, ReceiveAnswer, HandlerAt, cacheLink, cacheState
    <2>. QED  BY <2>1 DEF Owed, ReplyOwed, Unread, Unserved, LinkOwed
  <1>3. CASE CommandEnds(c) \/ AnswerEnds(c)
    <2>1. /\ hpc[c] \in {"loop", "await"} /\ hpc'[c] = "release"
          /\ link' = link /\ cacheUp' = cacheUp /\ xpc' = xpc
      BY <1>3, <1>t, ChainOf DEF CommandEnds, AnswerEnds, HandlerAt, cacheLink, cacheState
    <2>. QED  BY <2>1 DEF Owed, ReplyOwed, Unread, Unserved, LinkOwed
  <1>4. CASE DropLateCommand(c)
    <2>1. /\ hpc[c] = "drain" /\ hpc'[c] = "release"
          /\ link' = link /\ cacheUp' = cacheUp /\ xpc' = xpc
      BY <1>4, <1>t, ChainOf DEF DropLateCommand, HandlerAt, cacheLink, cacheState
    <2>. QED  BY <2>1 DEF Owed, ReplyOwed, Unread, Unserved, LinkOwed
  <1>5. CASE SendCommand(c)
    <2>1. /\ hpc[c] = "send" /\ cacheUp' = cacheUp /\ xpc' = xpc /\ fromCache' = fromCache
          /\ \/ /\ link[c] \in {"open", "broken"} /\ link' = link /\ hpc'[c] = "await"
                /\ link[c] = "open" => toCache'[c] = Append(toCache[c], held[c])
             \/ link'[c] = "none" /\ hpc'[c] = "reply"
      BY <1>5, <1>t, ChainOf DEF SendCommand, HandlerAt, cacheState
    <2>2. toCache[c] = <<>> /\ xpc[c] \notin {"busy", "reply"}
      BY <2>1, <1>t DEF CacheInv
    <2>3. hpc'[c] = "await" /\ link'[c] = "open" =>
            cacheUp /\ xpc[c] \in {"none", "reading", "draining"} /\ toCache'[c] # <<>>
      <3>. SUFFICES ASSUME hpc'[c] = "await", link'[c] = "open"
                    PROVE  cacheUp /\ xpc[c] \in {"none", "reading", "draining"} /\ toCache'[c] # <<>>
        OBVIOUS
      <3>1. link[c] = "open" /\ toCache'[c] = Append(<<>>, held[c])
        BY <2>1, <2>2
      <3>2. toCache'[c] # <<>>
        BY <3>1, Singletons
      <3>3. cacheUp /\ xpc[c] # "closed"
        BY <3>1 DEF Owed, LinkOwed
      <3>. QED  BY <2>2, <3>2, <3>3, <1>d DEF CacheStates
    <2>4. AnswerOwed(c)' \/ hpc'[c] = "reply"
      BY <2>1, <2>3 DEF AnswerOwed
    <2>. QED  BY <2>1, <2>4 DEF Owed, ReplyOwed, Unread, Unserved, LinkOwed
  <1>6. CASE DropLateAnswer(c)
    <2>1. hpc'[c] = "release" /\ link'[c] = "shut"
      BY <1>6, <1>t, ChainOf DEF DropLateAnswer
    <2>. QED  BY <2>1 DEF Owed, ReplyOwed, Unread, Unserved, LinkOwed
  <1>7. CASE Reply(c)
    <2>1. /\ hpc[c] = "reply" /\ hpc'[c] \in {"loop", "release"} /\ cpc' = cpc /\ connected' = connected
          /\ hpc'[c] = "loop" /\ ~clientShut[c] => replies'[c] = Append(replies[c], answer[c])
          /\ link' = link /\ cacheUp' = cacheUp /\ xpc' = xpc
      BY <1>7, <1>t, ChainOf DEF Reply, HandlerAt, clientState, cacheLink, cacheState
    <2>2. ASSUME Waiting(c)', connected'[c], hpc'[c] = "loop" PROVE replies'[c] # <<>>
      <3>1. ~clientShut[c] /\ replies[c] = <<>>
        BY <2>1, <2>2, <1>t DEF ClientInv, ReplyInv
      <3>. QED  BY <2>1, <2>2, <3>1, Singletons
    <2>. QED  BY <2>1, <2>2 DEF Owed, ReplyOwed, Unread, Unserved, LinkOwed
  <1>8. CASE CloseChannel(c)
    <2>1. /\ hpc[c] = "release" /\ hpc'[c] = "releaseCache" /\ handlerShut'[c]
          /\ link' = link /\ cacheUp' = cacheUp /\ xpc' = xpc
      BY <1>8, <1>t, ChainOf DEF CloseChannel, HandlerAt, cacheLink, cacheState
    <2>. QED  BY <2>1 DEF Owed, ReplyOwed, Unread, Unserved, LinkOwed
  <1>9. CASE CloseCacheChannel(c)
    <2>1. /\ hpc[c] = "releaseCache" /\ hpc'[c] = "closed" /\ handlerShut' = handlerShut
          /\ link'[c] \in {"none", "shut"}
      BY <1>9, <1>t, ChainOf DEF CloseCacheChannel, HandlerAt, channel
    <2>2. handlerShut[c]
      BY <2>1, <1>t DEF ClientInv
    <2>. QED  BY <2>1, <2>2 DEF Owed, ReplyOwed, Unread, Unserved, LinkOwed
  <1>10. CASE CommandTimesOut(c)
    <2>1. /\ hpc[c] = "loop" /\ hpc'[c] = "drain" /\ UNCHANGED <<clientState, channel, cacheLink>>
          /\ cacheUp' = cacheUp /\ xpc' = xpc
      BY <1>10, <1>t, ChainOf DEF CommandTimesOut, HandlerAt, cacheState
    <2>. QED  BY <2>1 DEF Owed, Waiting, ReplyOwed, Unread, Unserved, LinkOwed, clientState, channel, cacheLink
  <1>11. CASE AnswerTimesOut(c)
    <2>1. /\ hpc[c] = "await" /\ hpc'[c] = "late" /\ UNCHANGED <<clientState, channel, cacheLink>>
          /\ cacheUp' = cacheUp /\ xpc' = xpc
      BY <1>11, <1>t, ChainOf DEF AnswerTimesOut, HandlerAt, cacheState
    <2>. QED  BY <2>1 DEF Owed, Waiting, ReplyOwed, Unread, Unserved, AnswerOwed, LinkOwed, clientState, channel, cacheLink
  <1>12. CASE TimerClosesClient(c)
    <2>1. /\ handlerShut'[c] /\ hpc' = hpc /\ UNCHANGED cacheLink
          /\ cacheUp' = cacheUp /\ xpc' = xpc
      BY <1>12, <1>t, ChainOf DEF TimerClosesClient, handlerState, cacheState
    <2>. QED  BY <2>1 DEF Owed, ReplyOwed, Unread, Unserved, AnswerOwed, LinkOwed, cacheLink
  <1>13. CASE Accept(c)
    <2>1. /\ hpc[c] = "queued" /\ hpc'[c] \in {"accepted", "orphan"}
          /\ UNCHANGED <<clientState, channel, cacheLink>> /\ cacheUp' = cacheUp /\ xpc' = xpc
      BY <1>13, <1>t, ChainOf DEF Accept, HandlerAt, cacheState
    <2>. QED  BY <2>1 DEF Owed, Waiting, ReplyOwed, Unread, Unserved, LinkOwed, clientState, channel, cacheLink
  <1>. QED  BY <1>1, <1>2, <1>3, <1>4, <1>5, <1>6, <1>7, <1>8, <1>9, <1>10, <1>11, <1>12, <1>13 DEF Handler

\* The cache server takes a command from the stream only to answer it or to close it.
LEMMA CacheKeepsOwed ==
    ASSUME Inv, NEW c \in Clients, Owed(c),
           CacheHandler(c) \/ CacheTimesOut(c) \/ TimerClosesLink(c)
    PROVE  Owed(c)'
  <1>t. TypeOK /\ CacheInv(c)
    BY DEF Inv, Local
  <1>1. /\ UNCHANGED <<clientState, channel, handlerState>> /\ cacheUp' = cacheUp /\ cacheUp
        /\ ReplyOwed(c)' <=> ReplyOwed(c)
        /\ Unread(c)' <=> Unread(c)
    BY DEF CacheHandler, CacheAccepts, CacheReceives, CacheReadEnds, CacheRuns, CacheThrows,
           CacheReplies, CacheTimesOut, TimerClosesLink, CacheAt, cacheState,
           ReplyOwed, Unread, Unserved, channel, handlerState
  <1>2. hpc[c] \in {"await", "late"} => link[c] \in {"open", "broken"}
    <2>1. link[c] \in LinkStates
      BY <1>t, TypeAt
    <2>. QED  BY <2>1, <1>t DEF CacheInv, Owed, LinkOwed, LinkStates
  <1>3. Waiting(c)' /\ connected'[c] => ReplyOwed(c)' \/ Unread(c)'
    BY <1>1 DEF Owed, Waiting, clientState
  <1>4. ASSUME link' = Broken(c), toCache'[c] = <<>>, xpc'[c] = "closed" \/ xpc' = xpc
        PROVE  Owed(c)'
    <2>1. link'[c] = IF link[c] = "open" THEN "broken" ELSE link[c]
      BY <1>4, <1>t, ChainOf DEF Broken
    <2>2. hpc[c] \in {"await", "late"} => link'[c] = "broken"
      BY <2>1, <1>2
    <2>3. hpc[c] \in {"none", "queued", "orphan", "accepted"} => xpc'[c] = "none"
      <3>1. hpc[c] \in {"none", "queued", "orphan", "accepted"} => ~(CacheHandler(c) \/ CacheTimesOut(c) \/ TimerClosesLink(c))
        BY DEF Owed, LinkOwed, CacheHandler, CacheAccepts, CacheReceives, CacheReadEnds, CacheRuns,
               CacheThrows, CacheReplies, CacheTimesOut, TimerClosesLink, CacheAt
      <3>. QED  BY <3>1
    <2>. QED  BY <1>1, <1>3, <2>1, <2>2, <2>3 DEF Owed, AnswerOwed, LinkOwed, handlerState
  <1>5. CASE CacheAccepts(c)
    <2>1. /\ xpc[c] = "none" /\ xpc'[c] = "reading" /\ link[c] # "none" /\ UNCHANGED cacheLink
      BY <1>5, <1>t, ChainOf DEF CacheAccepts, CacheAt
    <2>. QED  BY <1>1, <1>3, <2>1 DEF Owed, AnswerOwed, LinkOwed, handlerState, cacheLink
  <1>6. CASE CacheReceives(c)
    <2>1. /\ xpc[c] = "reading" /\ xpc'[c] = "busy" /\ link' = link
      BY <1>6, <1>t, ChainOf DEF CacheReceives, CacheAt
    <2>. QED  BY <1>1, <1>3, <2>1 DEF Owed, AnswerOwed, LinkOwed, handlerState
  <1>7. CASE CacheRuns(c)
    <2>1. /\ xpc[c] = "busy" /\ xpc'[c] = "reply" /\ UNCHANGED cacheLink
      BY <1>7, <1>t, ChainOf DEF CacheRuns, CacheAt
    <2>. QED  BY <1>1, <1>3, <2>1 DEF Owed, AnswerOwed, LinkOwed, handlerState, cacheLink
  <1>8. CASE CacheReplies(c)
    <2>1. /\ xpc[c] = "reply" /\ xpc'[c] = "reading" /\ link' = link /\ link[c] # "broken"
          /\ link[c] = "open" => fromCache'[c] = Append(fromCache[c], <<"answer", xcmd[c]>>)
      BY <1>8, <1>t, ChainOf DEF CacheReplies, CacheAt
    <2>2. fromCache[c] = <<>>
      BY <2>1, <1>t DEF CacheInv
    <2>3. hpc[c] \in {"await", "late"} => fromCache'[c] # <<>>
      BY <2>1, <2>2, <1>2, Singletons
    <2>. QED  BY <1>1, <1>3, <2>1, <2>3 DEF Owed, AnswerOwed, LinkOwed, handlerState
  <1>9. CASE CacheTimesOut(c)
    <2>1. /\ xpc[c] = "reading" /\ xpc'[c] = "draining" /\ UNCHANGED cacheLink
      BY <1>9, <1>t, ChainOf DEF CacheTimesOut, CacheAt
    <2>. QED  BY <1>1, <1>3, <2>1 DEF Owed, AnswerOwed, LinkOwed, handlerState, cacheLink
  <1>10. CASE CacheReadEnds(c) \/ CacheThrows(c) \/ TimerClosesLink(c)
    <2>1. /\ link' = Broken(c) /\ toCache'[c] = <<>>
          /\ xpc'[c] = "closed" \/ xpc' = xpc
      BY <1>10, <1>t, ChainOf DEF CacheReadEnds, CacheThrows, TimerClosesLink, cacheState
    <2>. QED  BY <2>1, <1>4
  <1>. QED  BY <1>5, <1>6, <1>7, <1>8, <1>9, <1>10 DEF CacheHandler

\* A step of one chain leaves the others alone, and the cache server up.
LEMMA OthersSame ==
    ASSUME TypeOK, NEW c \in Clients, Client(c) \/ Accept(c) \/ Handler(c) \/ CacheHandler(c) \/ Timeouts(c),
           NEW d \in Clients, d # c
    PROVE  Same(d) /\ cacheUp' = cacheUp
  <1>1. CASE Client(c)
    BY <1>1 DEF Client, Connect, Ask, Leave, ClientReads, GetReply, ReplyEnds, GetObjectThrows,
                LateReply, Resolve, TypeOK, Same, SameClient, SameChannel, SameHandler, SameCache,
                channel, handlerState, cacheLink, cacheState
  <1>2. CASE Accept(c) \/ Handler(c)
    BY <1>2 DEF Accept, Handler, ConnectWithCache, ReceiveCommand, CommandEnds, DropLateCommand,
                SendCommand, ReceiveAnswer, AnswerEnds, DropLateAnswer, Reply, CloseChannel,
                CloseCacheChannel, TypeOK, Same, SameClient, SameChannel, SameHandler, SameCache,
                clientState, channel, cacheLink, cacheState
  <1>3. CASE CacheHandler(c)
    BY <1>3 DEF CacheHandler, CacheAccepts, CacheReceives, CacheReadEnds, CacheRuns, CacheThrows,
                CacheReplies, Broken, TypeOK, Same, SameClient, SameChannel, SameHandler, SameCache,
                clientState, channel, handlerState, cacheLink
  <1>4. CASE Timeouts(c)
    BY <1>4 DEF Timeouts, ReplyTimesOut, CommandTimesOut, AnswerTimesOut, CacheTimesOut,
                TimerClosesClient, TimerClosesLink, Broken, TypeOK, Same, SameClient, SameChannel,
                SameHandler, SameCache, clientState, channel, handlerState, cacheLink, cacheState
  <1>. QED  BY <1>1, <1>2, <1>3, <1>4

LEMMA CrashKeepsOwed ==
    ASSUME Inv, NEW c \in Clients, Owed(c), Crash
    PROVE  Owed(c)'
  <1>t. TypeOK /\ CacheInv(c) /\ link[c] \in LinkStates
    BY TypeAt DEF Inv, Local
  <1>1. /\ UNCHANGED <<clientState, channel, handlerState>>
        /\ link'[c] = IF link[c] = "open" THEN "broken" ELSE link[c]
        /\ xpc[c] = "none" /\ link[c] = "none" => xpc'[c] = "none"
    BY DEF Crash
  <1>2. hpc[c] \in {"await", "late"} => link'[c] = "broken"
    BY <1>1, <1>t DEF CacheInv, Owed, LinkOwed, LinkStates
  <1>. QED  BY <1>1, <1>2
            DEF Owed, Waiting, ReplyOwed, Unread, Unserved, AnswerOwed, LinkOwed, clientState, channel, handlerState

LEMMA AlwaysOwed == Spec => [](\A c \in Clients : Owed(c))
  <1>1. Init => \A c \in Clients : Owed(c)
    BY DEF Init, Everyone, Owed, Waiting, LinkOwed
  <1>2. Inv /\ (\A c \in Clients : Owed(c)) /\ [Next]_vars => (\A c \in Clients : Owed(c))'
    <2>. SUFFICES ASSUME Inv, \A c \in Clients : Owed(c), [Next]_vars, NEW d \in Clients
                  PROVE  Owed(d)'
      OBVIOUS
    <2>t. TypeOK
      BY DEF Inv
    <2>1. ASSUME NEW c \in Clients, Client(c) \/ Accept(c) \/ Handler(c) \/ CacheHandler(c) \/ Timeouts(c)
          PROVE  Owed(d)'
      <3>1. CASE c = d
        <4>1. \/ Client(d) \/ ReplyTimesOut(d)
              \/ Accept(d) \/ Handler(d) \/ CommandTimesOut(d) \/ AnswerTimesOut(d) \/ TimerClosesClient(d)
              \/ CacheHandler(d) \/ CacheTimesOut(d) \/ TimerClosesLink(d)
          BY <2>1, <3>1 DEF Timeouts
        <4>. QED  BY <4>1, ClientKeepsOwed, HandlerKeepsOwed, CacheKeepsOwed
      <3>2. CASE c # d
        <4>1. Same(d) /\ cacheUp' = cacheUp
          BY <2>1, <2>t, <3>2, OthersSame
        <4>. QED  BY <4>1, OwedSame
      <3>. QED  BY <3>1, <3>2
    <2>2. CASE StartServer \/ UNCHANGED vars
      <3>1. Same(d) /\ (cacheUp => cacheUp')
        BY <2>2 DEF StartServer, vars, clientState, channel, handlerState, cacheLink, cacheState,
                    Same, SameClient, SameChannel, SameHandler, SameCache
      <3>. QED  BY <3>1, OwedSame
    <2>. QED  BY <2>1, <2>2, CrashKeepsOwed DEF Next
  <1>. QED  BY <1>1, <1>2, Always, PTL DEF Spec

\* Whoever waits for a command's answer, the client or the handler between the servers,
\* is owed the answer or the end of its stream by somebody who still runs or has already
\* sent it; only a client whose connection no handler serves has nothing but its unread
\* command.  (This is the safety half of WaitEnds and of ChainCloses: the fairness of the
\* handlers does the rest.)
THEOREM WaitsAreOwed == Spec => []WaitIsOwed
  <1>1. (\A c \in Clients : Owed(c)) => WaitIsOwed
    BY DEF Owed, Waiting, Unread, WaitIsOwed
  <1>. QED  BY <1>1, AlwaysOwed, PTL

-----------------------------------------------------------------------------
(* The chain implements a procedure call.                                  *)

rpcVars == <<asked, outcome, ran>>

LEMMA AskIsAsk ==
    ASSUME Inv, NEW c \in Clients, Ask(c)
    PROVE  Call!Ask(c)
  <1>1. cpc[c] = "idle" /\ asked' = [asked EXCEPT ![c] = @ + 1] /\ UNCHANGED <<outcome, ran>>
    BY DEF Ask, ClientAt, cacheState
  <1>2. asked[c] = Len(outcome[c])
    BY <1>1 DEF Inv, Local, ClientInv
  <1>. QED  BY <1>1, <1>2 DEF Call!Ask

\* What the outcome may be.
LEMMA ResolvesAs ==
    ASSUME Inv, NEW c \in Clients, Waiting(c),
           NEW r \in Responses \cup ({"none"} \X Numbers), r[2] = asked[c], Sound(c, r),
           outcome' = [outcome EXCEPT ![c] = Append(@, r)], UNCHANGED <<asked, ran>>
    PROVE  \E how \in {"answer", "fallback", "none"} : Call!Resolve(c, how)
  <1>t. TypeOK /\ Local(c)
    BY DEF Inv
  <1>1. asked[c] = Len(outcome[c]) + 1 /\ Len(outcome[c]) \in Nat /\ Len(ran[c]) \in Nat
    BY <1>t, TypeAt DEF Local, ClientInv
  <1>2. PICK how \in {"answer", "fallback", "none"} : r = <<how, asked[c]>>
    BY DEF Responses
  <1>3. how = "answer" => Call!HasRun(c, asked[c])
    BY <1>2 DEF Sound, HasRun, Call!HasRun
  <1>4. how = "fallback" => ~Call!HasRun(c, asked[c])
    <2>. SUFFICES ASSUME how = "fallback" PROVE ~Call!HasRun(c, asked[c])
      OBVIOUS
    <2>1. \A i \in 1..Len(ran[c]) : ran[c][i] < asked[c] /\ ran[c][i] \in Numbers
      BY <1>2, <1>t, TypeAt DEF Sound, Below
    <2>2. \A i \in 1..Len(ran[c]) : ran[c][i] # asked[c]
      BY <2>1, <1>1, BoundIsNat DEF Numbers
    <2>. QED  BY <2>2 DEF Call!HasRun
  <1>. QED  BY <1>1, <1>2, <1>3, <1>4 DEF Call!Resolve

LEMMA RunIsRun ==
    ASSUME Inv, NEW c \in Clients, CacheRuns(c)
    PROVE  \E n \in 1..asked[c] : Call!Run(c, n)
  <1>k. PICK h : h = held[c]
    OBVIOUS
  <1>t. TypeOK /\ Local(c)
    BY DEF Inv
  <1>1. xpc[c] = "busy" /\ ran' = [ran EXCEPT ![c] = Append(@, xcmd[c])] /\ UNCHANGED <<asked, outcome>>
    BY DEF CacheRuns, CacheAt, clientState
  <1>2. xcmd[c] = h /\ h \in Numbers /\ Below(c, h)
    BY <1>k, <1>1, <1>t DEF Local, CacheInv
  <1>3. h \in 1..asked[c]
    BY <1>k, <1>2, <1>t, TypeAt, BoundIsNat DEF Local, HandlerInv, Numbers
  <1>4. ~Call!GivenUp(c, h)
    <2>. SUFFICES ASSUME NEW m \in 1..Len(outcome[c]), outcome[c][m] = <<"fallback", m>> PROVE FALSE
      BY DEF Call!GivenUp
    <2>1. Sound(c, outcome[c][m]) /\ outcome[c][m][1] = "fallback"
      BY <1>t DEF Local, OutcomeInv
    <2>2. Dead(c)
      BY <2>1 DEF Sound
    <2>. QED  BY <2>2, <1>1 DEF Dead
  <1>5. Call!Run(c, h)
    BY <1>1, <1>2, <1>3, <1>4 DEF Call!Run, Below
  <1>. QED  BY <1>3, <1>5

LEMMA ReadIsResolve ==
    ASSUME Inv, NEW c \in Clients, ClientReads(c)
    PROVE  \E how \in {"answer", "fallback", "none"} : Call!Resolve(c, how)
  <1>t. TypeOK /\ Local(c)
    BY DEF Inv
  <1>1. Waiting(c) /\ UNCHANGED <<asked, ran>>
    BY DEF ClientReads, GetReply, ReplyEnds, GetObjectThrows, LateReply, ClientAt, Waiting, Resolve, cacheState
  <1>2. CASE GetReply(c)
    <2>1. PICK r : r = Head(replies[c])
      OBVIOUS
    <2>2. outcome' = [outcome EXCEPT ![c] = Append(@, r)] /\ replies[c] # <<>>
      BY <2>1, <1>2 DEF GetReply, Resolve
    <2>3. replies[c] \in Seq(Responses)
      BY <1>t, TypeAt
    <2>4. r \in Responses /\ r = replies[c][1]
      BY <2>1, <2>2, <2>3, HeadTailProperties
    <2>5. r[2] = asked[c] /\ Sound(c, r)
      BY <2>2, <2>4, <1>t DEF Local, ReplyInv
    <2>. QED  BY <2>2, <2>4, <2>5, <1>1, ResolvesAs
  <1>3. CASE ~GetReply(c)
    <2>1. outcome' = [outcome EXCEPT ![c] = Append(@, Nothing(c))]
      BY <1>3 DEF ClientReads, ReplyEnds, GetObjectThrows, LateReply, Resolve
    <2>2. /\ Nothing(c) \in Responses \cup ({"none"} \X Numbers) /\ Nothing(c)[2] = asked[c]
          /\ Sound(c, Nothing(c))
      BY <1>1, <1>t, Unanswered
    <2>. QED  BY <2>1, <2>2, <1>1, ResolvesAs
  <1>. QED  BY <1>2, <1>3

LEMMA StepIsRpc == Inv /\ [Next]_vars => [Call!Next]_rpcVars
  <1>. SUFFICES ASSUME Inv, [Next]_vars PROVE Call!Next \/ UNCHANGED rpcVars
    OBVIOUS
  <1>1. CASE \E c \in Clients : Ask(c) \/ ClientReads(c) \/ CacheRuns(c)
    BY <1>1, AskIsAsk, ReadIsResolve, RunIsRun DEF Call!Next
  <1>2. ASSUME NEW c \in Clients, Accept(c) \/ Handler(c)
        PROVE  UNCHANGED rpcVars
    BY <1>2 DEF Accept, Handler, ConnectWithCache, ReceiveCommand, CommandEnds, DropLateCommand, SendCommand,
                ReceiveAnswer, AnswerEnds, DropLateAnswer, Reply, CloseChannel, CloseCacheChannel,
                clientState, cacheState, rpcVars
  <1>3. ASSUME NEW c \in Clients,
               \/ Connect(c) \/ Leave(c) \/ Timeouts(c) \/ CacheAccepts(c) \/ CacheReceives(c)
               \/ CacheReadEnds(c) \/ CacheThrows(c) \/ CacheReplies(c)
        PROVE  UNCHANGED rpcVars
    BY <1>3 DEF Connect, Leave, Timeouts, CacheAccepts, CacheReceives, CacheReadEnds, CacheThrows,
                CacheReplies, ReplyTimesOut, CommandTimesOut, AnswerTimesOut, CacheTimesOut,
                TimerClosesClient, TimerClosesLink, clientState, cacheState, rpcVars
  <1>4. CASE Crash \/ StartServer \/ UNCHANGED vars
    BY <1>4 DEF Crash, StartServer, vars, clientState, cacheState, rpcVars
  <1>. QED  BY <1>1, <1>2, <1>3, <1>4 DEF Next, Client, CacheHandler

\* The two servers and the connection between them run each command at most once and in
\* order, and resolve each ask once, whatever times out, closes, crashes and restarts.
THEOREM RelayIsRpc == Spec => ImplementsRpc
  <1>1. Init => Call!Init
    BY DEF Init, Everyone, Call!Init
  <1>2. Inv /\ [Next]_vars => [Call!Next]_<<asked, outcome, ran>>
    BY StepIsRpc DEF rpcVars
  <1>. QED  BY <1>1, <1>2, Always, PTL DEF Spec, ImplementsRpc, Call!Spec

=============================================================================
