---------------------------- MODULE FramingProofs ----------------------------
(***************************************************************************)
(* For every size of the prefix, the buffers and the objects: the receiver *)
(* never loses its place, the channel implements Fifo, and the receiver    *)
(* waits only when it has everything that was sent.  The argument is that  *)
(* of WireProofs, with Taken(S) for the bytes the receiver has taken: the  *)
(* frames of the objects it has returned, and what its buffer holds of the *)
(* next.                                                                   *)
(***************************************************************************)
EXTENDS Framing, WireProofs

Receiving == rpc \in {"header", "body"}
Taken(S) == S[Len(got) + 1] + (IF Receiving THEN CurrentPos ELSE 0)

ReceiverInv ==
    /\ rpc \in {"idle", "header", "body", "ended"}
    /\ Len(got) <= Len(sent)
    /\ \A k \in 1..Len(got) : got[k] = k
    /\ rpc = "header" => CurrentPos + DataLength = HeaderSize
    /\ rpc = "header" /\ CurrentPos > 0 => Len(got) < Len(sent)
    /\ rpc = "body" =>
         /\ Len(got) < Len(sent) /\ CurrentPos >= HeaderSize
         /\ CurrentPos + DataLength = FrameLength(Len(got) + 1)
    /\ Len(buffer) >= HeaderSize
    /\ Receiving =>
         /\ CurrentPos + DataLength <= Len(buffer)
         /\ \A i \in 1..CurrentPos : buffer[i] = <<Len(got) + 1, i - 1>>

\* Until the receiver has given up, the stream holds what follows the bytes taken.
StreamInv(S) == rpc # "ended" => StreamAt(S, Taken(S))

Inv ==
    /\ TypeOK /\ SenderInv /\ ReceiverInv
    /\ \E S : Starts(S) /\ StreamInv(S)

-----------------------------------------------------------------------------
\* Facts about types that every step uses.
LEMMA TypeFacts ==
    ASSUME TypeOK
    PROVE  /\ Len(sent) \in Nat /\ sent \in [1..Len(sent) -> 1..MaxBody] /\ Len(sent) <= MaxSent
           /\ Len(wire) \in Nat /\ wire \in [1..Len(wire) -> Bytes]
           /\ Len(buffer) \in Nat /\ buffer \in [1..Len(buffer) -> Bytes]
           /\ CurrentPos \in Nat /\ CurrentPos <= Len(buffer) /\ DataLength \in Nat
           /\ Len(got) \in Nat /\ got \in [1..Len(got) -> 1..MaxSent]
  <1>1. WireTypeOK /\ buffer \in Seq(Bytes) /\ got \in Seq(1..MaxSent)
    BY DEF TypeOK
  <1>2. Len(buffer) \in Nat /\ buffer \in [1..Len(buffer) -> Bytes]
        /\ Len(got) \in Nat /\ got \in [1..Len(got) -> 1..MaxSent]
    BY <1>1, LenProperties
  <1>3. CurrentPos \in 0..Len(buffer) /\ DataLength \in 0..(HeaderSize + MaxBody)
    BY DEF TypeOK
  <1>. QED  BY <1>1, <1>2, <1>3, WireFacts, Sizes

\* The message being received has a place, and the bytes taken are counted.
LEMMA TakenFacts ==
    ASSUME TypeOK, ReceiverInv, NEW S, Starts(S)
    PROVE  /\ Len(got) + 1 \in 1..Len(sent) + 1 /\ S[Len(got) + 1] \in Nat
           /\ Taken(S) \in Nat
  <1>1. Len(got) + 1 \in 1..Len(sent) + 1 /\ CurrentPos \in Nat
    BY TypeFacts DEF ReceiverInv
  <1>2. S[Len(got) + 1] \in Nat
    BY <1>1 DEF Starts
  <1>. QED  BY <1>1, <1>2 DEF Taken

LEMMA InitInv == Init => Inv
  <1>. SUFFICES ASSUME Init PROVE Inv
    OBVIOUS
  <1>1. [i \in 1..DefaultBufferSize |-> Junk] \in Seq(Bytes)
        /\ Len([i \in 1..DefaultBufferSize |-> Junk]) = DefaultBufferSize
    BY FunctionIsSeq, JunkIsByte, Sizes
  <1>2. <<>> \in Seq(1..MaxSent) /\ Len(<<>>) = 0
    BY EmptySeq
  <1>3. /\ WireTypeOK /\ SenderInv /\ Len(sent) = 0
        /\ \E S : Starts(S) /\ StreamAt(S, 0)
    BY WireInitInv DEF Init, WireInv
  <1>4. TypeOK
    <2>1. CurrentPos \in 0..Len(buffer) /\ DataLength \in 0..(HeaderSize + MaxBody)
      BY <1>1, Sizes DEF Init
    <2>. QED  BY <1>1, <1>2, <1>3, <2>1 DEF Init, TypeOK, ReceiverStates
  <1>5. ReceiverInv
    <2>1. Len(buffer) >= HeaderSize
      BY <1>1, Sizes DEF Init
    <2>2. rpc = "idle" /\ Len(got) = 0
      BY <1>2 DEF Init
    <2>. QED  BY <1>3, <2>1, <2>2 DEF ReceiverInv, Receiving
  <1>6. PICK S : Starts(S) /\ StreamAt(S, 0)
    BY <1>3
  <1>7. Taken(S) = 0
    <2>1. Len(got) = 0 /\ ~Receiving /\ S[1] = 0
      BY <1>2, <1>6 DEF Init, Receiving, Starts
    <2>. QED  BY <2>1 DEF Taken
  <1>. QED  BY <1>3, <1>4, <1>5, <1>6, <1>7 DEF Inv, StreamInv

-----------------------------------------------------------------------------
(* The sender.                                                             *)

LEMMA SenderKeeps ==
    ASSUME Inv, Sender, UNCHANGED <<receiveState, rpc, got>>
    PROVE  Inv'
  <1>t. TypeOK /\ ReceiverInv /\ WireInv
    BY DEF Inv, TypeOK, WireInv
  <1>1. /\ WireInv' /\ SentGrows
        /\ \A S : Starts(S) => StreamContinues(S)
    BY <1>t, SenderKeepsWire
  <1>2. TypeOK'
    BY <1>1, <1>t DEF TypeOK, WireInv, receiveState
  <1>3. /\ Len(sent) \in Nat /\ Len(sent)' \in Nat /\ Len(got) \in Nat
        /\ Len(sent) <= Len(sent)' /\ \A k \in 1..Len(sent) : FrameLength(k)' = FrameLength(k)
    BY <1>1, <1>2, <1>t, TypeFacts, LenProperties DEF TypeOK, WireTypeOK, SentGrows, FrameLength
  <1>4. rpc = "body" => FrameLength(Len(got) + 1)' = FrameLength(Len(got) + 1)
    BY <1>3, <1>t DEF ReceiverInv, FrameLength
  <1>5. ReceiverInv'
    BY <1>3, <1>4, <1>t DEF ReceiverInv, Receiving, receiveState
  <1>6. PICK S : Starts(S) /\ StreamInv(S)
    BY DEF Inv
  <1>7. PICK T : /\ Starts(T)' /\ \A k \in 1..Len(sent) + 1 : T[k] = S[k]
                 /\ \A t \in Nat : StreamAt(S, t) => StreamAt(T, t)'
    BY <1>1, <1>6, SenderKeepsWire, <1>t DEF StreamContinues
  <1>8. StreamInv(T)'
    <2>. SUFFICES ASSUME rpc' # "ended" PROVE StreamAt(T, Taken(T))'
      BY DEF StreamInv
    <2>1. PICK t : t = Taken(S)
      OBVIOUS
    <2>2. t \in Nat /\ StreamAt(S, t)
      BY <2>1, <1>6, <1>t, TakenFacts DEF StreamInv
    <2>3. Taken(T)' = t
      BY <2>1, <1>6, <1>7, <1>t, TakenFacts DEF Taken, Receiving, receiveState
    <2>. QED  BY <2>2, <2>3, <1>7
  <1>. QED  BY <1>1, <1>2, <1>5, <1>7, <1>8 DEF Inv, WireInv

-----------------------------------------------------------------------------
(* The receiver.                                                           *)

\* A step of the receiver that takes nothing from the stream.
LEMMA StreamFrame ==
    ASSUME Inv, TypeOK', ReceiverInv', UNCHANGED <<senderVars, wire, closed>>,
           rpc' # "ended" => rpc # "ended",
           \A S : rpc' # "ended" /\ Starts(S) => Taken(S)' = Taken(S)
    PROVE  Inv'
  <1>1. PICK S : Starts(S) /\ StreamInv(S)
    BY DEF Inv
  <1>2. /\ WireInv' /\ Starts(S)' /\ \A t : StreamAt(S, t) => StreamAt(S, t)'
    BY <1>1, WireUnchanged DEF Inv, WireInv, TypeOK
  <1>3. StreamInv(S)'
    <2>. SUFFICES ASSUME rpc' # "ended" PROVE StreamAt(S, Taken(S))'
      BY DEF StreamInv
    <2>1. PICK t : t = Taken(S)
      OBVIOUS
    <2>2. StreamAt(S, t) /\ Taken(S)' = t
      BY <2>1, <1>1 DEF StreamInv
    <2>. QED  BY <2>2, <1>2
  <1>. QED  BY <1>2, <1>3 DEF Inv, WireInv

LEMMA BeginReceiveKeeps == Inv /\ BeginReceive => Inv'
  <1>. SUFFICES ASSUME Inv, BeginReceive PROVE Inv'
    OBVIOUS
  <1>t. TypeOK /\ ReceiverInv
    BY DEF Inv
  <1>1. /\ rpc = "idle" /\ rpc' = "header" /\ DataLength' = HeaderSize /\ CurrentPos' = 0
        /\ buffer' = buffer /\ got' = got /\ UNCHANGED <<senderVars, wire, closed>>
    BY DEF BeginReceive, PrepareForHeader
  <1>2. TypeOK'
    <2>1. 0 \in 0..Len(buffer) /\ HeaderSize \in 0..(HeaderSize + MaxBody)
      BY <1>t, TypeFacts, Sizes
    <2>. QED  BY <2>1, <1>1, <1>t DEF TypeOK, WireTypeOK, senderVars, ReceiverStates
  <1>3. ReceiverInv'
    <2>1. Len(buffer) >= HeaderSize
      BY <1>t DEF ReceiverInv
    <2>. QED  BY <2>1, <1>1, <1>t, Sizes DEF ReceiverInv, Receiving, senderVars
  <1>4. \A S : Starts(S) => Taken(S)' = Taken(S)
    <2>. SUFFICES ASSUME NEW S, Starts(S) PROVE Taken(S)' = Taken(S)
      OBVIOUS
    <2>1. Taken(S)' = S[Len(got) + 1] + 0 /\ Taken(S) = S[Len(got) + 1] + 0
      BY <1>1 DEF Taken, Receiving
    <2>. QED  BY <2>1
  <1>. QED  BY <1>1, <1>2, <1>3, <1>4, StreamFrame

\* A read takes the next bytes of the message, and no byte of the one after it.
LEMMA ReadKeeps ==
    ASSUME Inv, NEW n \in Nat, Read(n)
    PROVE  Inv'
  <1>k. PICK L, C, D, B, g : /\ L = Len(wire) /\ C = CurrentPos /\ D = DataLength
                             /\ B = Len(buffer) /\ g = Len(got) + 1
    OBVIOUS
  <1>. USE <1>k
  <1>t. TypeOK /\ SenderInv /\ ReceiverInv
    BY DEF Inv
  <1>1. /\ Receiving /\ rpc \in {"header", "body"} /\ n \in 1..Smaller(D, L) /\ buffer' = Received(n)
        /\ wire' = SubSeq(wire, n + 1, L) /\ CurrentPos' = C + n /\ DataLength' = D - n
        /\ UNCHANGED senderVars /\ closed' = closed /\ rpc' = rpc /\ got' = got
    BY DEF Read, Receiving
  <1>2. /\ L \in Nat /\ C \in Nat /\ D \in Nat /\ B \in Nat /\ n >= 1 /\ n <= D /\ n <= L
        /\ C + D <= B /\ Len(got) \in Nat /\ Len(sent) \in Nat
    BY <1>1, <1>t, TypeFacts DEF Smaller, ReceiverInv
  <1>3. PICK S : Starts(S) /\ StreamInv(S)
    BY DEF Inv
  <1>4. ASSUME NEW i \in 1..n
        PROVE  Len(got) < Len(sent) /\ wire[i] = <<g, C + i - 1>>
    <2>1. i \in 1..L /\ i \in Nat /\ g \in 1..Len(sent) + 1
      BY <1>2, <1>3, <1>t, TakenFacts
    <2>2. C + i - 1 <= HeaderSize \/ (g <= Len(sent) /\ C + i - 1 < FrameLength(g))
      <3>1. CASE rpc = "header"
        BY <3>1, <1>2, <1>t, Sizes DEF ReceiverInv
      <3>2. CASE rpc = "body"
        <4>1. Len(got) < Len(sent) /\ C + D = FrameLength(Len(got) + 1)
          BY <3>2, <1>t DEF ReceiverInv
        <4>. QED  BY <4>1, <1>2
      <3>. QED  BY <3>1, <3>2, <1>1
    <2>3. StreamAt(S, S[g] + C) /\ WireTypeOK
      BY <1>1, <1>3, <1>t DEF StreamInv, Taken, TypeOK
    <2>4. g \in 1..Len(sent) /\ wire[i] = <<g, C + i - 1>>
      BY <2>1, <2>2, <2>3, <1>2, <1>3, ByteInPlace
    <2>. QED  BY <2>4, <1>2
  <1>5. /\ WireInv'
        /\ Starts(S)' /\ \A t \in Nat : StreamAt(S, t) => StreamAt(S, t + n)'
    <2>1. WireInv /\ n \in 1..Len(wire)
      BY <1>2, <1>t DEF WireInv, TypeOK
    <2>. QED  BY <2>1, <1>1, <1>3, TakeKeepsWire
  <1>6. /\ buffer' \in Seq(Bytes) /\ Len(buffer)' = B
        /\ \A i \in 1..B : buffer'[i] = IF i \in C + 1 .. C + n THEN wire[i - C] ELSE buffer[i]
    <2>1. /\ buffer' = [i \in 1..B |-> IF i \in C + 1 .. C + n THEN wire[i - C] ELSE buffer[i]]
      BY <1>1 DEF Received
    <2>2. \A i \in 1..B : i \in C + 1 .. C + n => i - C \in 1..L
      BY <1>2
    <2>3. buffer' \in [1..B -> Bytes]
      BY <2>1, <2>2, <1>t, TypeFacts
    <2>. QED  BY <2>1, <2>3, <1>2, FunctionIsSeq
  <1>7. TypeOK'
    <2>1. C + n \in 0..B /\ D - n \in 0..(HeaderSize + MaxBody)
      <3>1. D \in 0..(HeaderSize + MaxBody)
        BY <1>t DEF TypeOK
      <3>. QED  BY <3>1, <1>2, Sizes
    <2>. QED  BY <2>1, <1>1, <1>5, <1>6, <1>t DEF TypeOK, WireInv
  <1>8. 1 \in 1..n /\ Len(got) < Len(sent)
    BY <1>2, <1>4
  <1>9. ReceiverInv'
    <2>1. ASSUME NEW i \in 1..(C + n)
          PROVE  buffer'[i] = <<g, i - 1>>
      <3>1. i \in 1..B
        BY <1>2
      <3>2. CASE i <= C
        <4>1. i \in 1..C /\ i \notin C + 1 .. C + n
          BY <3>2, <1>2
        <4>. QED  BY <3>1, <4>1, <1>1, <1>6, <1>t DEF ReceiverInv
      <3>3. CASE i > C
        <4>1. i \in C + 1 .. C + n /\ i - C \in 1..n /\ C + (i - C) - 1 = i - 1
          BY <3>3, <1>2
        <4>. QED  BY <3>1, <4>1, <1>4, <1>6
      <3>. QED  BY <3>2, <3>3, <1>2
    <2>2. (C + n) + (D - n) = C + D /\ C + n >= C
      BY <1>2
    <2>3. sent' = sent /\ FrameLength(Len(got) + 1)' = FrameLength(Len(got) + 1)
      BY <1>1 DEF senderVars, FrameLength
    <2>4. rpc = "header" => C + D = HeaderSize
      BY <1>t DEF ReceiverInv
    <2>5. rpc = "body" => C + n >= HeaderSize /\ C + D = FrameLength(Len(got) + 1)
      BY <1>t, <1>2, Sizes DEF ReceiverInv
    <2>6. /\ Len(got) <= Len(sent) /\ B >= HeaderSize /\ \A k \in 1..Len(got) : got[k] = k
      BY <1>t DEF ReceiverInv
    <2>. QED  BY <2>1, <2>2, <2>3, <2>4, <2>5, <2>6, <1>1, <1>2, <1>6, <1>8 DEF ReceiverInv, Receiving
  <1>10. StreamInv(S)'
    <2>1. PICK t : t = S[g] + C
      OBVIOUS
    <2>2. t \in Nat /\ Taken(S) = t /\ StreamAt(S, t)
      BY <2>1, <1>1, <1>3, <1>t, TakenFacts DEF Taken, StreamInv
    <2>3. Taken(S)' = t + n
      <3>1. S[g] \in Nat /\ Taken(S)' = S[g] + (C + n)
        BY <1>1, <1>3, <1>t, TakenFacts DEF Taken, Receiving
      <3>. QED  BY <3>1, <2>1, <1>2
    <2>. QED  BY <2>2, <2>3, <1>5 DEF StreamInv
  <1>. QED  BY <1>5, <1>7, <1>9, <1>10 DEF Inv, WireInv

\* The prefix that has been received is the prefix of the next object.
LEMMA HeaderIsNext ==
    ASSUME Inv, rpc = "header", DataLength = 0
    PROVE  /\ CurrentPos = HeaderSize /\ Len(got) < Len(sent)
           /\ HeaderOf(buffer) = Len(got) + 1 /\ HeaderOf(buffer) # 0
  <1>1. TypeOK /\ ReceiverInv
    BY DEF Inv
  <1>2. CurrentPos = HeaderSize /\ Len(got) < Len(sent) /\ Len(got) \in Nat
    BY <1>1, TypeFacts, Sizes DEF ReceiverInv
  <1>3. \A i \in 1..HeaderSize : buffer[i] = <<Len(got) + 1, i - 1>>
    BY <1>1, <1>2 DEF ReceiverInv, Receiving
  <1>4. 1 \in 1..HeaderSize
    BY Sizes
  <1>5. buffer[1][1] = Len(got) + 1
    BY <1>3, <1>4
  <1>6. HeaderOf(buffer) = Len(got) + 1
    BY <1>3, <1>5 DEF HeaderOf
  <1>. QED  BY <1>2, <1>6

LEMMA HeaderReceivedKeeps == Inv /\ HeaderReceived => Inv'
  <1>. SUFFICES ASSUME Inv, HeaderReceived PROVE Inv'
    OBVIOUS
  <1>k. PICK g, n : g = Len(got) + 1 /\ n = sent[g]
    OBVIOUS
  <1>. USE <1>k
  <1>t. TypeOK /\ ReceiverInv
    BY DEF Inv
  <1>1. /\ rpc = "header" /\ DataLength = 0 /\ UNCHANGED <<senderVars, wire, closed>> /\ got' = got
    BY DEF HeaderReceived
  <1>2. CurrentPos = HeaderSize /\ Len(got) < Len(sent) /\ HeaderOf(buffer) = g /\ g # 0
    BY <1>1, HeaderIsNext
  <1>3. /\ rpc' = "body" /\ buffer' = AdjustBuffer(buffer, CurrentPos, n) /\ DataLength' = n
        /\ CurrentPos' = CurrentPos
    BY <1>1, <1>2 DEF HeaderReceived, PrepareForBody
  <1>4. /\ Len(got) \in Nat /\ Len(sent) \in Nat /\ g \in 1..Len(sent) /\ n \in 1..MaxBody /\ n \in Nat
        /\ FrameLength(g) = HeaderSize + n
    <2>1. Len(got) \in Nat /\ Len(sent) \in Nat /\ sent \in [1..Len(sent) -> 1..MaxBody]
      BY <1>t, TypeFacts
    <2>2. g \in 1..Len(sent)
      BY <2>1, <1>2
    <2>. QED  BY <2>1, <2>2, Sizes DEF FrameLength
  <1>5. /\ buffer' \in Seq(Bytes) /\ Len(buffer)' \in Nat /\ Len(buffer)' >= HeaderSize + n
        /\ \A i \in 1..HeaderSize : buffer'[i] = buffer[i]
    <2>1. buffer \in Seq(Bytes) /\ HeaderSize \in 0..Len(buffer)
      BY <1>2, <1>t DEF TypeOK
    <2>. QED  BY <2>1, <1>2, <1>3, <1>4, AdjustKeeps
  <1>6. TypeOK'
    <2>1. HeaderSize \in 0..Len(buffer)' /\ n \in 0..(HeaderSize + MaxBody)
      BY <1>4, <1>5, Sizes
    <2>. QED  BY <2>1, <1>1, <1>2, <1>3, <1>5, <1>t DEF TypeOK, WireTypeOK, ReceiverStates, senderVars
  <1>7. ReceiverInv'
    <2>1. \A i \in 1..HeaderSize : buffer'[i] = <<g, i - 1>>
      BY <1>1, <1>2, <1>5, <1>t DEF ReceiverInv, Receiving
    <2>2. sent' = sent /\ FrameLength(Len(got) + 1)' = HeaderSize + n
      BY <1>1, <1>4 DEF senderVars, FrameLength
    <2>3. Len(got) <= Len(sent) /\ \A k \in 1..Len(got) : got[k] = k
      BY <1>t DEF ReceiverInv
    <2>4. Len(buffer)' >= HeaderSize /\ HeaderSize >= HeaderSize
      BY <1>4, <1>5, Sizes
    <2>. QED  BY <2>1, <2>2, <2>3, <2>4, <1>1, <1>2, <1>3, <1>5 DEF ReceiverInv, Receiving
  <1>8. \A S : Starts(S) => Taken(S)' = Taken(S)
    BY <1>1, <1>3 DEF Taken, Receiving
  <1>. QED  BY <1>1, <1>6, <1>7, <1>8, StreamFrame

\* The body that has been received is the body of the next object.
LEMMA BodyIsNext ==
    ASSUME Inv, rpc = "body", DataLength = 0
    PROVE  /\ Len(got) < Len(sent) /\ CurrentPos = FrameLength(Len(got) + 1)
           /\ BodyOf(buffer) = Len(got) + 1 /\ BodyOf(buffer) # 0
  <1>k. PICK g, n : g = Len(got) + 1 /\ n = sent[g]
    OBVIOUS
  <1>. USE <1>k
  <1>1. TypeOK /\ ReceiverInv
    BY DEF Inv
  <1>2. /\ Len(got) < Len(sent) /\ CurrentPos + DataLength = FrameLength(g)
        /\ CurrentPos + DataLength <= Len(buffer)
        /\ \A i \in 1..CurrentPos : buffer[i] = <<g, i - 1>>
    BY <1>1 DEF ReceiverInv, Receiving
  <1>3. /\ Len(got) \in Nat /\ Len(sent) \in Nat /\ sent \in [1..Len(sent) -> 1..MaxBody]
        /\ CurrentPos \in Nat /\ DOMAIN sent = 1..Len(sent)
    BY <1>1, TypeFacts
  <1>4. /\ g \in DOMAIN sent /\ n \in Nat /\ n >= 1 /\ CurrentPos = HeaderSize + n
        /\ FrameLength(g) = HeaderSize + n /\ HeaderSize + n <= Len(buffer)
    <2>1. g \in DOMAIN sent
      BY <1>2, <1>3
    <2>2. n \in 1..MaxBody /\ FrameLength(g) = HeaderSize + n
      BY <2>1, <1>3 DEF FrameLength
    <2>. QED  BY <2>1, <2>2, <1>2, <1>3, Sizes
  <1>5. \A j \in 1..n : buffer[HeaderSize + j] = <<g, HeaderSize + j - 1>>
    <2>1. \A j \in 1..n : HeaderSize + j \in 1..CurrentPos
      BY <1>4, Sizes
    <2>2. \A j \in 1..n : (HeaderSize + j) - 1 = HeaderSize + j - 1
      BY <1>4, Sizes
    <2>3. \A j \in 1..n : buffer[HeaderSize + j] = <<g, (HeaderSize + j) - 1>>
      BY <2>1, <1>2, Zenon
    <2>. QED  BY <2>2, <2>3, Zenon
  <1>6. buffer[HeaderSize + 1][1] = g
    <2>1. 1 \in 1..n
      BY <1>4
    <2>. QED  BY <2>1, <1>5
  <1>7. BodyOf(buffer) = g
    BY <1>4, <1>5, <1>6 DEF BodyOf, BodyAt
  <1>. QED  BY <1>2, <1>3, <1>4, <1>7

LEMMA DeserializeKeeps == Inv /\ Deserialize => Inv'
  <1>. SUFFICES ASSUME Inv, Deserialize PROVE Inv'
    OBVIOUS
  <1>k. PICK g : g = Len(got) + 1
    OBVIOUS
  <1>. USE <1>k
  <1>t. TypeOK /\ ReceiverInv
    BY DEF Inv
  <1>1. /\ rpc = "body" /\ DataLength = 0 /\ UNCHANGED <<senderVars, wire, closed>>
        /\ buffer' = buffer /\ CurrentPos' = CurrentPos /\ DataLength' = DataLength
    BY DEF Deserialize, receiveState
  <1>2. Len(got) < Len(sent) /\ CurrentPos = FrameLength(g) /\ BodyOf(buffer) = g /\ g # 0
    BY <1>1, BodyIsNext
  <1>3. rpc' = "idle" /\ got' = Append(got, g)
    BY <1>2 DEF Deserialize
  <1>4. /\ Len(got) \in Nat /\ Len(sent) \in Nat /\ Len(sent) <= MaxSent /\ got \in Seq(1..MaxSent)
    BY <1>t, TypeFacts DEF TypeOK
  <1>5. g \in 1..MaxSent /\ g \in 1..Len(sent)
    BY <1>2, <1>4, Sizes
  <1>6. /\ got' \in Seq(1..MaxSent) /\ Len(got)' = g
        /\ \A k \in 1..Len(got) : got'[k] = got[k] /\ got'[g] = g
    BY <1>3, <1>4, <1>5, AppendProperties
  <1>7. TypeOK'
    BY <1>1, <1>3, <1>6, <1>t DEF TypeOK, WireTypeOK, ReceiverStates, senderVars
  <1>8. ReceiverInv'
    <2>1. \A k \in 1..g : got'[k] = k
      <3>1. \A k \in 1..Len(got) : got'[k] = k
        BY <1>6, <1>t DEF ReceiverInv
      <3>2. got'[g] = g
        BY <1>3, <1>4, <1>5, AppendProperties
      <3>3. \A k \in 1..g : k \in 1..Len(got) \/ k = g
        BY <1>4
      <3>. QED  BY <3>1, <3>2, <3>3
    <2>2. g <= Len(sent) /\ sent' = sent /\ Len(buffer) >= HeaderSize
      BY <1>1, <1>5, <1>t DEF ReceiverInv, senderVars
    <2>. QED  BY <2>1, <2>2, <1>1, <1>3, <1>6 DEF ReceiverInv, Receiving
  <1>9. ASSUME NEW S, Starts(S)
        PROVE  Taken(S)' = Taken(S)
    <2>1. Taken(S) = S[g] + FrameLength(g)
      BY <1>1, <1>2 DEF Taken, Receiving
    <2>2. S[g + 1] = S[g] + FrameLength(g) /\ S[g + 1] \in Nat
      <3>1. g + 1 \in 1..Len(sent) + 1
        BY <1>4, <1>5
      <3>. QED  BY <3>1, <1>5, <1>9 DEF Starts
    <2>3. Taken(S)' = S[g + 1] + 0
      BY <1>3, <1>6 DEF Taken, Receiving
    <2>. QED  BY <2>1, <2>2, <2>3
  <1>. QED  BY <1>1, <1>7, <1>8, <1>9, StreamFrame

\* A receiver that gives up keeps what it has.
LEMMA GiveUpKeeps ==
    ASSUME Inv, rpc' = "ended", UNCHANGED <<senderVars, wire, closed, receiveState, got>>
    PROVE  Inv'
  <1>t. TypeOK /\ ReceiverInv
    BY DEF Inv
  <1>1. TypeOK'
    BY <1>t DEF TypeOK, WireTypeOK, ReceiverStates, senderVars, receiveState
  <1>2. ReceiverInv'
    BY <1>t DEF ReceiverInv, Receiving, senderVars, receiveState
  <1>3. \A S : rpc' # "ended" /\ Starts(S) => Taken(S)' = Taken(S)
    OBVIOUS
  <1>. QED  BY <1>1, <1>2, <1>3, StreamFrame

-----------------------------------------------------------------------------
(* The theorems.                                                           *)

LEMMA NextInv == Inv /\ [Next]_vars => Inv'
  <1>. SUFFICES ASSUME Inv, [Next]_vars PROVE Inv'
    OBVIOUS
  <1>1. CASE Send
    BY <1>1, SenderKeeps DEF Send
  <1>2. CASE BeginReceive
    BY <1>2, BeginReceiveKeeps
  <1>3. CASE HeaderReceived
    BY <1>3, HeaderReceivedKeeps
  <1>4. CASE Deserialize
    BY <1>4, DeserializeKeeps
  <1>5. CASE ReadEnds \/ ReadTimesOut
    BY <1>5, GiveUpKeeps DEF ReadEnds, ReadTimesOut
  <1>6. CASE \E n \in 1..(HeaderSize + MaxBody) : Read(n)
    BY <1>6, ReadKeeps, Sizes
  <1>7. CASE UNCHANGED vars
    <2>1. TypeOK' /\ ReceiverInv'
      BY <1>7 DEF Inv, TypeOK, WireTypeOK, ReceiverInv, Receiving, FrameLength,
                  vars, senderVars, receiveState
    <2>2. \A S : rpc' # "ended" /\ Starts(S) => Taken(S)' = Taken(S)
      BY <1>7 DEF Taken, Receiving, vars, receiveState
    <2>. QED  BY <1>7, <2>1, <2>2, StreamFrame DEF vars
  <1>. QED  BY <1>1, <1>2, <1>3, <1>4, <1>5, <1>6, <1>7 DEF Next, Receiver

LEMMA Always == Spec => []Inv
  <1>. QED  BY InitInv, NextInv, PTL DEF Spec

\* Whatever the sizes of prefix, buffers and objects, the counts of ReceiveState
\* and SendState stay within their buffers, and only sent objects are returned.
THEOREM TypeCorrect == Spec => []TypeOK
  <1>1. Inv => TypeOK
    BY DEF Inv
  <1>. QED  BY <1>1, Always, PTL

\* ReceiveAsync never passes an offset and a count that do not fit its buffer:
\* AdjustBuffer makes the room before the body is awaited.
THEOREM ReadsFit == Spec => []ReadFits
  <1>1. Inv => ReadFits
    BY DEF Inv, ReceiverInv, Receiving, ReadFits
  <1>. QED  BY <1>1, Always, PTL

\* The receiver never reads a length prefix, or a body, where there is none, however
\* the stream cuts the frames.
THEOREM StaysInSync == Spec => []InSync
  <1>1. Inv => InSync
    BY DEF Inv, ReceiverInv, InSync
  <1>. QED  BY <1>1, Always, PTL

\* Between two messages, what comes next is the first byte of the next frame.
THEOREM StreamAligned == Spec => []Aligned
  <1>1. Inv => Aligned
    <2>. SUFFICES ASSUME Inv, rpc = "idle", wire # <<>>
                  PROVE  wire[1] = <<Len(got) + 1, 0>>
      BY DEF Aligned
    <2>1. TypeOK /\ ReceiverInv /\ rpc # "ended" /\ ~Receiving
      BY DEF Inv, Receiving
    <2>2. PICK S : Starts(S) /\ StreamInv(S)
      BY DEF Inv
    <2>3. wire \in Seq(Bytes) /\ Len(wire) \in Nat /\ Len(wire) # 0
      BY <2>1, TypeFacts, EmptySeq DEF TypeOK, WireTypeOK
    <2>4. 1 \in 1..Len(wire) /\ 0 + 1 - 1 <= HeaderSize /\ 0 \in Nat
      BY <2>3, Sizes
    <2>5. Len(got) + 1 \in 1..Len(sent) + 1 /\ StreamAt(S, S[Len(got) + 1] + 0)
      BY <2>1, <2>2, TakenFacts DEF Taken, StreamInv
    <2>6. wire[1] = <<Len(got) + 1, 0 + 1 - 1>>
      BY <2>1, <2>2, <2>4, <2>5, ByteInPlace DEF TypeOK
    <2>. QED  BY <2>6
  <1>. QED  BY <1>1, Always, PTL

\* A receiver that waits has taken less than the whole of the message it receives, and
\* what it has not taken is written or in the stream; so it never waits for bytes
\* that nobody owes it.  (This is the safety half of Delivered: the fairness of writer
\* and receiver does the rest.)
THEOREM WaitsForSomething == Spec => []NothingAwaited
  <1>1. Inv => NothingAwaited
    <2>. SUFFICES ASSUME Inv, Receiving, DataLength > 0, ~closed, wire = <<>>, sendPos = sendLen
                  PROVE  Len(got) = Len(sent)
      BY DEF NothingAwaited, Receiving
    <2>t. TypeOK /\ ReceiverInv /\ WireInv
      BY DEF Inv, TypeOK, WireInv
    <2>1. PICK S : Starts(S) /\ StreamInv(S)
      BY DEF Inv
    <2>2. PICK g, c : g = Len(got) + 1 /\ c = CurrentPos
      OBVIOUS
    <2>3. /\ g \in 1..Len(sent) + 1 /\ c \in Nat /\ DataLength \in Nat
          /\ Len(got) \in Nat /\ Len(sent) \in Nat
      BY <2>1, <2>2, <2>t, TakenFacts, TypeFacts
    <2>4. StreamAt(S, S[g] + c)
      BY <2>1, <2>2 DEF StreamInv, Taken, Receiving
    <2>5. g <= Len(sent) => c < FrameLength(g)
      <3>. SUFFICES ASSUME g <= Len(sent) PROVE c < FrameLength(g)
        OBVIOUS
      <3>1. FrameLength(g) \in Nat /\ FrameLength(g) > HeaderSize
        <4>1. g \in 1..Len(sent) /\ sent \in [1..Len(sent) -> 1..MaxBody]
          BY <2>3, <2>t, TypeFacts
        <4>2. sent[g] \in 1..MaxBody
          BY <4>1
        <4>. QED  BY <4>2, Sizes DEF FrameLength
      <3>2. CASE rpc = "header"
        <4>1. c + DataLength = HeaderSize
          BY <3>2, <2>2, <2>t DEF ReceiverInv
        <4>. QED  BY <4>1, <3>1, <2>3, Sizes
      <3>3. CASE rpc = "body"
        <4>1. c + DataLength = FrameLength(g)
          BY <3>3, <2>2, <2>t DEF ReceiverInv
        <4>. QED  BY <4>1, <3>1, <2>3
      <3>. QED  BY <3>2, <3>3 DEF Receiving
    <2>6. g = Len(sent) + 1
      BY <2>1, <2>3, <2>4, <2>5, <2>t, NothingMissing
    <2>. QED  BY <2>2, <2>3, <2>6
  <1>. QED  BY <1>1, Always, PTL

LEMMA InitIsFifo == Init => Channel!Init
  <1>. SUFFICES ASSUME Init PROVE Channel!Init
    OBVIOUS
  <1>1. sent = <<>> /\ got = <<>> /\ Len(sent) = 0
    BY EmptySeq DEF Init, WireInit
  <1>2. [k \in 1..Len(sent) |-> k] = <<>>
    BY <1>1
  <1>. QED  BY <1>1, <1>2 DEF Channel!Init

LEMMA StepIsFifo ==
    Inv /\ Inv' /\ [Next]_vars =>
        [Channel!Send \/ Channel!Get]_<<[k \in 1..Len(sent) |-> k], got>>
  <1>. SUFFICES ASSUME Inv, Inv', [Next]_vars
                PROVE  [Channel!Send \/ Channel!Get]_<<[k \in 1..Len(sent) |-> k], got>>
    OBVIOUS
  <1>k. PICK K, G : K = Len(sent) /\ G = Len(got)
    OBVIOUS
  <1>. USE <1>k
  <1>t. TypeOK
    BY DEF Inv
  <1>1. K \in Nat /\ K <= MaxSent /\ G \in Nat
    BY <1>t, TypeFacts
  <1>. DEFINE ids == [k \in 1..K |-> k]
  <1>2. CASE \E n \in 1..MaxBody : SendObject(n) /\ UNCHANGED <<receiveState, rpc, got>>
    <2>1. K < MaxSent /\ got' = got /\ \E n \in 1..MaxBody : sent' = Append(sent, n)
      BY <1>2 DEF SendObject
    <2>2. Len(sent') = K + 1
      BY <2>1, <1>t, AppendProperties DEF TypeOK, WireTypeOK
    <2>3. ids \in Seq(1..MaxSent) /\ Len(ids) = K /\ K + 1 \in 1..MaxSent
      BY <2>1, <1>1, FunctionIsSeq, Sizes
    <2>4. [k \in 1..(K + 1) |-> k] = Append(ids, K + 1)
      BY <2>3, <1>1
    <2>5. Channel!Send
      BY <2>1, <2>2, <2>3, <2>4 DEF Channel!Send
    <2>. QED  BY <2>5
  <1>3. CASE Deserialize
    <2>1. rpc = "body" /\ DataLength = 0 /\ sent' = sent
      BY <1>3 DEF Deserialize, senderVars
    <2>2. G < K /\ BodyOf(buffer) = G + 1 /\ BodyOf(buffer) # 0
      BY <2>1, BodyIsNext
    <2>3. got' = Append(got, G + 1)
      BY <1>3, <2>2 DEF Deserialize
    <2>4. ids \in Seq(1..MaxSent) /\ Len(ids) = K /\ G + 1 \in 1..K
      BY <2>2, <1>1, FunctionIsSeq, Sizes
    <2>5. ids[G + 1] = G + 1
      BY <2>4
    <2>6. Channel!Get
      BY <2>1, <2>2, <2>3, <2>4, <2>5 DEF Channel!Get
    <2>. QED  BY <2>6
  <1>4. CASE UNCHANGED <<sent, got>>
    BY <1>4
  <1>5. \/ \E n \in 1..MaxBody : SendObject(n) /\ UNCHANGED <<receiveState, rpc, got>>
        \/ Deserialize
        \/ UNCHANGED <<sent, got>>
    BY DEF Next, Send, Sender, Receiver, Hangup, Write, BeginReceive, HeaderReceived, Read,
           ReadEnds, ReadTimesOut, vars, senderVars, receiveState
  <1>. QED  BY <1>2, <1>3, <1>4, <1>5

\* One direction of an ASyncChannel implements a queue: GetObject returns the objects
\* given to SendObjectAsync, in order, each once and whole, up to where the connection
\* ended.
THEOREM ChannelIsFifo == Spec => DeliversInOrder
  <1>1. Init => Channel!Init
    BY InitIsFifo
  <1>2. Inv /\ Inv' /\ [Next]_vars =>
            [Channel!Send \/ Channel!Get]_<<[k \in 1..Len(sent) |-> k], got>>
    BY StepIsFifo
  <1>. QED  BY <1>1, <1>2, Always, PTL DEF Spec, DeliversInOrder, Channel!Spec

=============================================================================
