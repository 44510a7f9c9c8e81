-------------------------- MODULE SyncFramingProofs --------------------------
(***************************************************************************)
(* For every size of the prefix, the buffers and the objects: the two      *)
(* synchronous receivers keep their place until the one thing has happened *)
(* that their loop cannot take.  The argument is that of WireProofs.  Up   *)
(* to the slip the buffer holds a part of the frame of the next object,    *)
(* from the byte Offset on: Channel puts the body over the prefix, and so  *)
(* its buffer starts with the byte HeaderSize while it reads a body.       *)
(* After the slip nothing is known of the buffer but that its bytes are of *)
(* objects that were sent, which the types still need.                     *)
(***************************************************************************)
EXTENDS SyncFraming, WireProofs

Receiving == rpc \in {"header", "body"}
Offset == IF rpc = "body" /\ mode = "Channel" THEN HeaderSize ELSE 0
Place == IF Receiving THEN Offset + CurrentPos ELSE 0
Taken(S) == S[Len(got) + 1] + Place

BufferInv ==
    /\ Len(buffer) >= DefaultBufferSize
    /\ mode = "Channel" => Len(buffer) = DefaultBufferSize
    /\ \A i \in 1..Len(buffer) : buffer[i][1] \in 0..Len(sent)

PlaceInv ==
    /\ rpc # "garbled"
    /\ Len(got) <= Len(sent)
    /\ \A i \in 1..Len(got) : got[i] = i
    /\ rpc = "header" =>
         /\ CurrentPos + DataLength = HeaderSize
         /\ mode = "ASyncChannel" => CurrentPos \in {0, HeaderSize}
         /\ CurrentPos > 0 => Len(got) < Len(sent)
    /\ rpc = "body" =>
         /\ Len(got) < Len(sent) /\ Place >= HeaderSize
         /\ Place + DataLength = FrameLength(Len(got) + 1)
    /\ Receiving => \A i \in 1..CurrentPos : buffer[i] = <<Len(got) + 1, Offset + i - 1>>

\* Channel slips only on a body that its buffer does not hold.
SlipInv == slipped /\ mode = "Channel" => \E k \in 1..Len(sent) : sent[k] > DefaultBufferSize

StreamInv(S) == rpc \notin {"spinning", "failed"} => StreamAt(S, Taken(S))

Inv ==
    /\ TypeOK /\ SenderInv /\ BufferInv /\ SlipInv
    /\ ~slipped => PlaceInv
    /\ \E S : Starts(S) /\ (~slipped => StreamInv(S))

-----------------------------------------------------------------------------
LEMMA TypeFacts ==
    ASSUME TypeOK
    PROVE  /\ Len(sent) \in Nat /\ sent \in [1..Len(sent) -> 1..MaxBody] /\ Len(sent) <= MaxSent
           /\ DOMAIN sent = 1..Len(sent)
           /\ Len(wire) \in Nat /\ wire \in [1..Len(wire) -> Bytes]
           /\ Len(buffer) \in Nat /\ buffer \in [1..Len(buffer) -> Bytes]
           /\ CurrentPos \in Nat /\ CurrentPos <= Len(buffer) /\ DataLength \in Nat
           /\ Len(got) \in Nat /\ got \in [1..Len(got) -> 1..MaxSent]
           /\ Offset \in Nat /\ Place \in Nat
  <1>1. WireTypeOK /\ buffer \in Seq(Bytes) /\ got \in Seq(1..MaxSent)
    BY DEF TypeOK
  <1>2. Len(buffer) \in Nat /\ buffer \in [1..Len(buffer) -> Bytes]
        /\ Len(got) \in Nat /\ got \in [1..Len(got) -> 1..MaxSent]
    BY <1>1, LenProperties
  <1>3. CurrentPos \in 0..Len(buffer) /\ DataLength \in 0..(HeaderSize + MaxBody)
    BY DEF TypeOK
  <1>4. Offset \in Nat
    BY Sizes DEF Offset
  <1>5. Place \in Nat
    BY <1>2, <1>3, <1>4 DEF Place
  <1>. QED  BY <1>1, <1>2, <1>3, <1>4, <1>5, WireFacts, Sizes

\* While the receiver has its place, the message it receives has a number, and the
\* bytes it has taken are counted.
LEMMA TakenFacts ==
    ASSUME TypeOK, PlaceInv, NEW S, Starts(S)
    PROVE  /\ Len(got) + 1 \in 1..Len(sent) + 1 /\ S[Len(got) + 1] \in Nat
           /\ Taken(S) \in Nat
  <1>1. Len(got) + 1 \in 1..Len(sent) + 1 /\ Place \in Nat
    BY TypeFacts DEF PlaceInv
  <1>2. S[Len(got) + 1] \in Nat
    BY <1>1 DEF Starts
  <1>. QED  BY <1>1, <1>2 DEF Taken

LEMMA InitInv == Init => Inv
  <1>. SUFFICES ASSUME Init PROVE Inv
    OBVIOUS
  <1>1. /\ buffer \in Seq(Bytes) /\ Len(buffer) = DefaultBufferSize
        /\ \A i \in 1..Len(buffer) : buffer[i] = Junk
    <2>1. buffer = [i \in 1..DefaultBufferSize |-> Junk]
      BY DEF Init
    <2>. QED  BY <2>1, FunctionIsSeq, JunkIsByte, Sizes
  <1>2. <<>> \in Seq(1..MaxSent) /\ Len(<<>>) = 0
    BY EmptySeq
  <1>3. /\ WireTypeOK /\ SenderInv /\ Len(sent) = 0
        /\ \E S : Starts(S) /\ StreamAt(S, 0)
    BY WireInitInv DEF Init, WireInv
  <1>4. TypeOK
    <2>1. CurrentPos \in 0..Len(buffer) /\ DataLength \in 0..(HeaderSize + MaxBody)
      BY <1>1, Sizes DEF Init
    <2>. QED  BY <1>1, <1>2, <1>3, <2>1 DEF Init, TypeOK
  <1>5. BufferInv
    BY <1>1, <1>3, Sizes DEF BufferInv, Junk
  <1>6. PlaceInv /\ SlipInv
    BY <1>2, <1>3 DEF Init, PlaceInv, SlipInv, Receiving
  <1>7. PICK S : Starts(S) /\ StreamAt(S, 0)
    BY <1>3
  <1>8. Taken(S) = 0
    <2>1. Len(got) = 0 /\ ~Receiving /\ S[1] = 0
      BY <1>2, <1>7 DEF Init, Receiving, Starts
    <2>. QED  BY <2>1 DEF Taken, Place
  <1>. QED  BY <1>3, <1>4, <1>5, <1>6, <1>7, <1>8 DEF Inv, StreamInv

-----------------------------------------------------------------------------
(* The sender.                                                             *)

LEMMA SenderKeeps ==
    ASSUME Inv, Sender, UNCHANGED <<mode, receiveState, rpc, got, slipped>>
    PROVE  Inv'
  <1>t. TypeOK /\ WireInv /\ BufferInv /\ SlipInv
    BY DEF Inv, TypeOK, WireInv
  <1>1. /\ WireInv' /\ SentGrows
        /\ \A S : Starts(S) => StreamContinues(S)
    BY <1>t, SenderKeepsWire
  <1>2. TypeOK'
    BY <1>1, <1>t DEF TypeOK, WireInv, receiveState
  <1>3. /\ Len(sent) \in Nat /\ Len(sent)' \in Nat /\ Len(got) \in Nat
        /\ Len(sent) <= Len(sent)' /\ \A k \in 1..Len(sent) : sent'[k] = sent[k]
    BY <1>1, <1>2, <1>t, TypeFacts, LenProperties DEF TypeOK, WireTypeOK, SentGrows
  <1>4. BufferInv'
    BY <1>3, <1>t DEF BufferInv, receiveState
  <1>5. SlipInv'
    <2>. SUFFICES ASSUME slipped, mode = "Channel"
                  PROVE  \E k \in 1..Len(sent)' : sent'[k] > DefaultBufferSize
      BY DEF SlipInv
    <2>1. PICK k \in 1..Len(sent) : sent[k] > DefaultBufferSize
      BY <1>t DEF SlipInv
    <2>. QED  BY <2>1, <1>3
  <1>6. Offset' = Offset /\ Place' = Place /\ Receiving' = Receiving
    BY DEF Offset, Place, Receiving, receiveState
  <1>7. ASSUME ~slipped
        PROVE  PlaceInv /\ PlaceInv'
    <2>1. PlaceInv
      BY <1>7 DEF Inv
    <2>2. rpc = "body" => FrameLength(Len(got) + 1)' = FrameLength(Len(got) + 1)
      BY <2>1, <1>3 DEF PlaceInv, FrameLength
    <2>3. PlaceInv'
      BY <2>1, <2>2, <1>3, <1>6 DEF PlaceInv, receiveState
    <2>. QED  BY <2>1, <2>3
  <1>8. PICK S : Starts(S) /\ (~slipped => StreamInv(S))
    BY DEF Inv
  <1>9. PICK T : /\ Starts(T)' /\ \A k \in 1..Len(sent) + 1 : T[k] = S[k]
                 /\ \A t \in Nat : StreamAt(S, t) => StreamAt(T, t)'
    BY <1>1, <1>8 DEF StreamContinues
  <1>10. ASSUME ~slipped
         PROVE  StreamInv(T)'
    <2>. SUFFICES ASSUME rpc \notin {"spinning", "failed"} PROVE StreamAt(T, Taken(T))'
      BY DEF StreamInv
    <2>1. PICK t : t = Taken(S)
      OBVIOUS
    <2>2. t \in Nat /\ StreamAt(S, t)
      BY <2>1, <1>7, <1>8, <1>10, <1>t, TakenFacts DEF StreamInv
    <2>3. Taken(T)' = t
      BY <2>1, <1>6, <1>7, <1>8, <1>9, <1>10, <1>t, TakenFacts DEF Taken
    <2>. QED  BY <2>2, <2>3, <1>9
  <1>11. slipped' = slipped
    OBVIOUS
  <1>. QED  BY <1>1, <1>2, <1>4, <1>5, <1>7, <1>9, <1>10, <1>11 DEF Inv, WireInv

-----------------------------------------------------------------------------
(* The receiver.                                                           *)

\* A step of the receiver that takes nothing from the stream.
LEMMA StreamFrame ==
    ASSUME Inv, TypeOK', BufferInv', SlipInv', UNCHANGED <<senderVars, wire, closed>>,
           ~slipped' => ~slipped /\ PlaceInv',
           ~slipped' /\ rpc' \notin {"spinning", "failed"} => rpc \notin {"spinning", "failed"},
           \A S : ~slipped' /\ rpc' \notin {"spinning", "failed"} /\ Starts(S) => Taken(S)' = Taken(S)
    PROVE  Inv'
  <1>1. PICK S : Starts(S) /\ (~slipped => StreamInv(S))
    BY DEF Inv
  <1>2. /\ WireInv' /\ Starts(S)' /\ \A t : StreamAt(S, t) => StreamAt(S, t)'
    BY <1>1, WireUnchanged DEF Inv, WireInv, TypeOK
  <1>3. ASSUME ~slipped'
        PROVE  StreamInv(S)'
    <2>. SUFFICES ASSUME rpc' \notin {"spinning", "failed"} PROVE StreamAt(S, Taken(S))'
      BY DEF StreamInv
    <2>1. PICK t : t = Taken(S)
      OBVIOUS
    <2>2. StreamAt(S, t) /\ Taken(S)' = t
      BY <2>1, <1>1, <1>3 DEF StreamInv
    <2>. QED  BY <2>2, <1>2
  <1>. QED  BY <1>2, <1>3 DEF Inv, WireInv

LEMMA BeginReceiveKeeps == Inv /\ BeginReceive => Inv'
  <1>. SUFFICES ASSUME Inv, BeginReceive PROVE Inv'
    OBVIOUS
  <1>t. TypeOK /\ BufferInv /\ SlipInv
    BY DEF Inv
  <1>1. /\ rpc = "idle" /\ rpc' = "header" /\ DataLength' = HeaderSize /\ CurrentPos' = 0
        /\ UNCHANGED <<senderVars, wire, closed, mode, buffer, got, slipped>>
    BY DEF BeginReceive
  <1>2. sent' = sent
    BY <1>1 DEF senderVars
  <1>3. TypeOK'
    <2>1. 0 \in 0..Len(buffer) /\ HeaderSize \in 0..(HeaderSize + MaxBody)
      BY <1>t, TypeFacts, Sizes
    <2>. QED  BY <2>1, <1>1, <1>t DEF TypeOK, WireTypeOK, senderVars
  <1>4. BufferInv' /\ SlipInv'
    BY <1>1, <1>2, <1>t DEF BufferInv, SlipInv
  <1>5. ~slipped => PlaceInv'
    <2>. SUFFICES ASSUME ~slipped PROVE PlaceInv'
      OBVIOUS
    <2>1. PlaceInv
      BY DEF Inv
    <2>. QED  BY <2>1, <1>1, <1>2, Sizes DEF PlaceInv
  <1>6. \A S : Starts(S) => Taken(S)' = Taken(S)
    <2>1. Place = 0 /\ Place' = 0
      BY <1>1 DEF Place, Offset, Receiving
    <2>. QED  BY <2>1, <1>1 DEF Taken
  <1>. QED  BY <1>1, <1>3, <1>4, <1>5, <1>6, StreamFrame

\* Socket.Receive: the bytes from the front of the stream are in the buffer at pos,
\* and the rest of the buffer is as it was.
LEMMA ReceiveAtPuts ==
    ASSUME TypeOK, WireInv, BufferInv, NEW pos \in Nat, NEW n \in 1..Len(wire),
           pos + n <= Len(buffer), ReceiveAt(pos, n), UNCHANGED <<senderVars, closed, mode>>
    PROVE  /\ WireInv' /\ BufferInv'
           /\ \A S : Starts(S) => /\ Starts(S)'
                                  /\ \A t \in Nat : StreamAt(S, t) => StreamAt(S, t + n)'
           /\ buffer' \in Seq(Bytes) /\ Len(buffer)' = Len(buffer) /\ CurrentPos' = pos + n
           /\ \A i \in 1..pos : buffer'[i] = buffer[i]
           /\ \A i \in (pos + 1)..(pos + n) : buffer'[i] = wire[i - pos]
  <1>k. PICK B, L : B = Len(buffer) /\ L = Len(wire)
    OBVIOUS
  <1>. USE <1>k
  <1>1. /\ buffer' = [i \in 1..B |-> IF i \in pos + 1 .. pos + n THEN wire[i - pos] ELSE buffer[i]]
        /\ wire' = SubSeq(wire, n + 1, Len(wire)) /\ CurrentPos' = pos + n
    BY DEF ReceiveAt
  <1>2. /\ B \in Nat /\ L \in Nat /\ n \in Nat /\ n >= 1 /\ n <= L /\ pos + n <= B
        /\ buffer \in [1..B -> Bytes] /\ wire \in [1..L -> Bytes] /\ Len(sent) \in Nat
    BY TypeFacts
  <1>3. /\ WireInv'
        /\ \A S : Starts(S) => /\ Starts(S)'
                               /\ \A t \in Nat : StreamAt(S, t) => StreamAt(S, t + n)'
    BY <1>1, TakeKeepsWire
  <1>4. \A i \in 1..B : i \in pos + 1 .. pos + n => i - pos \in 1..L
    BY <1>2
  <1>5. buffer' \in Seq(Bytes) /\ Len(buffer)' = B
    <2>1. buffer' \in [1..B -> Bytes]
      BY <1>1, <1>2, <1>4
    <2>. QED  BY <2>1, <1>2, FunctionIsSeq
  <1>6. /\ \A i \in 1..pos : i \in 1..B /\ i \notin pos + 1 .. pos + n
        /\ \A i \in (pos + 1)..(pos + n) : i \in 1..B
    BY <1>2
  <1>7. /\ \A i \in 1..pos : buffer'[i] = buffer[i]
        /\ \A i \in (pos + 1)..(pos + n) : buffer'[i] = wire[i - pos]
    BY <1>1, <1>6
  <1>8. BufferInv'
    <2>1. sent' = sent /\ mode' = mode
      BY DEF senderVars
    <2>2. ASSUME NEW i \in 1..B
          PROVE  buffer'[i][1] \in 0..Len(sent)
      <3>1. CASE i \in pos + 1 .. pos + n
        <4>1. buffer'[i] = wire[i - pos] /\ i - pos \in 1..L
          BY <3>1, <1>1, <1>4
        <4>2. wire[i - pos][1] \in 1..Len(sent)
          BY <4>1 DEF WireInv, SenderInv
        <4>. QED  BY <4>1, <4>2, <1>2
      <3>2. CASE i \notin pos + 1 .. pos + n
        BY <3>2, <1>1 DEF BufferInv
      <3>. QED  BY <3>1, <3>2
    <2>. QED  BY <2>1, <2>2, <1>5 DEF BufferInv
  <1>. QED  BY <1>1, <1>3, <1>5, <1>7, <1>8

\* A read that goes on where the last one ended takes the next bytes of the message,
\* and no byte of the one after it.
LEMMA ReadInPlace ==
    ASSUME Inv, ~slipped, Receiving, NEW n \in 1..Len(wire), n <= DataLength,
           CurrentPos + n <= Len(buffer), ReceiveAt(CurrentPos, n), DataLength' = DataLength - n,
           rpc = "header" /\ mode = "ASyncChannel" => CurrentPos + n = HeaderSize,
           UNCHANGED <<senderVars, closed, mode, rpc, got>>
    PROVE  /\ PlaceInv'
           /\ \E S : Starts(S)' /\ StreamInv(S)'
  <1>k. PICK L, C, D, g : /\ L = Len(wire) /\ C = CurrentPos /\ D = DataLength /\ g = Len(got) + 1
    OBVIOUS
  <1>. USE <1>k
  <1>t. TypeOK /\ WireInv /\ BufferInv /\ PlaceInv
    BY DEF Inv, WireInv, TypeOK
  <1>1. /\ L \in Nat /\ C \in Nat /\ D \in Nat /\ n \in Nat /\ n >= 1 /\ n <= D /\ n <= L
        /\ Len(got) \in Nat /\ Len(sent) \in Nat /\ Offset \in Nat
    BY <1>t, TypeFacts
  <1>2. /\ \A S : Starts(S) => /\ Starts(S)'
                               /\ \A t \in Nat : StreamAt(S, t) => StreamAt(S, t + n)'
        /\ CurrentPos' = C + n /\ DataLength' = D - n
        /\ \A i \in 1..C : buffer'[i] = buffer[i]
        /\ \A i \in (C + 1)..(C + n) : buffer'[i] = wire[i - C]
    BY <1>t, <1>1, ReceiveAtPuts
  <1>3. /\ sent' = sent /\ mode' = mode /\ rpc' = rpc /\ got' = got
        /\ Receiving' /\ Offset' = Offset /\ FrameLength(g)' = FrameLength(g)
    BY DEF senderVars, Receiving, Offset, FrameLength
  <1>4. Place = Offset + C /\ Place' = Offset + (C + n) /\ rpc \notin {"spinning", "failed"}
    BY <1>2, <1>3 DEF Place, Receiving
  <1>5. /\ rpc = "header" => Offset = 0 /\ C + D = HeaderSize
        /\ rpc = "body" => g <= Len(sent) /\ Place >= HeaderSize /\ Place + D = FrameLength(g)
    BY <1>t, <1>1 DEF PlaceInv, Offset
  <1>6. PICK S : Starts(S) /\ StreamInv(S)
    BY DEF Inv
  <1>7. ASSUME NEW i \in 1..n
        PROVE  g \in 1..Len(sent) /\ wire[i] = <<g, (Offset + C) + i - 1>>
    <2>1. PICK c : c = Offset + C
      OBVIOUS
    <2>2. i \in 1..L /\ i \in Nat /\ g \in 1..Len(sent) + 1 /\ c \in Nat
      BY <2>1, <1>1, <1>6, <1>t, TakenFacts
    <2>3. c + i - 1 <= HeaderSize \/ (g <= Len(sent) /\ c + i - 1 < FrameLength(g))
      <3>1. CASE rpc = "header"
        BY <3>1, <2>1, <1>1, <1>5, Sizes
      <3>2. CASE rpc = "body"
        <4>1. g \in 1..Len(sent) /\ c + D = FrameLength(g)
          BY <3>2, <2>1, <2>2, <1>4, <1>5
        <4>. QED  BY <4>1, <2>2, <1>1
      <3>. QED  BY <3>1, <3>2 DEF Receiving
    <2>4. StreamAt(S, S[g] + c) /\ WireTypeOK
      BY <2>1, <1>4, <1>6, <1>t DEF StreamInv, Taken, TypeOK
    <2>5. g \in 1..Len(sent) /\ wire[i] = <<g, c + i - 1>>
      BY <2>2, <2>3, <2>4, <1>6, ByteInPlace
    <2>. QED  BY <2>1, <2>5
  <1>8. Len(got) < Len(sent)
    <2>1. 1 \in 1..n
      BY <1>1
    <2>. QED  BY <2>1, <1>1, <1>7
  <1>9. \A i \in 1..(C + n) : buffer'[i] = <<g, Offset + i - 1>>
    <2>. SUFFICES ASSUME NEW i \in 1..(C + n)
                  PROVE  buffer'[i] = <<g, Offset + i - 1>>
      OBVIOUS
    <2>1. CASE i <= C
      <3>1. i \in 1..C
        BY <2>1
      <3>. QED  BY <3>1, <1>2, <1>t DEF PlaceInv
    <2>2. CASE i > C
      <3>1. i \in (C + 1)..(C + n) /\ i - C \in 1..n /\ (Offset + C) + (i - C) - 1 = Offset + i - 1
        BY <2>2, <1>1
      <3>2. wire[i - C] = <<g, (Offset + C) + (i - C) - 1>>
        BY <3>1, <1>7
      <3>. QED  BY <3>1, <3>2, <1>2
    <2>. QED  BY <2>1, <2>2, <1>1
  <1>10. PlaceInv'
    <2>1. (C + n) + (D - n) = C + D /\ (Offset + (C + n)) + (D - n) = (Offset + C) + D
      BY <1>1
    <2>2. rpc = "body" => Offset + (C + n) >= HeaderSize
      BY <1>1, <1>4, <1>5, Sizes
    <2>3. rpc # "garbled" /\ Len(got) <= Len(sent) /\ \A i \in 1..Len(got) : got[i] = i
      BY <1>t DEF PlaceInv
    <2>4. rpc' = "header" =>
            /\ CurrentPos' + DataLength' = HeaderSize
            /\ mode' = "ASyncChannel" => CurrentPos' \in {0, HeaderSize}
      BY <2>1, <1>2, <1>3, <1>5
    <2>5. rpc' = "body" => Place' >= HeaderSize /\ Place' + DataLength' = FrameLength(g)'
      BY <2>1, <2>2, <1>2, <1>3, <1>4, <1>5
    <2>6. \A i \in 1..CurrentPos' : buffer'[i] = <<Len(got) + 1, Offset + i - 1>>
      BY <1>2, <1>9
    <2>. QED  BY <2>3, <2>4, <2>5, <2>6, <1>3, <1>8 DEF PlaceInv, FrameLength
  <1>11. StreamInv(S)'
    <2>1. PICK t : t = S[g] + (Offset + C)
      OBVIOUS
    <2>2. t \in Nat /\ S[g] \in Nat /\ Taken(S) = t /\ StreamAt(S, t)
      BY <2>1, <1>4, <1>6, <1>t, TakenFacts DEF Taken, StreamInv
    <2>3. Taken(S)' = t + n
      <3>1. Taken(S)' = S[g] + (Offset + (C + n))
        BY <1>3, <1>4 DEF Taken
      <3>. QED  BY <3>1, <2>1, <2>2, <1>1
    <2>. QED  BY <2>2, <2>3, <1>2, <1>6 DEF StreamInv
  <1>. QED  BY <1>2, <1>6, <1>10, <1>11

LEMMA ReadHeaderKeeps ==
    ASSUME Inv, NEW n \in Nat, ReadHeader(n)
    PROVE  Inv'
  <1>t. TypeOK /\ WireInv /\ BufferInv /\ SlipInv
    BY DEF Inv, WireInv, TypeOK
  <1>1. /\ rpc = "header" /\ DataLength > 0 /\ n \in 1..Smaller(HeaderSize - HeaderStart, Len(wire))
        /\ ReceiveAt(HeaderStart, n) /\ DataLength' = HeaderSize - HeaderStart - n
        /\ slipped' = (slipped \/ (mode = "ASyncChannel" /\ n < HeaderSize))
        /\ UNCHANGED <<senderVars, closed, mode, rpc, got>>
    BY DEF ReadHeader
  <1>2. HeaderStart \in Nat /\ Len(wire) \in Nat /\ Len(buffer) \in Nat /\ Len(buffer) >= HeaderSize
    <2>1. HeaderStart \in Nat
      BY <1>t, TypeFacts DEF HeaderStart
    <2>2. Len(buffer) >= DefaultBufferSize /\ Len(buffer) \in Nat /\ Len(wire) \in Nat
      BY <1>t, TypeFacts DEF BufferInv
    <2>. QED  BY <2>1, <2>2, Sizes
  <1>3. n \in 1..Len(wire) /\ HeaderStart + n <= HeaderSize /\ HeaderStart + n <= Len(buffer)
    BY <1>1, <1>2, Sizes DEF Smaller
  <1>4. /\ WireInv' /\ BufferInv' /\ buffer' \in Seq(Bytes) /\ Len(buffer)' = Len(buffer)
        /\ CurrentPos' = HeaderStart + n
        /\ \A S : Starts(S) => Starts(S)'
    BY <1>1, <1>2, <1>3, <1>t, ReceiveAtPuts
  <1>5. TypeOK'
    <2>1. /\ HeaderStart + n \in 0..Len(buffer)
          /\ HeaderSize - HeaderStart - n \in 0..(HeaderSize + MaxBody)
      BY <1>2, <1>3, Sizes
    <2>2. slipped' \in BOOLEAN
      BY <1>1
    <2>. QED  BY <2>1, <2>2, <1>1, <1>4, <1>t DEF TypeOK, WireInv
  <1>6. SlipInv'
    BY <1>1, <1>t DEF SlipInv, senderVars
  <1>7. CASE slipped'
    BY <1>4, <1>5, <1>6, <1>7 DEF Inv, WireInv
  <1>8. CASE ~slipped'
    <2>1. ~slipped /\ (mode = "ASyncChannel" => n >= HeaderSize)
      <3>1. ~slipped /\ (mode = "ASyncChannel" => ~(n < HeaderSize))
        BY <1>1, <1>8, Zenon
      <3>. QED  BY <3>1, Sizes
    <2>2. /\ CurrentPos + DataLength = HeaderSize
          /\ mode = "ASyncChannel" => CurrentPos \in {0, HeaderSize}
      BY <2>1, <1>1 DEF Inv, PlaceInv
    <2>3. CurrentPos \in Nat /\ DataLength \in Nat /\ mode \in {"ASyncChannel", "Channel"}
      BY <1>t, TypeFacts DEF TypeOK
    <2>4. HeaderStart = CurrentPos
      BY <2>2, <2>3, <1>1, Sizes DEF HeaderStart
    <2>5. /\ n <= DataLength /\ DataLength' = DataLength - n
          /\ mode = "ASyncChannel" => CurrentPos + n = HeaderSize
      BY <2>1, <2>2, <2>3, <2>4, <1>1, <1>3, Sizes
    <2>6. PlaceInv' /\ \E S : Starts(S)' /\ StreamInv(S)'
      BY <2>1, <2>4, <2>5, <1>1, <1>3, ReadInPlace DEF Receiving
    <2>. QED  BY <2>6, <1>4, <1>5, <1>6 DEF Inv, WireInv
  <1>. QED  BY <1>7, <1>8

LEMMA ReadBodyKeeps ==
    ASSUME Inv, NEW n \in Nat, ReadBody(n)
    PROVE  Inv'
  <1>t. TypeOK /\ WireInv /\ BufferInv /\ SlipInv
    BY DEF Inv, WireInv, TypeOK
  <1>1. /\ rpc = "body" /\ DataLength > 0 /\ CurrentPos + DataLength <= Len(buffer)
        /\ n \in 1..Smaller(DataLength, Len(wire))
        /\ ReceiveAt(CurrentPos, n) /\ DataLength' = DataLength - n
        /\ UNCHANGED <<senderVars, closed, mode, rpc, got, slipped>>
    BY DEF ReadBody, Fits
  <1>2. /\ CurrentPos \in Nat /\ DataLength \in Nat /\ Len(wire) \in Nat /\ Len(buffer) \in Nat
        /\ DataLength <= HeaderSize + MaxBody
    BY <1>t, TypeFacts DEF TypeOK
  <1>3. n \in 1..Len(wire) /\ n <= DataLength /\ CurrentPos + n <= Len(buffer)
    BY <1>1, <1>2 DEF Smaller
  <1>4. /\ WireInv' /\ BufferInv' /\ buffer' \in Seq(Bytes) /\ Len(buffer)' = Len(buffer)
        /\ CurrentPos' = CurrentPos + n
        /\ \A S : Starts(S) => Starts(S)'
    BY <1>1, <1>2, <1>3, <1>t, ReceiveAtPuts
  <1>5. TypeOK'
    <2>1. CurrentPos + n \in 0..Len(buffer) /\ DataLength - n \in 0..(HeaderSize + MaxBody)
      BY <1>2, <1>3, Sizes
    <2>. QED  BY <2>1, <1>1, <1>4, <1>t DEF TypeOK, WireInv
  <1>6. SlipInv'
    BY <1>1, <1>t DEF SlipInv, senderVars
  <1>7. CASE slipped
    BY <1>1, <1>4, <1>5, <1>6, <1>7 DEF Inv, WireInv
  <1>8. CASE ~slipped
    <2>1. PlaceInv' /\ \E S : Starts(S)' /\ StreamInv(S)'
      BY <1>1, <1>3, <1>8, ReadInPlace DEF Receiving
    <2>. QED  BY <2>1, <1>4, <1>5, <1>6 DEF Inv, WireInv
  <1>. QED  BY <1>7, <1>8

\* The prefix that has been received is the prefix of an object that was sent, and
\* while the receiver has its place it is that of the next.
LEMMA HeaderIsSent ==
    ASSUME Inv, HeaderOf(buffer) # 0
    PROVE  HeaderOf(buffer) \in 1..Len(sent) /\ sent[HeaderOf(buffer)] \in 1..MaxBody
  <1>1. TypeOK /\ BufferInv
    BY DEF Inv
  <1>2. HeaderOf(buffer) = buffer[1][1]
    BY DEF HeaderOf
  <1>3. 1 \in 1..Len(buffer) /\ Len(sent) \in Nat /\ sent \in [1..Len(sent) -> 1..MaxBody]
    <2>1. Len(buffer) \in Nat /\ Len(buffer) >= DefaultBufferSize
      BY <1>1, TypeFacts DEF BufferInv
    <2>2. 1 \in 1..Len(buffer)
      BY <2>1, Sizes
    <2>. QED  BY <2>2, <1>1, TypeFacts
  <1>4. buffer[1][1] \in 0..Len(sent)
    BY <1>1, <1>3 DEF BufferInv
  <1>. QED  BY <1>2, <1>3, <1>4

LEMMA HeaderIsNext ==
    ASSUME Inv, ~slipped, rpc = "header", DataLength = 0
    PROVE  /\ CurrentPos = HeaderSize /\ Len(got) < Len(sent)
           /\ HeaderOf(buffer) = Len(got) + 1 /\ HeaderOf(buffer) # 0
  <1>1. TypeOK /\ PlaceInv
    BY DEF Inv
  <1>2. CurrentPos = HeaderSize /\ Len(got) < Len(sent) /\ Len(got) \in Nat
    BY <1>1, TypeFacts, Sizes DEF PlaceInv
  <1>3. \A i \in 1..HeaderSize : buffer[i] = <<Len(got) + 1, i - 1>>
    <2>1. \A i \in 1..HeaderSize : buffer[i] = <<Len(got) + 1, 0 + i - 1>>
      BY <1>1, <1>2 DEF PlaceInv, Receiving, Offset
    <2>. QED  BY <2>1, Sizes
  <1>4. 1 \in 1..HeaderSize
    BY Sizes
  <1>5. buffer[1][1] = Len(got) + 1
    BY <1>3, <1>4
  <1>6. HeaderOf(buffer) = Len(got) + 1
    BY <1>3, <1>5 DEF HeaderOf
  <1>. QED  BY <1>2, <1>6

\* PrepareForBody: ASyncChannel makes room behind the prefix; Channel starts again at
\* the beginning of a buffer that stays as it is.
LEMMA PrepareForBodyKeeps ==
    ASSUME TypeOK, BufferInv, NEW n \in 1..MaxBody, PrepareForBody(n), UNCHANGED <<sent, mode>>
    PROVE  /\ BufferInv' /\ buffer' \in Seq(Bytes)
           /\ CurrentPos' \in 0..Len(buffer)' /\ DataLength' = n
           /\ mode = "Channel" => CurrentPos' = 0
           /\ mode = "ASyncChannel" => /\ CurrentPos' = CurrentPos
                                       /\ \A i \in 1..CurrentPos : buffer'[i] = buffer[i]
  <1>1. /\ CurrentPos \in 0..Len(buffer) /\ buffer \in Seq(Bytes) /\ n \in Nat
        /\ CurrentPos \in Nat /\ Len(buffer) \in Nat /\ DefaultBufferSize \in Nat
        /\ mode \in {"ASyncChannel", "Channel"} /\ Len(sent) \in Nat
    BY TypeFacts, Sizes DEF TypeOK
  <1>2. CASE mode = "Channel"
    <2>1. buffer' = buffer /\ CurrentPos' = 0 /\ DataLength' = n
      BY <1>2 DEF PrepareForBody
    <2>. QED  BY <2>1, <1>1, <1>2 DEF BufferInv
  <1>3. CASE mode = "ASyncChannel"
    <2>1. buffer' = AdjustBuffer(buffer, CurrentPos, n) /\ CurrentPos' = CurrentPos /\ DataLength' = n
      BY <1>3 DEF PrepareForBody
    <2>2. /\ buffer' \in Seq(Bytes) /\ Len(buffer)' \in Nat /\ Len(buffer)' >= CurrentPos + n
          /\ Len(buffer)' >= Len(buffer) /\ \A i \in 1..CurrentPos : buffer'[i] = buffer[i]
      BY <1>1, <2>1, AdjustKeeps
    <2>3. \A i \in 1..Len(buffer)' : buffer'[i][1] \in 0..Len(sent)
      <3>1. CASE Len(buffer) >= CurrentPos + n
        BY <3>1, <2>1 DEF AdjustBuffer, BufferInv
      <3>2. CASE ~(Len(buffer) >= CurrentPos + n)
        <4>1. buffer' = [i \in 1..(CurrentPos + n) |-> IF i <= CurrentPos THEN buffer[i] ELSE Junk]
          BY <3>2, <2>1 DEF AdjustBuffer
        <4>2. Len(buffer)' = CurrentPos + n
          BY <4>1, <1>1, <2>2, LenProperties
        <4>3. \A i \in 1..(CurrentPos + n) : i <= CurrentPos => i \in 1..Len(buffer)
          BY <1>1
        <4>. QED  BY <4>1, <4>2, <4>3, <1>1 DEF BufferInv, Junk
      <3>. QED  BY <3>1, <3>2
    <2>4. BufferInv'
      BY <2>2, <2>3, <1>1, <1>3 DEF BufferInv
    <2>5. CurrentPos' \in 0..Len(buffer)'
      BY <2>1, <2>2, <1>1
    <2>. QED  BY <2>1, <2>2, <2>4, <2>5, <1>3
  <1>. QED  BY <1>1, <1>2, <1>3

LEMMA HeaderReceivedKeeps == Inv /\ HeaderReceived => Inv'
  <1>. SUFFICES ASSUME Inv, HeaderReceived PROVE Inv'
    OBVIOUS
  <1>t. TypeOK /\ BufferInv /\ SlipInv
    BY DEF Inv
  <1>1. /\ rpc = "header" /\ DataLength = 0
        /\ UNCHANGED <<senderVars, wire, closed, mode, got, slipped>> /\ sent' = sent
    BY DEF HeaderReceived, senderVars
  <1>2. SlipInv'
    BY <1>1, <1>t DEF SlipInv
  <1>3. CASE HeaderOf(buffer) = 0
    <2>1. rpc' = "garbled" /\ UNCHANGED receiveState
      BY <1>3 DEF HeaderReceived
    <2>2. slipped
      BY <1>1, <1>3, HeaderIsNext
    <2>3. TypeOK' /\ BufferInv'
      BY <2>1, <1>1, <1>t DEF TypeOK, WireTypeOK, BufferInv, senderVars, receiveState
    <2>. QED  BY <2>1, <2>2, <2>3, <1>1, <1>2, StreamFrame
  <1>4. CASE HeaderOf(buffer) # 0
    <2>k. PICK k, n, g : k = HeaderOf(buffer) /\ n = sent[k] /\ g = Len(got) + 1
      OBVIOUS
    <2>1. rpc' = "body" /\ PrepareForBody(n)
      BY <2>k, <1>4 DEF HeaderReceived
    <2>2. k \in 1..Len(sent) /\ n \in 1..MaxBody
      BY <2>k, <1>4, HeaderIsSent
    <2>3. /\ BufferInv' /\ buffer' \in Seq(Bytes)
          /\ CurrentPos' \in 0..Len(buffer)' /\ DataLength' = n
          /\ mode = "Channel" => CurrentPos' = 0
          /\ mode = "ASyncChannel" => /\ CurrentPos' = CurrentPos
                                      /\ \A i \in 1..CurrentPos : buffer'[i] = buffer[i]
      BY <2>1, <2>2, <1>1, <1>t, PrepareForBodyKeeps
    <2>4. TypeOK'
      <3>1. n \in 0..(HeaderSize + MaxBody)
        BY <2>2, Sizes
      <3>. QED  BY <3>1, <2>1, <2>3, <1>1, <1>t DEF TypeOK, WireTypeOK, senderVars
    <2>5. ASSUME ~slipped
          PROVE  PlaceInv' /\ Place' = Place /\ rpc' \notin {"spinning", "failed"}
      <3>1. CurrentPos = HeaderSize /\ Len(got) < Len(sent) /\ k = g /\ PlaceInv
        BY <2>5, <2>k, <1>1, HeaderIsNext DEF Inv
      <3>2. /\ mode \in {"ASyncChannel", "Channel"} /\ mode' = mode
            /\ Offset = 0 /\ Place = HeaderSize
        <4>1. mode \in {"ASyncChannel", "Channel"} /\ mode' = mode /\ Offset = 0
          BY <1>1, <1>t DEF TypeOK, Offset
        <4>. QED  BY <4>1, <3>1, <1>1, Sizes DEF Place, Receiving
      <3>3. Place' = HeaderSize /\ (mode = "ASyncChannel" => Offset' = 0 /\ CurrentPos' = HeaderSize)
        <4>1. HeaderSize \in Nat /\ rpc' = "body" /\ Receiving'
          BY <2>1, Sizes DEF Receiving
        <4>2. CASE mode = "Channel"
          <5>1. Offset' = HeaderSize /\ CurrentPos' = 0
            BY <4>1, <4>2, <2>3, <3>2 DEF Offset
          <5>. QED  BY <4>1, <4>2, <5>1 DEF Place
        <4>3. CASE mode = "ASyncChannel"
          <5>1. Offset' = 0 /\ CurrentPos' = HeaderSize
            BY <4>1, <4>3, <2>3, <3>1, <3>2 DEF Offset
          <5>. QED  BY <4>1, <4>3, <5>1 DEF Place
        <4>. QED  BY <4>2, <4>3, <3>2
      <3>4. HeaderSize + DataLength' = FrameLength(g)' /\ got' = got
        BY <2>k, <2>3, <3>1, <1>1 DEF FrameLength
      <3>5. \A i \in 1..CurrentPos' : buffer'[i] = <<g, Offset' + i - 1>>
        <4>1. CASE mode = "Channel"
          BY <4>1, <2>3
        <4>2. CASE mode = "ASyncChannel"
          <5>1. \A i \in 1..CurrentPos : buffer[i] = <<g, 0 + i - 1>>
            BY <2>k, <3>1, <3>2, <1>1 DEF PlaceInv, Receiving
          <5>. QED  BY <4>2, <5>1, <2>3, <3>3
        <4>. QED  BY <4>1, <4>2, <3>2
      <3>6. PlaceInv'
        <4>1. Len(got) <= Len(sent) /\ \A i \in 1..Len(got) : got[i] = i
          BY <3>1 DEF PlaceInv
        <4>2. HeaderSize >= HeaderSize
          BY Sizes
        <4>. QED  BY <4>1, <4>2, <2>k, <2>1, <3>1, <3>3, <3>4, <3>5, <1>1 DEF PlaceInv, Receiving
      <3>. QED  BY <3>2, <3>3, <3>6, <2>1
    <2>6. \A S : ~slipped' /\ rpc' \notin {"spinning", "failed"} /\ Starts(S) => Taken(S)' = Taken(S)
      BY <2>5, <1>1 DEF Taken
    <2>. QED  BY <2>3, <2>4, <2>5, <2>6, <1>1, <1>2, StreamFrame
  <1>. QED  BY <1>3, <1>4

\* While Channel has its place, a body that it refuses is longer than its buffer.
LEMMA BodyTooLongKeeps == Inv /\ BodyTooLong => Inv'
  <1>. SUFFICES ASSUME Inv, BodyTooLong PROVE Inv'
    OBVIOUS
  <1>t. TypeOK /\ BufferInv /\ SlipInv
    BY DEF Inv
  <1>1. /\ rpc = "body" /\ ~(CurrentPos + DataLength <= Len(buffer))
        /\ rpc' = "idle" /\ slipped' = TRUE /\ sent' = sent
        /\ UNCHANGED <<senderVars, wire, closed, mode, receiveState, got>>
    BY DEF BodyTooLong, Fits, senderVars
  <1>2. TypeOK' /\ BufferInv'
    BY <1>1, <1>t DEF TypeOK, WireTypeOK, BufferInv, senderVars, receiveState
  <1>3. SlipInv'
    <2>. SUFFICES ASSUME ~slipped, mode = "Channel"
                  PROVE  \E k \in 1..Len(sent) : sent[k] > DefaultBufferSize
      BY <1>1, <1>t DEF SlipInv
    <2>1. /\ Len(got) < Len(sent) /\ Place + DataLength = FrameLength(Len(got) + 1)
          /\ Place = HeaderSize + CurrentPos /\ Len(buffer) = DefaultBufferSize
      BY <1>1, <1>t DEF Inv, PlaceInv, BufferInv, Place, Offset, Receiving
    <2>2. /\ Len(got) + 1 \in 1..Len(sent) /\ CurrentPos \in Nat /\ DataLength \in Nat
          /\ sent[Len(got) + 1] \in Nat
      <3>1. Len(got) + 1 \in 1..Len(sent)
        BY <2>1, <1>t, TypeFacts
      <3>. QED  BY <3>1, <1>t, TypeFacts
    <2>3. HeaderSize + CurrentPos + DataLength = HeaderSize + sent[Len(got) + 1]
      BY <2>1 DEF FrameLength
    <2>4. sent[Len(got) + 1] = CurrentPos + DataLength
      BY <2>2, <2>3, Sizes
    <2>5. sent[Len(got) + 1] > DefaultBufferSize
      BY <2>1, <2>2, <2>4, <1>1, Sizes
    <2>. QED  BY <2>2, <2>5
  <1>. QED  BY <1>1, <1>2, <1>3, StreamFrame

\* The body that has been received is the body of the next object.
LEMMA BodyIsNext ==
    ASSUME Inv, ~slipped, rpc = "body", DataLength = 0, NEW o,
           o = IF mode = "ASyncChannel" THEN HeaderSize ELSE 0
    PROVE  /\ Len(got) < Len(sent) /\ Place = FrameLength(Len(got) + 1)
           /\ BodyAt(buffer, o) = Len(got) + 1 /\ BodyAt(buffer, o) # 0
  <1>k. PICK g, n : g = Len(got) + 1 /\ n = sent[g]
    OBVIOUS
  <1>. USE <1>k
  <1>1. TypeOK /\ PlaceInv
    BY DEF Inv
  <1>2. /\ Len(got) \in Nat /\ Len(sent) \in Nat /\ sent \in [1..Len(sent) -> 1..MaxBody]
        /\ CurrentPos \in Nat /\ CurrentPos <= Len(buffer) /\ Len(buffer) \in Nat
        /\ DOMAIN sent = 1..Len(sent) /\ mode \in {"ASyncChannel", "Channel"}
    BY <1>1, TypeFacts DEF TypeOK
  <1>3. /\ Len(got) < Len(sent) /\ Place + DataLength = FrameLength(g)
        /\ Place = Offset + CurrentPos
        /\ \A i \in 1..CurrentPos : buffer[i] = <<g, Offset + i - 1>>
    BY <1>1 DEF PlaceInv, Receiving, Place
  <1>4. g \in DOMAIN sent /\ n \in Nat /\ n >= 1 /\ FrameLength(g) = HeaderSize + n
    <2>1. g \in DOMAIN sent
      BY <1>2, <1>3
    <2>2. n \in 1..MaxBody /\ FrameLength(g) = HeaderSize + n
      BY <2>1, <1>2 DEF FrameLength
    <2>. QED  BY <2>1, <2>2, Sizes
  <1>5. o \in Nat /\ Offset \in Nat /\ o + Offset = HeaderSize
    BY <1>2, Sizes DEF Offset
  <1>6. CurrentPos = o + n /\ Place = FrameLength(g)
    <2>1. Place \in Nat /\ Place + 0 = FrameLength(g)
      BY <1>1, <1>3, TypeFacts
    <2>2. Offset + CurrentPos = (o + Offset) + n
      BY <2>1, <1>3, <1>4, <1>5
    <2>. QED  BY <2>1, <2>2, <1>2, <1>4, <1>5
  <1>7. \A j \in 1..n : buffer[o + j] = <<g, HeaderSize + j - 1>>
    <2>. SUFFICES ASSUME NEW j \in 1..n
                  PROVE  buffer[o + j] = <<g, HeaderSize + j - 1>>
      OBVIOUS
    <2>1. o + j \in 1..CurrentPos /\ Offset + (o + j) - 1 = HeaderSize + j - 1
      BY <1>4, <1>5, <1>6, Sizes
    <2>2. buffer[o + j] = <<g, Offset + (o + j) - 1>>
      BY <2>1, <1>3
    <2>. QED  BY <2>1, <2>2
  <1>8. buffer[o + 1][1] = g
    <2>1. 1 \in 1..n
      BY <1>4
    <2>. QED  BY <2>1, <1>7
  <1>9. BodyAt(buffer, o) = g
    BY <1>2, <1>4, <1>6, <1>7, <1>8 DEF BodyAt
  <1>. QED  BY <1>2, <1>3, <1>6, <1>9

LEMMA DeserializeKeeps == Inv /\ Deserialize => Inv'
  <1>. SUFFICES ASSUME Inv, Deserialize PROVE Inv'
    OBVIOUS
  <1>k. PICK g, o, k : /\ g = Len(got) + 1 /\ o = (IF mode = "ASyncChannel" THEN HeaderSize ELSE 0)
                       /\ k = BodyAt(buffer, o)
    OBVIOUS
  <1>t. TypeOK /\ BufferInv /\ SlipInv
    BY DEF Inv
  <1>1. /\ rpc = "body" /\ DataLength = 0 /\ sent' = sent
        /\ UNCHANGED <<senderVars, wire, closed, mode, receiveState, slipped>>
        /\ buffer' = buffer
    BY DEF Deserialize, senderVars, receiveState
  <1>2. /\ k = 0 => rpc' = "garbled" /\ got' = got
        /\ k # 0 => rpc' = "idle" /\ got' = Append(got, k)
    BY <1>k DEF Deserialize
  <1>3. /\ Len(got) \in Nat /\ Len(sent) \in Nat /\ Len(sent) <= MaxSent /\ got \in Seq(1..MaxSent)
        /\ DOMAIN sent = 1..Len(sent)
    BY <1>t, TypeFacts DEF TypeOK
  <1>4. k # 0 => k \in 1..MaxSent
    <2>1. k # 0 => k \in DOMAIN sent
      BY <1>k DEF BodyAt
    <2>. QED  BY <2>1, <1>3, Sizes
  <1>5. TypeOK'
    <2>1. got' \in Seq(1..MaxSent) /\ rpc' \in {"idle", "garbled"}
      <3>1. CASE k = 0
        BY <3>1, <1>2, <1>3
      <3>2. CASE k # 0
        <4>1. got' = Append(got, k) /\ rpc' = "idle" /\ k \in 1..MaxSent
          BY <3>2, <1>2, <1>4
        <4>2. Append(got, k) \in Seq(1..MaxSent)
          BY <4>1, <1>3, AppendProperties
        <4>. QED  BY <4>1, <4>2
      <3>. QED  BY <3>1, <3>2
    <2>. QED  BY <2>1, <1>1, <1>t DEF TypeOK, WireTypeOK, senderVars, receiveState
  <1>6. BufferInv' /\ SlipInv'
    BY <1>1, <1>t DEF BufferInv, SlipInv
  <1>7. ASSUME ~slipped
        PROVE  /\ PlaceInv' /\ g \in 1..Len(sent) /\ Place = FrameLength(g) /\ Len(got)' = g
               /\ rpc' = "idle"
    <2>1. k = g /\ k # 0 /\ Len(got) < Len(sent) /\ Place = FrameLength(g) /\ PlaceInv
      BY <1>1, <1>7, <1>k, BodyIsNext DEF Inv
    <2>2. g \in 1..Len(sent) /\ g \in 1..MaxSent /\ rpc' = "idle" /\ got' = Append(got, g)
      BY <2>1, <1>k, <1>2, <1>3, <1>4
    <2>3. Len(got)' = g /\ got'[g] = g /\ \A i \in 1..Len(got) : got'[i] = got[i]
      BY <2>2, <1>k, <1>3, AppendProperties
    <2>4. \A i \in 1..g : got'[i] = i
      <3>1. \A i \in 1..g : i \in 1..Len(got) \/ i = g
        BY <1>k, <1>3
      <3>. QED  BY <3>1, <2>1, <2>3 DEF PlaceInv
    <2>5. g <= Len(sent)
      BY <2>2, <1>3
    <2>. QED  BY <2>1, <2>2, <2>3, <2>4, <2>5, <1>1 DEF PlaceInv, Receiving
  <1>8. ASSUME NEW S, Starts(S), ~slipped
        PROVE  Taken(S)' = Taken(S)
    <2>1. Taken(S) = S[g] + FrameLength(g)
      BY <1>k, <1>7, <1>8 DEF Taken
    <2>2. S[g + 1] = S[g] + FrameLength(g) /\ S[g + 1] \in Nat
      <3>1. g \in 1..Len(sent) /\ g + 1 \in 1..Len(sent) + 1
        BY <1>3, <1>7, <1>8
      <3>. QED  BY <3>1, <1>8 DEF Starts
    <2>3. Taken(S)' = S[g + 1] + 0
      BY <1>7, <1>8 DEF Taken, Place, Receiving
    <2>. QED  BY <2>1, <2>2, <2>3
  <1>. QED  BY <1>1, <1>5, <1>6, <1>7, <1>8, StreamFrame

\* A receiver at the end of the stream keeps what it has.
LEMMA StreamEndsKeeps == Inv /\ StreamEnds => Inv'
  <1>. SUFFICES ASSUME Inv, StreamEnds PROVE Inv'
    OBVIOUS
  <1>t. TypeOK /\ BufferInv /\ SlipInv
    BY DEF Inv
  <1>1. /\ rpc' \in {"spinning", "failed"} /\ sent' = sent /\ buffer' = buffer
        /\ UNCHANGED <<senderVars, wire, closed, mode, receiveState, got, slipped>>
    BY DEF StreamEnds, senderVars, receiveState
  <1>2. TypeOK'
    BY <1>1, <1>t DEF TypeOK, WireTypeOK, senderVars, receiveState
  <1>3. BufferInv' /\ SlipInv'
    BY <1>1, <1>t DEF BufferInv, SlipInv
  <1>4. ~slipped => PlaceInv'
    BY <1>1 DEF Inv, PlaceInv, Receiving
  <1>. QED  BY <1>1, <1>2, <1>3, <1>4, StreamFrame

-----------------------------------------------------------------------------
(* The theorems.                                                           *)

LEMMA NextInv == Inv /\ [Next]_vars => Inv'
  <1>. SUFFICES ASSUME Inv, [Next]_vars PROVE Inv'
    OBVIOUS
  <1>1. CASE Send
    BY <1>1, SenderKeeps DEF Send
  <1>2. CASE BeginReceive
    BY <1>2, BeginReceiveKeeps
  <1>3. CASE HeaderReceived
    BY <1>3, HeaderReceivedKeeps
  <1>4. CASE BodyTooLong
    BY <1>4, BodyTooLongKeeps
  <1>5. CASE Deserialize
    BY <1>5, DeserializeKeeps
  <1>6. CASE StreamEnds
    BY <1>6, StreamEndsKeeps
  <1>7. CASE \E n \in 1..(HeaderSize + MaxBody) : ReadHeader(n) \/ ReadBody(n)
    BY <1>7, ReadHeaderKeeps, ReadBodyKeeps, Sizes
  <1>8. CASE UNCHANGED vars
    <2>1. TypeOK' /\ BufferInv' /\ SlipInv' /\ (~slipped => PlaceInv') /\ slipped' = slipped
      BY <1>8 DEF Inv, TypeOK, WireTypeOK, BufferInv, SlipInv, PlaceInv, Place, Offset, Receiving,
                  FrameLength, vars, senderVars, receiveState
    <2>2. \A S : Taken(S)' = Taken(S)
      BY <1>8 DEF Taken, Place, Offset, Receiving, vars, receiveState
    <2>. QED  BY <1>8, <2>1, <2>2, StreamFrame DEF vars
  <1>. QED  BY <1>1, <1>2, <1>3, <1>4, <1>5, <1>6, <1>7, <1>8 DEF Next, Receiver

LEMMA Always == Spec => []Inv
  <1>. QED  BY InitInv, NextInv, PTL DEF Spec

\* Whatever the sizes of prefix, buffers and objects, and even after a slip: the
\* receivers write within their buffers, and return only objects that were sent.
THEOREM TypeCorrect == Spec => []TypeOK
  <1>1. Inv => TypeOK
    BY DEF Inv
  <1>. QED  BY <1>1, Always, PTL

\* ASyncChannel.Receive and Channel.Receive lose their place in the stream only in the
\* way the history variable records, Channel only on a body longer than its buffer; up
\* to then the objects come in order, each once and whole.
THEOREM KeepsPlace == Spec => []PlaceKept
  <1>1. Inv => PlaceKept
    BY DEF Inv, PlaceInv, SlipInv, PlaceKept, NothingMixed
  <1>. QED  BY <1>1, Always, PTL

\* The receiver spins, or fails, only when the connection has ended.
EndInv == rpc \in {"spinning", "failed"} => closed

LEMMA AlwaysEnd == Spec => []EndInv
  <1>1. Init => EndInv
    BY DEF Init, EndInv
  <1>2. EndInv /\ [Next]_vars => EndInv'
    <2>. SUFFICES ASSUME EndInv, [Next]_vars, rpc' \in {"spinning", "failed"} PROVE closed'
      BY DEF EndInv
    <2>1. CASE Send
      BY <2>1 DEF Send, Sender, Hangup, SendObject, Write, EndInv
    <2>2. CASE StreamEnds
      BY <2>2 DEF StreamEnds
    <2>3. CASE UNCHANGED vars
      BY <2>3 DEF vars, EndInv
    <2>4. CASE Receiver /\ ~StreamEnds
      BY <2>4 DEF Receiver, BeginReceive, HeaderReceived, BodyTooLong, Deserialize, ReadHeader,
                  ReadBody, EndInv
    <2>. QED  BY <2>1, <2>2, <2>3, <2>4 DEF Next, Receiver
  <1>. QED  BY <1>1, <1>2, PTL DEF Spec

\* Up to the slip, either loop waits only for bytes that are in the stream or are still
\* to be written.  (This is the safety half of SyncDelivered.)
THEOREM WaitsForSomething == Spec => []NothingAwaited
  <1>1. Inv /\ EndInv => NothingAwaited
    <2>. SUFFICES ASSUME Inv, EndInv, ~slipped, rpc # "idle", DataLength > 0,
                         ~closed, wire = <<>>, sendPos = sendLen
                  PROVE  Len(got) = Len(sent)
      BY DEF NothingAwaited
    <2>t. TypeOK /\ PlaceInv /\ WireInv
      BY DEF Inv, TypeOK, WireInv
    <2>r. Receiving /\ rpc \notin {"spinning", "failed"}
      BY <2>t DEF TypeOK, PlaceInv, EndInv, Receiving
    <2>1. PICK S : Starts(S) /\ StreamInv(S)
      BY DEF Inv
    <2>2. PICK g, c : g = Len(got) + 1 /\ c = Place
      OBVIOUS
    <2>3. /\ g \in 1..Len(sent) + 1 /\ c \in Nat /\ DataLength \in Nat
          /\ Len(got) \in Nat /\ Len(sent) \in Nat
      BY <2>1, <2>2, <2>t, TakenFacts, TypeFacts
    <2>4. StreamAt(S, S[g] + c)
      BY <2>1, <2>2, <2>r DEF StreamInv, Taken
    <2>5. g <= Len(sent) => c < FrameLength(g)
      <3>. SUFFICES ASSUME g <= Len(sent) PROVE c < FrameLength(g)
        OBVIOUS
      <3>1. FrameLength(g) \in Nat /\ FrameLength(g) > HeaderSize
        <4>1. g \in 1..Len(sent) /\ sent \in [1..Len(sent) -> 1..MaxBody]
          BY <2>3, <2>t, TypeFacts
        <4>2. sent[g] \in 1..MaxBody
          BY <4>1
        <4>. QED  BY <4>2, Sizes DEF FrameLength
      <3>2. CASE rpc = "header"
        <4>1. CurrentPos + DataLength = HeaderSize /\ c = 0 + CurrentPos
          BY <3>2, <2>2, <2>t, <2>r DEF PlaceInv, Place, Offset
        <4>2. CurrentPos \in Nat
          BY <2>t, TypeFacts
        <4>. QED  BY <4>1, <4>2, <3>1, <2>3, Sizes
      <3>3. CASE rpc = "body"
        <4>1. c + DataLength = FrameLength(g)
          BY <3>3, <2>2, <2>t DEF PlaceInv
        <4>. QED  BY <4>1, <3>1, <2>3
      <3>. QED  BY <3>2, <3>3, <2>r DEF Receiving
    <2>6. g = Len(sent) + 1
      BY <2>1, <2>3, <2>4, <2>5, <2>t, NothingMissing
    <2>. QED  BY <2>2, <2>3, <2>6
  <1>. QED  BY <1>1, Always, AlwaysEnd, PTL

=============================================================================
