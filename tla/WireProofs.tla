------------------------------ MODULE WireProofs ------------------------------
(***************************************************************************)
(* What the proofs about both receivers rest on, for every size of the     *)
(* prefix, the buffers and the objects.  The bytes of a connection are     *)
(* counted from its beginning: S[k] is the position of the first byte of   *)
(* the k-th frame, the sender has written Written(S) bytes, and when the   *)
(* receiver has taken t of them the stream holds the others, each in its   *)
(* place.  A step of the sender keeps that, and so does taking n bytes     *)
(* from the front of the stream.                                           *)
(***************************************************************************)
EXTENDS Wire, SequenceTheorems, TLAPS

LEMMA FunctionIsSeq ==
    ASSUME NEW T, NEW n \in Nat, NEW f \in [1..n -> T]
    PROVE  f \in Seq(T) /\ Len(f) = n
  <1>1. f \in Seq(T)
    BY SeqDef
  <1>2. DOMAIN f = 1..n /\ DOMAIN f = 1..Len(f) /\ Len(f) \in Nat
    BY <1>1, LenProperties
  <1>. QED  BY <1>1, <1>2

LEMMA Sizes ==
    /\ HeaderSize \in Nat /\ HeaderSize > 0 /\ MaxBody \in Nat /\ MaxSent \in Nat
    /\ DefaultBufferSize \in Nat /\ DefaultBufferSize >= HeaderSize
  BY SizeAssumption

LEMMA JunkIsByte == Junk \in Bytes
  BY Sizes DEF Junk, Bytes

LEMMA BytesArePairs == \A b \in Bytes : b = <<b[1], b[2]>>
  BY DEF Bytes

-----------------------------------------------------------------------------
\* Where the frames start.
Starts(S) ==
    /\ S \in [1..Len(sent) + 1 -> Nat]
    /\ S[1] = 0
    /\ \A k \in 1..Len(sent) : S[k + 1] = S[k] + FrameLength(k)
    /\ \A j \in 1..Len(sent), k \in 1..Len(sent) + 1 : j < k => S[j] + FrameLength(j) <= S[k]

Written(S) == IF Len(sent) = 0 THEN 0 ELSE S[Len(sent)] + sendPos

\* The buffer holds the frame that is being sent, and the stream only bytes of objects.
SenderInv ==
    /\ Len(sent) = 0 => sendLen = 0
    /\ Len(sent) > 0 => sendLen = FrameLength(Len(sent))
    /\ \A i \in 1..sendLen : sendBuf[i] = <<Len(sent), i - 1>>
    /\ \A i \in 1..Len(wire) : wire[i][1] \in 1..Len(sent)

\* After t bytes: the i-th byte of the stream is the one at position t + i - 1.
InPlace(S, t, i) ==
    /\ wire[i][1] \in 1..Len(sent) /\ wire[i][2] \in Nat
    /\ wire[i][2] < FrameLength(wire[i][1])
    /\ S[wire[i][1]] + wire[i][2] = t + i - 1

StreamAt(S, t) ==
    /\ \A i \in 1..Len(wire) : InPlace(S, t, i)
    /\ ~closed => t + Len(wire) = Written(S)

WireInv == WireTypeOK /\ SenderInv

LEMMA WireFacts ==
    ASSUME WireTypeOK
    PROVE  /\ Len(sent) \in Nat /\ sent \in [1..Len(sent) -> 1..MaxBody] /\ Len(sent) <= MaxSent
           /\ \A k \in 1..Len(sent) : FrameLength(k) \in Nat /\ FrameLength(k) > HeaderSize
                                       /\ FrameLength(k) <= HeaderSize + MaxBody
           /\ Len(sendBuf) \in Nat /\ sendBuf \in [1..Len(sendBuf) -> Bytes]
           /\ sendLen \in Nat /\ sendPos \in Nat /\ sendPos <= sendLen /\ sendLen <= Len(sendBuf)
           /\ Len(wire) \in Nat /\ wire \in [1..Len(wire) -> Bytes]
  <1>1. sent \in Seq(1..MaxBody) /\ sendBuf \in Seq(Bytes) /\ wire \in Seq(Bytes)
        /\ Len(sent) <= MaxSent
    BY DEF WireTypeOK
  <1>2. Len(sent) \in Nat /\ sent \in [1..Len(sent) -> 1..MaxBody]
    BY <1>1, LenProperties
  <1>3. \A k \in 1..Len(sent) : FrameLength(k) \in Nat /\ FrameLength(k) > HeaderSize
                                 /\ FrameLength(k) <= HeaderSize + MaxBody
    BY <1>2, Sizes DEF FrameLength
  <1>4. Len(sendBuf) \in Nat /\ sendBuf \in [1..Len(sendBuf) -> Bytes]
        /\ Len(wire) \in Nat /\ wire \in [1..Len(wire) -> Bytes]
    BY <1>1, LenProperties
  <1>5. sendLen \in 0..Len(sendBuf) /\ sendPos \in 0..sendLen
    BY DEF WireTypeOK
  <1>. QED  BY <1>1, <1>2, <1>3, <1>4, <1>5, Sizes

\* A byte of the stream that falls into the message being received, of which c bytes
\* are taken, is that byte of the message.
LEMMA ByteInPlace ==
    ASSUME WireTypeOK, NEW S, Starts(S), NEW g \in 1..Len(sent) + 1, NEW c \in Nat,
           StreamAt(S, S[g] + c), NEW i \in 1..Len(wire),
           c + i - 1 <= HeaderSize \/ (g <= Len(sent) /\ c + i - 1 < FrameLength(g))
    PROVE  g \in 1..Len(sent) /\ wire[i] = <<g, c + i - 1>>
  <1>. DEFINE k == wire[i][1]  o == wire[i][2]
  <1>1. /\ k \in 1..Len(sent) /\ o \in Nat /\ o < FrameLength(k)
        /\ S[k] + o = S[g] + c + i - 1
    BY DEF StreamAt, InPlace
  <1>2. Len(sent) \in Nat /\ Len(wire) \in Nat
    BY WireFacts
  <1>3. /\ S \in [1..Len(sent) + 1 -> Nat]
        /\ \A j \in 1..Len(sent), m \in 1..Len(sent) + 1 : j < m => S[j] + FrameLength(j) <= S[m]
    BY DEF Starts
  <1>4. wire[i] = <<k, o>>
    BY WireFacts, BytesArePairs
  <1>5. /\ FrameLength(k) \in Nat /\ FrameLength(k) > HeaderSize
        /\ g \in 1..Len(sent) => FrameLength(g) \in Nat /\ FrameLength(g) > HeaderSize
    <2>1. \A m \in 1..Len(sent) : FrameLength(m) \in Nat /\ FrameLength(m) > HeaderSize
      BY WireFacts, Zenon
    <2>. HIDE DEF k, o
    <2>. QED  BY <1>1, <2>1, Zenon
  <1>. HIDE DEF k, o
  <1>6. S[k] \in Nat /\ S[g] \in Nat /\ i \in Nat /\ i >= 1 /\ HeaderSize \in Nat
    BY <1>1, <1>2, <1>3, Sizes
  <1>8. ~(k < g)
    <2>. SUFFICES ASSUME k < g PROVE FALSE
      OBVIOUS
    <2>1. S[k] + FrameLength(k) <= S[g]
      BY <1>1, <1>2, <1>3
    <2>. QED  BY <1>1, <1>5, <1>6, <2>1
  <1>9. ~(k > g)
    <2>. SUFFICES ASSUME k > g PROVE FALSE
      OBVIOUS
    <2>1. g \in 1..Len(sent)
      BY <1>1, <1>2
    <2>2. S[g] + FrameLength(g) <= S[k]
      BY <1>1, <1>2, <1>3, <2>1
    <2>3. c + i - 1 < FrameLength(g)
      BY <1>2, <1>5, <1>6, <2>1
    <2>4. FrameLength(g) \in Nat /\ o \in Nat /\ S[k] + o = S[g] + c + i - 1
      BY <1>1, <1>5, <2>1
    <2>. QED  BY <1>6, <2>2, <2>3, <2>4
  <1>10. k = g /\ o = c + i - 1
    BY <1>1, <1>2, <1>6, <1>8, <1>9
  <1>. QED  BY <1>1, <1>4, <1>10

LEMMA WireInitInv ==
    ASSUME WireInit
    PROVE  WireInv /\ Len(sent) = 0 /\ Len(wire) = 0 /\ \E S : Starts(S) /\ StreamAt(S, 0)
  <1>1. [i \in 1..DefaultBufferSize |-> Junk] \in Seq(Bytes)
        /\ Len([i \in 1..DefaultBufferSize |-> Junk]) = DefaultBufferSize
    BY FunctionIsSeq, JunkIsByte, Sizes
  <1>2. <<>> \in Seq(1..MaxBody) /\ <<>> \in Seq(Bytes) /\ Len(<<>>) = 0
    BY EmptySeq
  <1>3. /\ sent = <<>> /\ sendBuf = [i \in 1..DefaultBufferSize |-> Junk] /\ wire = <<>>
        /\ sendPos = 0 /\ sendLen = 0 /\ closed = FALSE
    BY DEF WireInit
  <1>4. WireTypeOK
    <2>1. 0 \in 0..Len(sendBuf) /\ 0 \in 0..0 /\ 0 <= MaxSent
      BY <1>1, <1>3, Sizes
    <2>. QED  BY <1>1, <1>2, <1>3, <2>1 DEF WireTypeOK
  <1>5. SenderInv
    BY <1>2, <1>3 DEF SenderInv
  <1>. DEFINE S == [k \in 1..1 |-> 0]
  <1>6. Len(sent) = 0 /\ Len(wire) = 0 /\ S \in [1..1 -> Nat] /\ S[1] = 0
    BY <1>2, <1>3
  <1>7. Starts(S)
    BY <1>6 DEF Starts
  <1>. HIDE DEF S
  <1>8. StreamAt(S, 0)
    BY <1>6 DEF StreamAt, Written
  <1>. QED  BY <1>4, <1>5, <1>6, <1>7, <1>8 DEF WireInv

-----------------------------------------------------------------------------
(* The sender.                                                             *)

LEMMA AdjustKeeps ==
    ASSUME NEW buf \in Seq(Bytes), NEW pos \in 0..Len(buf), NEW n \in Nat
    PROVE  /\ AdjustBuffer(buf, pos, n) \in Seq(Bytes)
           /\ Len(AdjustBuffer(buf, pos, n)) \in Nat /\ Len(AdjustBuffer(buf, pos, n)) >= pos + n
           /\ Len(AdjustBuffer(buf, pos, n)) >= Len(buf)
           /\ \A i \in 1..pos : AdjustBuffer(buf, pos, n)[i] = buf[i]
  <1>1. Len(buf) \in Nat /\ buf \in [1..Len(buf) -> Bytes] /\ pos \in Nat /\ pos <= Len(buf)
    BY LenProperties
  <1>2. CASE Len(buf) >= pos + n
    BY <1>1, <1>2 DEF AdjustBuffer
  <1>3. CASE ~(Len(buf) >= pos + n)
    <2>. DEFINE room == [i \in 1..(pos + n) |-> IF i <= pos THEN buf[i] ELSE Junk]
    <2>1. AdjustBuffer(buf, pos, n) = room
      BY <1>3 DEF AdjustBuffer
    <2>2. room \in [1..(pos + n) -> Bytes]
      BY <1>1, JunkIsByte
    <2>3. pos + n \in Nat
      BY <1>1
    <2>4. room \in Seq(Bytes) /\ Len(room) = pos + n
      BY <2>2, <2>3, FunctionIsSeq
    <2>5. \A i \in 1..pos : room[i] = buf[i]
      BY <1>1
    <2>. HIDE DEF room
    <2>. QED  BY <1>1, <1>3, <2>1, <2>3, <2>4, <2>5
  <1>. QED  BY <1>2, <1>3

\* What was sent stays sent.
SentGrows == Len(sent)' >= Len(sent) /\ \A k \in 1..Len(sent) : sent'[k] = sent[k]

\* The frames that have been counted stay where they are, and the stream in place.
StreamContinues(S) ==
    \E T : /\ Starts(T)' /\ \A k \in 1..Len(sent) + 1 : T[k] = S[k]
           /\ \A t \in Nat : StreamAt(S, t) => StreamAt(T, t)'

\* A new object: its frame is in the buffer.
LEMMA SendObjectKeepsWire ==
    ASSUME WireInv, NEW length \in 1..MaxBody, SendObject(length), NEW K, K = Len(sent)
    PROVE  /\ WireInv' /\ SentGrows
           /\ Len(sent)' = K + 1
           /\ FrameLength(K + 1)' = HeaderSize + length
           /\ \A k \in 1..K : FrameLength(k)' = FrameLength(k)
  <1>. DEFINE n == HeaderSize + length  room == AdjustBuffer(sendBuf, 0, n)
              frame == [i \in 1..Len(room) |-> IF i <= n THEN <<K + 1, i - 1>> ELSE room[i]]
  <1>t. WireTypeOK /\ SenderInv
    BY DEF WireInv
  <1>1. /\ ~closed /\ sendPos = sendLen /\ K < MaxSent /\ sent' = Append(sent, length)
        /\ sendBuf' = frame /\ sendPos' = 0 /\ sendLen' = n
        /\ wire' = wire /\ closed' = closed
    BY DEF SendObject, SetData
  <1>2. K \in Nat /\ sent \in Seq(1..MaxBody) /\ n \in Nat /\ n <= HeaderSize + MaxBody /\ n > 0
    BY <1>t, WireFacts, Sizes DEF WireTypeOK
  <1>3. /\ sent' \in Seq(1..MaxBody) /\ Len(sent)' = K + 1 /\ sent'[K + 1] = length
        /\ \A k \in 1..K : sent'[k] = sent[k]
    BY <1>1, <1>2
  <1>4. room \in Seq(Bytes) /\ Len(room) \in Nat /\ Len(room) >= n
    <2>1. sendBuf \in Seq(Bytes) /\ 0 \in 0..Len(sendBuf)
      BY <1>t, WireFacts DEF WireTypeOK
    <2>2. /\ AdjustBuffer(sendBuf, 0, n) \in Seq(Bytes) /\ Len(AdjustBuffer(sendBuf, 0, n)) \in Nat
          /\ Len(AdjustBuffer(sendBuf, 0, n)) >= 0 + n
      BY <1>2, <2>1, AdjustKeeps
    <2>. HIDE DEF n
    <2>. QED  BY <2>2, <1>2
  <1>5. frame \in Seq(Bytes) /\ Len(frame) = Len(room) /\ \A i \in 1..n : frame[i] = <<K + 1, i - 1>>
    <2>. HIDE DEF room, n
    <2>1. \A i \in 1..Len(room) : room[i] \in Bytes
      BY <1>4, ElementOfSeq
    <2>2. K + 1 \in 0..MaxSent /\ \A i \in 1..n : i - 1 \in 0..(HeaderSize + MaxBody)
      BY <1>1, <1>2, Sizes
    <2>3. frame \in [1..Len(room) -> Bytes]
      BY <2>1, <2>2, <1>2, <1>4 DEF Bytes
    <2>4. \A i \in 1..n : i \in 1..Len(room) /\ i <= n
      BY <1>2, <1>4
    <2>. QED  BY <2>3, <2>4, <1>4, FunctionIsSeq
  <1>. HIDE DEF frame, room
  <1>6. WireTypeOK'
    <2>1. Len(sent)' <= MaxSent
      BY <1>1, <1>2, <1>3, Sizes
    <2>2. sendLen' \in 0..Len(sendBuf)' /\ sendPos' \in 0..sendLen'
      BY <1>1, <1>2, <1>4, <1>5
    <2>. QED  BY <1>1, <1>3, <1>5, <2>1, <2>2, <1>t DEF WireTypeOK
  <1>7. /\ FrameLength(K + 1)' = n
        /\ \A k \in 1..K : FrameLength(k)' = FrameLength(k)
    BY <1>3 DEF FrameLength
  <1>8. SenderInv'
    <2>1. Len(sent)' > 0 /\ Len(sent)' # 0
      BY <1>2, <1>3
    <2>2. sendLen' = FrameLength(Len(sent))'
      BY <1>1, <1>3, <1>7 DEF FrameLength
    <2>3. \A i \in 1..sendLen' : sendBuf'[i] = <<Len(sent)', i - 1>>
      BY <1>1, <1>3, <1>5
    <2>4. \A i \in 1..Len(wire)' : wire'[i][1] \in 1..Len(sent)'
      BY <1>1, <1>2, <1>3, <1>t DEF SenderInv
    <2>. QED  BY <2>1, <2>2, <2>3, <2>4 DEF SenderInv
  <1>9. SentGrows
    BY <1>2, <1>3 DEF SentGrows
  <1>. QED  BY <1>3, <1>6, <1>7, <1>8, <1>9 DEF WireInv

\* A new object: its frame starts where the last one ends, which is also how much has
\* been written.
LEMMA SendObjectKeepsStream ==
    ASSUME WireInv, NEW length \in 1..MaxBody, SendObject(length),
           NEW S, Starts(S)
    PROVE  StreamContinues(S)
  <1>k. PICK K, n : K = Len(sent) /\ n = HeaderSize + length
    OBVIOUS
  <1>. USE <1>k
  <1>t. WireTypeOK /\ SenderInv /\ WireTypeOK'
    BY SendObjectKeepsWire DEF WireInv
  <1>1. /\ ~closed /\ sendPos = sendLen /\ sendPos' = 0 /\ wire' = wire /\ closed' = closed
    BY DEF SendObject, SetData
  <1>2. K \in Nat /\ n \in Nat /\ Len(wire) \in Nat
    BY <1>t, WireFacts, Sizes
  <1>3. /\ Len(sent)' = K + 1 /\ FrameLength(K + 1)' = n
        /\ \A k \in 1..K : FrameLength(k)' = FrameLength(k)
    BY SendObjectKeepsWire
  <1>4. S \in [1..K + 1 -> Nat] /\ S[K + 1] \in Nat
    BY <1>2 DEF Starts
  <1>5. PICK T : /\ T \in [1..K + 2 -> Nat] /\ T[K + 2] = S[K + 1] + n
                 /\ \A k \in 1..K + 1 : T[k] = S[k]
    <2>. DEFINE U == [k \in 1..K + 2 |-> IF k <= K + 1 THEN S[k] ELSE S[K + 1] + n]
    <2>1. \A k \in 1..K + 1 : S[k] \in Nat
      BY <1>4
    <2>2. U \in [1..K + 2 -> Nat]
      BY <1>2, <1>4, <2>1
    <2>3. K + 2 \in 1..K + 2 /\ ~(K + 2 <= K + 1) /\ \A k \in 1..K + 1 : k \in 1..K + 2 /\ k <= K + 1
      BY <1>2
    <2>4. U[K + 2] = S[K + 1] + n /\ \A k \in 1..K + 1 : U[k] = S[k]
      BY <2>3
    <2>. QED  BY <2>2, <2>4, Zenon
  <1>6. Starts(T)'
    <2>1. T \in [1..Len(sent)' + 1 -> Nat] /\ T[1] = 0
      <3>1. Len(sent)' + 1 = K + 2 /\ 1 \in 1..K + 1
        BY <1>2, <1>3
      <3>. QED  BY <3>1, <1>5 DEF Starts
    <2>2. ASSUME NEW k \in 1..Len(sent)'
          PROVE  T[k + 1] = T[k] + FrameLength(k)'
      <3>1. CASE k = K + 1
        <4>1. k + 1 = K + 2 /\ T[k] = S[K + 1]
          BY <3>1, <1>2, <1>5
        <4>. QED  BY <3>1, <4>1, <1>3, <1>5 DEF FrameLength
      <3>2. CASE k # K + 1
        <4>1. k \in 1..K /\ k \in 1..K + 1 /\ k + 1 \in 1..K + 1
          BY <3>2, <1>2, <1>3
        <4>. QED  BY <4>1, <1>3, <1>5 DEF Starts
      <3>. QED  BY <3>1, <3>2
    <2>3. ASSUME NEW j \in 1..Len(sent)', NEW k \in 1..Len(sent)' + 1, j < k
          PROVE  T[j] + FrameLength(j)' <= T[k]
      <3>1. CASE k = K + 2
        <4>1. CASE j = K + 1
          BY <3>1, <4>1, <2>2, <1>2, <1>3, <1>4, <1>5
        <4>2. CASE j # K + 1
          <5>1. j \in 1..K /\ j \in 1..K + 1 /\ K + 1 \in 1..K + 1 /\ j < K + 1
            BY <4>2, <1>2, <1>3
          <5>2. S[j] + FrameLength(j) <= S[K + 1]
            BY <5>1 DEF Starts
          <5>3. S[j] \in Nat /\ FrameLength(j) \in Nat
            BY <5>1, <1>4, <1>t, WireFacts
          <5>4. T[j] = S[j] /\ FrameLength(j)' = FrameLength(j) /\ T[k] = S[K + 1] + n
            BY <3>1, <5>1, <1>3, <1>5
          <5>. QED  BY <5>2, <5>3, <5>4, <1>2, <1>4
        <4>. QED  BY <4>1, <4>2
      <3>2. CASE k # K + 2
        <4>1. k \in 1..K + 1 /\ j \in 1..K /\ j \in 1..K + 1
          BY <3>2, <2>3, <1>2, <1>3
        <4>. QED  BY <4>1, <2>3, <1>3, <1>5 DEF Starts
      <3>. QED  BY <3>1, <3>2
    <2>. QED  BY <2>1, <2>2, <2>3 DEF Starts
  <1>7. Written(T)' = Written(S)
    <2>1. Written(T)' = S[K + 1]
      <3>1. Len(sent)' # 0 /\ K + 1 \in 1..K + 1
        BY <1>2, <1>3
      <3>2. Written(T)' = T[K + 1] + 0
        BY <3>1, <1>1, <1>3 DEF Written
      <3>. QED  BY <3>1, <3>2, <1>4, <1>5
    <2>2. CASE K = 0
      BY <2>1, <2>2 DEF Written, Starts
    <2>3. CASE K # 0
      <3>1. K \in 1..K /\ K > 0
        BY <2>3, <1>2
      <3>2. S[K + 1] = S[K] + FrameLength(K) /\ sendPos = FrameLength(K)
        BY <3>1, <1>1, <1>t DEF Starts, SenderInv
      <3>. QED  BY <2>1, <2>3, <3>2 DEF Written
    <2>. QED  BY <2>2, <2>3
  <1>8. ASSUME NEW t \in Nat, StreamAt(S, t)
        PROVE  StreamAt(T, t)'
    <2>1. ASSUME NEW i \in 1..Len(wire)
          PROVE  InPlace(T, t, i)'
      <3>1. InPlace(S, t, i)
        BY <1>8 DEF StreamAt
      <3>2. wire[i][1] \in 1..K /\ wire[i][1] \in 1..K + 1 /\ wire[i][1] \in 1..Len(sent)'
        BY <3>1, <1>2, <1>3 DEF InPlace
      <3>3. T[wire[i][1]] = S[wire[i][1]] /\ FrameLength(wire[i][1])' = FrameLength(wire[i][1])
        BY <3>2, <1>1, <1>3, <1>5 DEF FrameLength
      <3>. QED  BY <3>1, <3>2, <3>3, <1>1 DEF InPlace
    <2>. QED  BY <2>1, <1>1, <1>7, <1>8 DEF StreamAt
  <1>. QED  BY <1>5, <1>6, <1>8 DEF StreamContinues

\* The kernel has taken n more bytes of the frame.
LEMMA WriteKeepsWire ==
    ASSUME WireInv, NEW n \in Nat, Write(n)
    PROVE  /\ WireInv' /\ SentGrows
           /\ \A S : Starts(S) => StreamContinues(S)
  <1>k. PICK K, p, L : K = Len(sent) /\ p = sendPos /\ L = Len(wire)
    OBVIOUS
  <1>. USE <1>k
  <1>t. WireTypeOK /\ SenderInv
    BY DEF WireInv
  <1>1. /\ ~closed /\ n \in 1..(sendLen - p) /\ wire' = wire \o SubSeq(sendBuf, p + 1, p + n)
        /\ sendPos' = p + n /\ sent' = sent /\ sendBuf' = sendBuf /\ sendLen' = sendLen
        /\ closed' = closed
    BY DEF Write
  <1>2. /\ K \in Nat /\ p \in Nat /\ L \in Nat /\ sendLen \in Nat /\ p + n <= sendLen /\ n >= 1
        /\ sendLen <= Len(sendBuf) /\ Len(sendBuf) \in Nat
    BY <1>1, <1>t, WireFacts
  <1>3. K > 0 /\ K \in 1..K /\ sendLen = FrameLength(K)
    BY <1>2, <1>t DEF SenderInv
  <1>. DEFINE piece == SubSeq(sendBuf, p + 1, p + n)
  <1>4. piece \in Seq(Bytes) /\ Len(piece) = n /\ \A i \in 1..n : piece[i] = <<K, p + i - 1>>
    <2>1. \A i \in (p + 1)..(p + n) : sendBuf[i] \in Bytes
      <3>1. sendBuf \in [1..Len(sendBuf) -> Bytes]
        BY <1>t, WireFacts
      <3>. QED  BY <3>1, <1>2
    <2>2. /\ piece \in Seq(Bytes)
          /\ Len(piece) = IF p + 1 <= p + n THEN (p + n) - (p + 1) + 1 ELSE 0
          /\ \A i \in 1..((p + n) - (p + 1) + 1) : piece[i] = sendBuf[(p + 1) + i - 1]
      <3>1. p + 1 \in Int /\ p + n \in Int
        BY <1>2
      <3>. QED  BY <2>1, <3>1, SubSeqProperties
    <2>. HIDE DEF piece
    <2>3. ASSUME NEW i \in 1..n
          PROVE  piece[i] = <<K, p + i - 1>>
      <3>1. i \in 1..((p + n) - (p + 1) + 1) /\ (p + 1) + i - 1 = p + i /\ p + i \in 1..sendLen
        BY <1>2
      <3>2. piece[i] = sendBuf[p + i]
        BY <2>2, <3>1
      <3>3. sendBuf[p + i] = <<K, (p + i) - 1>>
        BY <3>1, <1>t DEF SenderInv
      <3>4. (p + i) - 1 = p + i - 1
        BY <3>1, <1>2
      <3>. QED  BY <3>2, <3>3, <3>4, Zenon
    <2>. QED  BY <2>2, <2>3, <1>2
  <1>. HIDE DEF piece
  <1>5. /\ wire' \in Seq(Bytes) /\ Len(wire)' = L + n
        /\ \A i \in 1..(L + n) : wire'[i] = IF i <= L THEN wire[i] ELSE piece[i - L]
    <2>1. wire \in Seq(Bytes) /\ wire' = wire \o piece
      BY <1>1, <1>t DEF WireTypeOK, piece
    <2>. QED  BY <2>1, <1>4, ConcatProperties
  <1>6. WireTypeOK'
    <2>1. sendPos' \in 0..sendLen'
      BY <1>1, <1>2
    <2>. QED  BY <1>1, <1>5, <2>1, <1>t DEF WireTypeOK
  <1>7. ASSUME NEW i \in 1..(L + n), i > L
        PROVE  i - L \in 1..n /\ i \in Nat /\ wire'[i] = <<K, p + (i - L) - 1>>
    <2>1. i - L \in 1..n /\ i \in Nat
      BY <1>2, <1>7
    <2>2. wire'[i] = piece[i - L]
      BY <2>1, <1>2, <1>5, <1>7
    <2>. QED  BY <2>1, <2>2, <1>4
  <1>8. SenderInv'
    <2>1. ASSUME NEW i \in 1..Len(wire)'
          PROVE  wire'[i][1] \in 1..Len(sent)'
      <3>1. CASE i <= L
        BY <3>1, <1>1, <1>2, <1>5, <1>t DEF SenderInv
      <3>2. CASE i > L
        <4>1. i \in 1..(L + n)
          BY <1>5
        <4>2. wire'[i] = <<K, p + (i - L) - 1>>
          BY <3>2, <4>1, <1>7
        <4>3. Len(sent)' = K
          BY <1>1
        <4>. QED  BY <4>2, <4>3, <1>3
      <3>. QED  BY <3>1, <3>2, <1>2, <1>5
    <2>. QED  BY <2>1, <1>1, <1>t DEF SenderInv, FrameLength
  <1>9. ASSUME NEW S, Starts(S)
        PROVE  StreamContinues(S)
    <2>1. Starts(S)'
      BY <1>1, <1>9 DEF Starts, FrameLength
    <2>2. S[K] \in Nat /\ Written(S) = S[K] + p /\ Written(S)' = S[K] + (p + n)
      BY <1>1, <1>2, <1>3, <1>9 DEF Starts, Written
    <2>3. ASSUME NEW t \in Nat, StreamAt(S, t)
          PROVE  StreamAt(S, t)'
      <3>1. t + L = S[K] + p /\ \A i \in 1..L : InPlace(S, t, i)
        BY <2>2, <2>3, <1>1 DEF StreamAt
      <3>2. ASSUME NEW i \in 1..L + n
            PROVE  InPlace(S, t, i)'
        <4>1. CASE i <= L
          <5>1. InPlace(S, t, i) /\ wire'[i] = wire[i]
            BY <3>1, <4>1, <1>2, <1>5
          <5>. QED  BY <5>1, <1>1 DEF InPlace, FrameLength
        <4>2. CASE i > L
          <5>1. i - L \in 1..n /\ i \in Nat /\ wire'[i] = <<K, p + (i - L) - 1>>
            BY <4>2, <1>7
          <5>2. p + (i - L) - 1 \in Nat /\ p + (i - L) - 1 < FrameLength(K)
            BY <5>1, <1>2, <1>3
          <5>3. S[K] + (p + (i - L) - 1) = (S[K] + p) + (i - L) - 1
            BY <5>1, <2>2, <1>2
          <5>4. (t + L) + (i - L) - 1 = t + i - 1
            BY <5>1, <1>2
          <5>. QED  BY <5>1, <5>2, <5>3, <5>4, <3>1, <1>1, <1>3 DEF InPlace, FrameLength
        <4>. QED  BY <4>1, <4>2, <1>2
      <3>3. t + (L + n) = Written(S)'
        BY <2>2, <3>1, <1>2
      <3>. QED  BY <3>2, <3>3, <1>5 DEF StreamAt
    <2>. QED  BY <2>1, <2>3 DEF StreamContinues
  <1>10. SentGrows
    BY <1>1, <1>2 DEF SentGrows
  <1>. QED  BY <1>6, <1>8, <1>9, <1>10 DEF WireInv

\* The connection ends; the stream is as it was, or what was in it is thrown away.
LEMMA HangupKeepsWire ==
    ASSUME WireInv, Hangup
    PROVE  /\ WireInv' /\ SentGrows
           /\ \A S : Starts(S) => StreamContinues(S)
  <1>t. WireTypeOK /\ SenderInv
    BY DEF WireInv
  <1>1. /\ closed' /\ closed' \in BOOLEAN /\ wire' \in {wire, <<>>}
        /\ sent' = sent /\ sendBuf' = sendBuf /\ sendPos' = sendPos /\ sendLen' = sendLen
    BY DEF Hangup, senderVars
  <1>2. wire' \in Seq(Bytes) /\ (wire' = <<>> => Len(wire)' = 0)
    BY <1>1, <1>t, EmptySeq DEF WireTypeOK
  <1>3. WireTypeOK'
    BY <1>1, <1>2, <1>t DEF WireTypeOK
  <1>4. SenderInv'
    BY <1>1, <1>2, <1>t DEF SenderInv, FrameLength
  <1>5. SentGrows
    BY <1>1, <1>t, WireFacts DEF SentGrows
  <1>6. ASSUME NEW S, Starts(S)
        PROVE  StreamContinues(S)
    <2>1. Starts(S)'
      BY <1>1, <1>6 DEF Starts, FrameLength
    <2>2. ASSUME NEW t \in Nat, StreamAt(S, t)
          PROVE  StreamAt(S, t)'
      <3>1. CASE wire' = <<>>
        BY <3>1, <1>1, <1>2 DEF StreamAt
      <3>2. CASE wire' = wire
        BY <3>2, <2>2, <1>1 DEF StreamAt, InPlace, FrameLength
      <3>. QED  BY <3>1, <3>2, <1>1
    <2>. QED  BY <2>1, <2>2 DEF StreamContinues
  <1>. QED  BY <1>3, <1>4, <1>5, <1>6 DEF WireInv

LEMMA SenderKeepsWire ==
    ASSUME WireInv, Sender
    PROVE  /\ WireInv' /\ SentGrows
           /\ \A S : Starts(S) => StreamContinues(S)
  <1>1. CASE Hangup
    BY <1>1, HangupKeepsWire
  <1>2. CASE \E n \in 1..MaxBody : SendObject(n)
    BY <1>2, SendObjectKeepsWire, SendObjectKeepsStream
  <1>3. CASE \E n \in 1..(HeaderSize + MaxBody) : Write(n)
    BY <1>3, WriteKeepsWire, Sizes
  <1>. QED  BY <1>1, <1>2, <1>3 DEF Sender

-----------------------------------------------------------------------------
(* The receiver.                                                           *)

\* Taking n bytes from the front of the stream.
LEMMA TakeKeepsWire ==
    ASSUME WireInv, NEW n \in 1..Len(wire), wire' = SubSeq(wire, n + 1, Len(wire)),
           UNCHANGED <<senderVars, closed>>
    PROVE  /\ WireInv'
           /\ \A S : Starts(S) => /\ Starts(S)'
                                  /\ \A t \in Nat : StreamAt(S, t) => StreamAt(S, t + n)'
  <1>k. PICK L : L = Len(wire)
    OBVIOUS
  <1>. USE <1>k
  <1>t. WireTypeOK /\ SenderInv
    BY DEF WireInv
  <1>1. /\ L \in Nat /\ n \in Nat /\ n >= 1 /\ n <= L /\ wire \in [1..L -> Bytes]
        /\ sent' = sent /\ sendBuf' = sendBuf /\ sendPos' = sendPos /\ sendLen' = sendLen
        /\ closed' = closed
    BY <1>t, WireFacts DEF senderVars
  <1>2. /\ wire' \in Seq(Bytes) /\ Len(wire)' = L - n /\ \A j \in 1..(L - n) : wire'[j] = wire[n + j]
    <2>1. \A i \in (n + 1)..L : wire[i] \in Bytes
      BY <1>1
    <2>2. n + 1 \in Int /\ L \in Int
      BY <1>1
    <2>3. /\ SubSeq(wire, n + 1, L) \in Seq(Bytes)
          /\ Len(SubSeq(wire, n + 1, L)) = IF n + 1 <= L THEN L - (n + 1) + 1 ELSE 0
          /\ \A i \in 1..(L - (n + 1) + 1) : SubSeq(wire, n + 1, L)[i] = wire[(n + 1) + i - 1]
      BY <2>1, <2>2, SubSeqProperties
    <2>4. Len(wire)' = L - n
      BY <2>3, <1>1
    <2>5. ASSUME NEW j \in 1..(L - n)
          PROVE  wire'[j] = wire[n + j]
      <3>1. j \in 1..(L - (n + 1) + 1) /\ (n + 1) + j - 1 = n + j
        BY <1>1
      <3>. QED  BY <3>1, <2>3
    <2>. QED  BY <2>3, <2>4, <2>5
  <1>3. WireTypeOK'
    BY <1>1, <1>2, <1>t DEF WireTypeOK
  <1>4. \A j \in 1..(L - n) : n + j \in 1..L
    BY <1>1
  <1>5. SenderInv'
    BY <1>1, <1>2, <1>4, <1>t DEF SenderInv, FrameLength
  <1>6. ASSUME NEW S, Starts(S)
        PROVE  Starts(S)' /\ Written(S)' = Written(S)
    BY <1>1, <1>6 DEF Starts, FrameLength, Written
  <1>7. ASSUME NEW S, Starts(S), NEW t \in Nat, StreamAt(S, t)
        PROVE  StreamAt(S, t + n)'
    <2>1. ASSUME NEW j \in 1..Len(wire)'
          PROVE  InPlace(S, t + n, j)'
      <3>1. n + j \in 1..L /\ wire'[j] = wire[n + j] /\ j \in Nat
        BY <1>1, <1>2, <1>4
      <3>2. InPlace(S, t, n + j)
        BY <3>1, <1>7 DEF StreamAt
      <3>3. t + (n + j) - 1 = (t + n) + j - 1
        BY <3>1, <1>1
      <3>4. FrameLength(wire[j][1])' = FrameLength(wire[n + j][1])
        BY <3>1, <1>1 DEF FrameLength
      <3>. QED  BY <3>1, <3>2, <3>3, <3>4, <1>1 DEF InPlace
    <2>2. ~closed => (t + n) + (L - n) = Written(S)
      <3>1. ~closed => t + L = Written(S)
        BY <1>7 DEF StreamAt
      <3>2. (t + n) + (L - n) = t + L
        BY <1>1
      <3>. QED  BY <3>1, <3>2
    <2>3. closed' <=> closed
      BY <1>1
    <2>4. (t + n) + Len(wire)' = (t + n) + (L - n)
      BY <1>2
    <2>5. ~closed' => (t + n) + Len(wire)' = Written(S)'
      BY <2>2, <2>3, <2>4, <1>6, <1>7, Zenon
    <2>. QED  BY <2>1, <2>5 DEF StreamAt
  <1>. QED  BY <1>3, <1>5, <1>6, <1>7 DEF WireInv

\* A step that leaves both sides and the stream alone.
LEMMA WireUnchanged ==
    ASSUME UNCHANGED <<senderVars, wire, closed>>
    PROVE  /\ WireInv => WireInv'
           /\ \A S : Starts(S) => Starts(S)' /\ \A t : StreamAt(S, t) => StreamAt(S, t)'
  <1>1. /\ sent' = sent /\ sendBuf' = sendBuf /\ sendPos' = sendPos /\ sendLen' = sendLen
        /\ wire' = wire /\ closed' = closed
    BY DEF senderVars
  <1>2. WireInv => WireInv'
    BY <1>1 DEF WireInv, WireTypeOK, SenderInv, FrameLength
  <1>3. ASSUME NEW S, Starts(S)
        PROVE  Starts(S)' /\ \A t : StreamAt(S, t) => StreamAt(S, t)'
    BY <1>1, <1>3 DEF Starts, StreamAt, InPlace, Written, FrameLength
  <1>. QED  BY <1>2, <1>3

\* A receiver that finds the stream empty when everything has been written, and has not
\* the whole of the frame it is in, is at the start of the frame after the last.
LEMMA NothingMissing ==
    ASSUME WireInv, NEW S, Starts(S), NEW g \in 1..Len(sent) + 1, NEW c \in Nat,
           StreamAt(S, S[g] + c), ~closed, wire = <<>>, sendPos = sendLen,
           g <= Len(sent) => c < FrameLength(g)
    PROVE  g = Len(sent) + 1 /\ c = 0
  <1>k. PICK K : K = Len(sent)
    OBVIOUS
  <1>. USE <1>k
  <1>1. K \in Nat /\ S \in [1..K + 1 -> Nat] /\ Len(wire) = 0
    BY WireFacts, EmptySeq DEF WireInv, Starts
  <1>2. S[g] + c = S[K + 1] /\ S[g] \in Nat /\ S[K + 1] \in Nat
    <2>1. S[g] + c = Written(S) /\ S[g] \in Nat /\ S[K + 1] \in Nat
      BY <1>1 DEF StreamAt
    <2>2. CASE K = 0
      BY <2>1, <2>2, <1>1 DEF Written, Starts
    <2>3. CASE K # 0
      <3>1. K \in 1..K /\ S[K + 1] = S[K] + FrameLength(K) /\ sendPos = FrameLength(K)
        BY <2>3, <1>1 DEF WireInv, SenderInv, Starts
      <3>. QED  BY <2>1, <2>3, <3>1 DEF Written
    <2>. QED  BY <2>1, <2>2, <2>3
  <1>3. ~(g <= K)
    <2>. SUFFICES ASSUME g <= K PROVE FALSE
      OBVIOUS
    <2>1. g \in 1..K /\ c < FrameLength(g) /\ FrameLength(g) \in Nat /\ g < K + 1 /\ K + 1 \in 1..K + 1
      BY <1>1, WireFacts DEF WireInv
    <2>2. S[g] + FrameLength(g) <= S[K + 1]
      BY <2>1 DEF Starts
    <2>. QED  BY <2>1, <2>2, <1>2
  <1>. QED  BY <1>1, <1>2, <1>3

=============================================================================
