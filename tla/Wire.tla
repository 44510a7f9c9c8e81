-------------------------------- MODULE Wire --------------------------------
(***************************************************************************)
(* One direction of a channel below the receiver: a sender serializes an   *)
(* object behind a length prefix, copies it into its reused SendState      *)
(* buffer and writes it to a TCP stream, which carries bytes in order and  *)
(* may break or end anywhere.  Framing and SyncFraming add the receivers.  *)
(*                                                                         *)
(* A byte is <<k, j>>: the j-th byte of the frame of the k-th object; the  *)
(* first HeaderSize bytes of a frame are its length prefix.  An object is  *)
(* its number k, and sent[k] is the length of its serialized body.         *)
(* Sources: v2 TransferState.cs, Serializer.cs, ASyncChannel.cs.           *)
(***************************************************************************)
EXTENDS Integers, Sequences

CONSTANTS
    HeaderSize,         \* bytes of the length prefix (4 in the code)
    DefaultBufferSize,  \* initial size of a buffer (1024 in the code)
    MaxBody,            \* bound: bytes of a serialized object
    MaxSent             \* bound: objects sent over one connection

ASSUME SizeAssumption ==
    /\ HeaderSize \in Nat \ {0}
    /\ DefaultBufferSize \in Nat /\ DefaultBufferSize >= HeaderSize
    /\ MaxBody \in Nat \ {0} /\ MaxSent \in Nat

VARIABLES
    sent,       \* lengths of the objects sent so far
    sendBuf,    \* SendState.Buffer
    sendPos,    \* bytes of it that WriteAsync has put on the wire
    sendLen,    \* SendState.DataLength; SendAsync is running while sendPos < sendLen
    wire,       \* bytes in the stream
    closed      \* the sender has closed the connection, or it broke

senderVars == <<sent, sendBuf, sendPos, sendLen>>

Junk == <<0, 0>>
FrameLength(k) == HeaderSize + sent[k]
Smaller(a, b) == IF a <= b THEN a ELSE b

\* AdjustBuffer: a larger buffer keeps the bytes before pos, nothing else.
AdjustBuffer(buf, pos, n) ==
    IF Len(buf) >= pos + n THEN buf
    ELSE [i \in 1..(pos + n) |-> IF i <= pos THEN buf[i] ELSE Junk]

WireInit ==
    /\ sent = <<>>
    /\ sendBuf = [i \in 1..DefaultBufferSize |-> Junk]
    /\ sendPos = 0 /\ sendLen = 0
    /\ wire = <<>>
    /\ closed = FALSE

\* Mutant: DataLength is the length of the buffer.
SetDataWholeBuffer(buf, k, n) ==
    LET room == AdjustBuffer(buf, 0, n) IN
    /\ sendBuf' = [i \in 1..Len(room) |-> IF i <= n THEN <<k, i - 1>> ELSE room[i]]
    /\ sendPos' = 0 /\ sendLen' = Len(room)

\* SetData: the frame of object k, n bytes, at the start of the buffer.
SetData(buf, k, n) ==
    LET room == AdjustBuffer(buf, 0, n) IN
    /\ sendBuf' = [i \in 1..Len(room) |-> IF i <= n THEN <<k, i - 1>> ELSE room[i]]
    /\ sendPos' = 0 /\ sendLen' = n

\* SendObjectAsync: callers await one send before the next.
SendObject(length) ==
    /\ ~closed /\ sendPos = sendLen /\ Len(sent) < MaxSent
    /\ sent' = Append(sent, length)
    /\ SetData(sendBuf, Len(sent) + 1, HeaderSize + length)
    /\ UNCHANGED <<wire, closed>>

\* The kernel takes the next bytes of WriteAsync, as many as it has room for.
Write(n) ==
    /\ ~closed /\ n \in 1..(sendLen - sendPos)
    /\ wire' = wire \o SubSeq(sendBuf, sendPos + 1, sendPos + n)
    /\ sendPos' = sendPos + n
    /\ UNCHANGED <<sent, sendBuf, sendLen, closed>>

\* Close, or a connection that breaks in the middle of a frame.  A reset
\* throws away what the receiver has not read.
Hangup ==
    /\ ~closed
    /\ closed' = TRUE
    /\ wire' \in {wire, <<>>}
    /\ UNCHANGED senderVars

Sender == Hangup \/ (\E n \in 1..MaxBody : SendObject(n))
                 \/ (\E n \in 1..(HeaderSize + MaxBody) : Write(n))

\* The object whose length prefix the buffer starts with; 0 if there is none.
HeaderOf(buf) ==
    IF \A j \in 1..HeaderSize : buf[j] = <<buf[1][1], j - 1>> THEN buf[1][1] ELSE 0

\* The object whose body is in the buffer from offset on; 0 if there is none.  The
\* formatter stops at the end of the object, whatever follows it.
BodyAt(buf, offset) ==
    LET k == buf[offset + 1][1]
    IN  IF /\ k \in DOMAIN sent /\ offset + sent[k] <= Len(buf)
           /\ \A j \in 1..sent[k] : buf[offset + j] = <<k, HeaderSize + j - 1>>
        THEN k ELSE 0

Bytes == (0..MaxSent) \X (0..(HeaderSize + MaxBody))

WireTypeOK ==
    /\ sent \in Seq(1..MaxBody) /\ Len(sent) <= MaxSent
    /\ sendBuf \in Seq(Bytes)
    /\ sendLen \in 0..Len(sendBuf) /\ sendPos \in 0..sendLen
    /\ wire \in Seq(Bytes)
    /\ closed \in BOOLEAN

=============================================================================
