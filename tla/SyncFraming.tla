----------------------------- MODULE SyncFraming -----------------------------
(***************************************************************************)
(* The synchronous receivers on the other end of Wire: ASyncChannel.Receive*)
(* of v2, and Channel of v1, whose GetObject includes it.  Both read the   *)
(* prefix and the body in a loop over Socket.Receive.  (The v1 sender loops*)
(* over the array of its message where v2 has SendState: the same bytes.)  *)
(* The first prepares for the prefix again before every read of it; the    *)
(* second has a buffer of fixed size, and puts the body over the prefix.   *)
(* Sources: v2 ASyncChannel.cs (Receive), v1 IPC.Core/Channel.cs.          *)
(***************************************************************************)
EXTENDS Wire

VARIABLES
    mode,       \* which of the two receivers this is
    buffer,     \* ReceiveState.Buffer; Channel.buffer
    CurrentPos, \* ReceiveState.CurrentPos; offset
    DataLength, \* ReceiveState.DataLength; remainingCount
    rpc,        \* where the receiver is
    got,        \* objects received
    slipped     \* history: a prefix came in pieces, or a body did not fit

receiveState == <<buffer, CurrentPos, DataLength>>
vars == <<senderVars, wire, closed, mode, receiveState, rpc, got, slipped>>

Init ==
    /\ WireInit
    /\ mode \in {"ASyncChannel", "Channel"}
    /\ buffer = [i \in 1..DefaultBufferSize |-> Junk]
    /\ CurrentPos = 0 /\ DataLength = 0
    /\ rpc = "idle"
    /\ got = <<>>
    /\ slipped = FALSE

Send == Sender /\ UNCHANGED <<mode, receiveState, rpc, got, slipped>>

BeginReceive ==
    /\ rpc = "idle"
    /\ CurrentPos' = 0 /\ DataLength' = HeaderSize
    /\ rpc' = "header"
    /\ UNCHANGED <<senderVars, wire, closed, mode, buffer, got, slipped>>

\* Socket.Receive puts n bytes at pos.
ReceiveAt(pos, n) ==
    /\ buffer' = [i \in 1..Len(buffer) |-> IF i \in pos + 1 .. pos + n THEN wire[i - pos] ELSE buffer[i]]
    /\ wire' = SubSeq(wire, n + 1, Len(wire))
    /\ CurrentPos' = pos + n

\* Mutant: Channel, too, starts the prefix again at every read.
RestartHeader == 0
HeaderStart == IF mode = "ASyncChannel" THEN 0 ELSE CurrentPos

ReadHeader(n) ==
    /\ rpc = "header" /\ DataLength > 0
    /\ n \in 1..Smaller(HeaderSize - HeaderStart, Len(wire))
    /\ ReceiveAt(HeaderStart, n)
    /\ DataLength' = HeaderSize - HeaderStart - n
    /\ slipped' = (slipped \/ (mode = "ASyncChannel" /\ n < HeaderSize))
    /\ UNCHANGED <<senderVars, closed, mode, rpc, got>>

\* Mutant: the length counts the prefix.
PrepareForWholeFrame(n) ==
    /\ CurrentPos' = IF mode = "ASyncChannel" THEN CurrentPos ELSE 0
    /\ DataLength' = HeaderSize + n
    /\ buffer' = IF mode = "ASyncChannel" THEN AdjustBuffer(buffer, CurrentPos, DataLength') ELSE buffer

PrepareForBody(n) ==
    /\ CurrentPos' = IF mode = "ASyncChannel" THEN CurrentPos ELSE 0
    /\ DataLength' = n
    /\ buffer' = IF mode = "ASyncChannel" THEN AdjustBuffer(buffer, CurrentPos, n) ELSE buffer

HeaderReceived ==
    /\ rpc = "header" /\ DataLength = 0
    /\ IF HeaderOf(buffer) = 0
       THEN rpc' = "garbled" /\ UNCHANGED receiveState
       ELSE rpc' = "body" /\ PrepareForBody(sent[HeaderOf(buffer)])
    /\ UNCHANGED <<senderVars, wire, closed, mode, got, slipped>>

Fits == CurrentPos + DataLength <= Len(buffer)

ReadBody(n) ==
    /\ rpc = "body" /\ DataLength > 0 /\ Fits
    /\ n \in 1..Smaller(DataLength, Len(wire))
    /\ ReceiveAt(CurrentPos, n)
    /\ DataLength' = DataLength - n
    /\ UNCHANGED <<senderVars, closed, mode, rpc, got, slipped>>

\* Socket.Receive throws before it reads; Channel.Receive returns false and GetObject
\* null, with the body still to come.
BodyTooLong ==
    /\ rpc = "body" /\ DataLength > 0 /\ ~Fits
    /\ rpc' = "idle"
    /\ slipped' = TRUE
    /\ UNCHANGED <<senderVars, wire, closed, mode, receiveState, got>>

Deserialize ==
    /\ rpc = "body" /\ DataLength = 0
    /\ LET k == BodyAt(buffer, IF mode = "ASyncChannel" THEN HeaderSize ELSE 0)
       IN  IF k = 0 THEN rpc' = "garbled" /\ got' = got
                    ELSE rpc' = "idle" /\ got' = Append(got, k)
    /\ UNCHANGED <<senderVars, wire, closed, mode, receiveState, slipped>>

\* At the end of the stream Socket.Receive returns 0 for ever, and so, with an out
\* SocketError, it does on a broken connection in ASyncChannel; in Channel that throws.
StreamEnds ==
    /\ rpc \in {"header", "body"} /\ DataLength > 0 /\ closed /\ wire = <<>>
    /\ rpc = "body" => Fits
    /\ rpc' \in IF mode = "Channel" THEN {"spinning", "failed"} ELSE {"spinning"}
    /\ UNCHANGED <<senderVars, wire, closed, mode, receiveState, got, slipped>>

Receiver ==
    \/ BeginReceive \/ HeaderReceived \/ BodyTooLong \/ Deserialize \/ StreamEnds
    \/ \E n \in 1..(HeaderSize + MaxBody) : ReadHeader(n) \/ ReadBody(n)

Next == Send \/ Receiver

Spec == Init /\ [][Next]_vars

\* As in Framing: the kernel writes and the receiver runs.
Writes == (\E n \in 1..(HeaderSize + MaxBody) : Write(n)) /\ UNCHANGED <<mode, receiveState, rpc, got, slipped>>
FairSpec == Spec /\ WF_vars(Writes) /\ WF_vars(Receiver)

-----------------------------------------------------------------------------
TypeOK ==
    /\ WireTypeOK
    /\ mode \in {"ASyncChannel", "Channel"}
    /\ buffer \in Seq(Bytes)
    /\ CurrentPos \in 0..Len(buffer)
    /\ DataLength \in 0..(HeaderSize + MaxBody)
    /\ rpc \in {"idle", "header", "body", "garbled", "spinning", "failed"}
    /\ got \in Seq(1..MaxSent)
    /\ slipped \in BOOLEAN

\* No object's bytes are taken for another's, nor for a prefix.
NothingMixed == rpc # "garbled" /\ \A i \in 1..Len(got) : got[i] = i

\* The receiver keeps its place, and the objects come in order, unless the one thing
\* has happened that its loop cannot take: in ASyncChannel.Receive a prefix that came
\* in more than one piece, in Channel a body longer than the buffer (one that fits is
\* never refused).
PlaceKept ==
    /\ ~slipped => NothingMixed
    /\ slipped /\ mode = "Channel" => \E k \in 1..Len(sent) : sent[k] > DefaultBufferSize

\* Until then, a receiver that waits (or has ended), with nothing in the stream or still
\* to be written, has returned all that was sent, or the connection is closed.
NothingAwaited ==
    /\ ~slipped /\ rpc # "idle" /\ DataLength > 0
    /\ ~closed /\ wire = <<>> /\ sendPos = sendLen
    => Len(got) = Len(sent)

\* Until then, what is sent is received while the connection lives.
SyncDelivered == \A k \in 1..MaxSent : Len(sent) >= k ~> Len(got) >= k \/ slipped \/ closed

=============================================================================
