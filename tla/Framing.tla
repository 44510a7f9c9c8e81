------------------------------- MODULE Framing -------------------------------
(***************************************************************************)
(* One direction of an ASyncChannel: Wire with the asynchronous receiver.  *)
(* GetObject receives a header of HeaderSize bytes and a body of the       *)
(* length it says into the same reused buffer, each in as many reads as    *)
(* the stream makes of it, and deserializes the buffer behind the header.  *)
(* Any read may find the end of the stream, and any may time out.          *)
(* Sources: v2 ASyncChannel.cs (ReceiveAsync, GetObject), TransferState.cs *)
(***************************************************************************)
EXTENDS Wire

VARIABLES
    buffer,     \* ReceiveState.Buffer
    CurrentPos, \* ReceiveState.CurrentPos
    DataLength, \* ReceiveState.DataLength: bytes still to receive
    rpc,        \* where the receiver is
    got         \* objects GetObject has returned

receiveState == <<buffer, CurrentPos, DataLength>>
vars == <<senderVars, wire, closed, receiveState, rpc, got>>

ReceiverStates == {"idle", "header", "body", "ended", "garbled"}

Init ==
    /\ WireInit
    /\ buffer = [i \in 1..DefaultBufferSize |-> Junk]
    /\ CurrentPos = 0 /\ DataLength = HeaderSize
    /\ rpc = "idle"
    /\ got = <<>>

Send == Sender /\ UNCHANGED <<receiveState, rpc, got>>

-----------------------------------------------------------------------------
(* The receiver.                                                           *)

PrepareForHeader ==
    /\ DataLength' = HeaderSize
    /\ CurrentPos' = 0
    /\ UNCHANGED buffer

\* GetObject, ReceiveAsync: after one message the next.
BeginReceive ==
    /\ rpc = "idle"
    /\ PrepareForHeader
    /\ rpc' = "header"
    /\ UNCHANGED <<senderVars, wire, closed, got>>

\* The next bytes of the stream, where ReadAsync puts them.
Received(n) == [i \in 1..Len(buffer) |->
    IF i \in CurrentPos + 1 .. CurrentPos + n THEN wire[i - CurrentPos] ELSE buffer[i]]

\* Mutant: the end of a message is not looked for.
ReadBeyond(n) ==
    /\ rpc \in {"header", "body"} /\ DataLength > 0
    /\ n \in 1..Smaller(Len(buffer) - CurrentPos, Len(wire))
    /\ buffer' = Received(n)
    /\ wire' = SubSeq(wire, n + 1, Len(wire))
    /\ CurrentPos' = CurrentPos + n
    /\ DataLength' = IF n >= DataLength THEN 0 ELSE DataLength - n
    /\ UNCHANGED <<senderVars, closed, rpc, got>>

\* ReadAsync returned n bytes: the setter of TransferedBytes moves both counts.
Read(n) ==
    /\ rpc \in {"header", "body"} /\ DataLength > 0
    /\ n \in 1..Smaller(DataLength, Len(wire))
    /\ buffer' = Received(n)
    /\ wire' = SubSeq(wire, n + 1, Len(wire))
    /\ CurrentPos' = CurrentPos + n
    /\ DataLength' = DataLength - n
    /\ UNCHANGED <<senderVars, closed, rpc, got>>

\* ReadAsync returned 0, or it threw, or the five minutes passed first: GetObject
\* returns null, and whoever called it gives the channel up.
ReadEnds ==
    /\ rpc \in {"header", "body"} /\ DataLength > 0
    /\ closed /\ wire = <<>>
    /\ rpc' = "ended"
    /\ UNCHANGED <<senderVars, wire, closed, receiveState, got>>

ReadTimesOut ==
    /\ rpc \in {"header", "body"} /\ DataLength > 0
    /\ rpc' = "ended"
    /\ UNCHANGED <<senderVars, wire, closed, receiveState, got>>

\* Mutant: AdjustBuffer does not count the header that is in the buffer.
PrepareForBodyWithoutHeader(n) ==
    /\ buffer' = AdjustBuffer(buffer, 0, n)
    /\ DataLength' = n
    /\ UNCHANGED CurrentPos

\* Mutant: the length is taken to count the prefix as well.
PrepareForWholeFrame(n) ==
    /\ buffer' = AdjustBuffer(buffer, CurrentPos, HeaderSize + n)
    /\ DataLength' = HeaderSize + n
    /\ UNCHANGED CurrentPos

PrepareForBody(n) ==
    /\ buffer' = AdjustBuffer(buffer, CurrentPos, n)
    /\ DataLength' = n
    /\ UNCHANGED CurrentPos

\* ReceiveAsyncCore is done with the header.  Bytes that are no length prefix
\* make some length: the receiver has lost its place in the stream.
HeaderReceived ==
    /\ rpc = "header" /\ DataLength = 0
    /\ IF HeaderOf(buffer) = 0
       THEN rpc' = "garbled" /\ UNCHANGED receiveState
       ELSE rpc' = "body" /\ PrepareForBody(sent[HeaderOf(buffer)])
    /\ UNCHANGED <<senderVars, wire, closed, got>>

\* The object whose body is behind the header.
BodyOf(buf) == BodyAt(buf, HeaderSize)

\* Mutant: what is left of an older message is taken for this one.
DeserializeEarly ==
    /\ rpc = "body" /\ Len(buffer) > HeaderSize
    /\ rpc' = IF BodyOf(buffer) = 0 THEN rpc ELSE "idle"
    /\ got' = IF BodyOf(buffer) = 0 THEN got ELSE Append(got, BodyOf(buffer))
    /\ UNCHANGED <<senderVars, wire, closed, receiveState>>

\* Serializer.GetObject on the buffer, at offset 4.
Deserialize ==
    /\ rpc = "body" /\ DataLength = 0
    /\ rpc' = IF BodyOf(buffer) = 0 THEN "garbled" ELSE "idle"
    /\ got' = IF BodyOf(buffer) = 0 THEN got ELSE Append(got, BodyOf(buffer))
    /\ UNCHANGED <<senderVars, wire, closed, receiveState>>

Receiver ==
    \/ BeginReceive \/ HeaderReceived \/ Deserialize \/ ReadEnds
    \/ \E n \in 1..(HeaderSize + MaxBody) : Read(n)

Next == Send \/ Receiver \/ ReadTimesOut

Spec == Init /\ [][Next]_vars

\* The kernel takes bytes while the connection lives, and the thread pool runs
\* the receiver; nothing says that a connection ends or that anyone sends.
Writes == (\E n \in 1..(HeaderSize + MaxBody) : Write(n)) /\ UNCHANGED <<receiveState, rpc, got>>
FairSpec == Spec /\ WF_vars(Writes) /\ WF_vars(Receiver)

-----------------------------------------------------------------------------
\* The values of the variables; the read position stays within the buffer.
TypeOK ==
    /\ WireTypeOK
    /\ buffer \in Seq(Bytes)
    /\ CurrentPos \in 0..Len(buffer)
    /\ DataLength \in 0..(HeaderSize + MaxBody)
    /\ rpc \in ReceiverStates
    /\ got \in Seq(1..MaxSent)

\* Every read fits: the buffer holds what is received and what is missing.
\* (ReadAsync throws otherwise, on a message the server should have accepted.)
ReadFits == rpc \in {"header", "body"} => CurrentPos + DataLength <= Len(buffer)

\* The receiver never takes other bytes for a length prefix or for a body.
InSync == rpc # "garbled"

\* Between two messages the stream goes on with the next message's first byte.
Aligned == rpc = "idle" /\ wire # <<>> => wire[1] = <<Len(got) + 1, 0>>

\* A receiver that waits for bytes, when none are in the stream and none are still to be
\* written, has returned every object that was sent: it does not take the end of a
\* message for the middle of one.
NothingAwaited ==
    /\ rpc \in {"header", "body"} /\ DataLength > 0
    /\ ~closed /\ wire = <<>> /\ sendPos = sendLen
    => Len(got) = Len(sent)

\* The channel implements the queue of objects.
Channel == INSTANCE Fifo WITH
    Objects <- 1..MaxSent, sent <- [k \in 1..Len(sent) |-> k]
DeliversInOrder == Channel!Spec

\* What is sent is received, if the connection lives.
Delivered == \A k \in 1..MaxSent :
    Len(sent) >= k ~> Len(got) >= k \/ closed \/ rpc = "ended"

=============================================================================
