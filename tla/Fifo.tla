-------------------------------- MODULE Fifo --------------------------------
(***************************************************************************)
(* What one direction of a channel promises: the objects given to          *)
(* SendObjectAsync come out of GetObject in the order they were sent, each *)
(* once and whole.  The connection may end early: got is then a prefix.    *)
(***************************************************************************)
EXTENDS Naturals, Sequences

CONSTANT Objects
VARIABLES
    sent,   \* objects given to the sender
    got     \* objects returned to the receiver

Init == sent = <<>> /\ got = <<>>

Send == \E o \in Objects : sent' = Append(sent, o) /\ got' = got

Get ==
    /\ Len(got) < Len(sent)
    /\ got' = Append(got, sent[Len(got) + 1])
    /\ sent' = sent

Spec == Init /\ [][Send \/ Get]_<<sent, got>>

=============================================================================
