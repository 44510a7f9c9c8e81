---------------------------- MODULE MCASyncServer ----------------------------
(***************************************************************************)
(* ASyncServer on small sets of clients.  Clients are interchangeable: the *)
(* safety runs reduce the states by symmetry, and the liveness properties  *)
(* are checked of one client, in whatever the others do.                   *)
(***************************************************************************)
EXTENDS ASyncServer, TLC

ConnSymmetry == Permutations(Conns)

Watched == CHOOSE c \in Conns : TRUE

\* A request whose handler runs is answered, or its client sees the connection end.
RequestResolved == ResolvesRequest(Watched)

\* The channel of a client that hung up is closed by its handler or the timer.
HangupReclaimed == ReclaimsHangup(Watched)

\* A queued client is accepted, if accepted clients hang up in the end.
QueuedClientAccepted == AcceptsQueued(Watched)

=============================================================================
