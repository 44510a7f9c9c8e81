---------------------------- MODULE MCSyncFraming ----------------------------
(***************************************************************************)
(* SyncFraming for TLC.                                                    *)
(***************************************************************************)
EXTENDS SyncFraming
=============================================================================
