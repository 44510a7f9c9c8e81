------------------------------- MODULE MCUpload -------------------------------
(***************************************************************************)
(* Upload for TLC.                                                         *)
(***************************************************************************)
EXTENDS Upload
=============================================================================
