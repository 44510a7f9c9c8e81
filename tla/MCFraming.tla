------------------------------ MODULE MCFraming ------------------------------
(***************************************************************************)
(* Framing with a prefix of two bytes and buffers that must grow.          *)
(***************************************************************************)
EXTENDS Framing
=============================================================================
