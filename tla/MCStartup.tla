------------------------------ MODULE MCStartup ------------------------------
(* Startup for TLC: the sleeps of the code, and delays around their margins. *)
EXTENDS Startup
MCBoots == {0, 21892, 35000}
MCSkews == {0, 3000}
MCDelays == {0, 1800, 3000}
=============================================================================
