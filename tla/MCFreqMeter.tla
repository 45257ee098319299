---------------------------- MODULE MCFreqMeter ----------------------------
(* A small instance of FreqMeter. *)
EXTENDS FreqMeter
=============================================================================
