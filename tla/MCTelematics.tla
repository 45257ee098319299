--------------------------- MODULE MCTelematics ---------------------------
(* A small instance of Telematics: one connection, reconnecting is left to *)
(* the instances of CommTask.                                              *)
EXTENDS Telematics

OneFd == {1}
=============================================================================
