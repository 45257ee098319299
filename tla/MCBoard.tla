------------------------------ MODULE MCBoard ------------------------------
(* A small instance of Board: two declared pins, one other, and one of the *)
(* numbers that have no bit.                                               *)
EXTENDS Board

SomePorts == {0, 3, 6, 8}
SomeDeclared == {0, 3}

(* the decoding of a reading, for every reading *)
ASSUME DecodeChecked == \A w \in Accel!Word : Accel!Decode(w) = Accel!TwosComplement(w)
=============================================================================
