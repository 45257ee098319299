--------------------------- MODULE MCGattServer ---------------------------
(* A small instance of GattServer: a buffer of three, pieces that fit,     *)
(* that end behind it, that begin behind it and that are empty.            *)
EXTENDS GattServer

MCOffsets == 0..4
MCPieces == {<<>>, <<"a">>, <<"b", "a">>}
=============================================================================
