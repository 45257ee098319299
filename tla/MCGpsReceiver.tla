--------------------------- MODULE MCGpsReceiver ---------------------------
(* Small instances of GpsReceiver. *)
EXTENDS GpsReceiver
=============================================================================
