--------------------------- MODULE MCWifiStation ---------------------------
(* Small instances of WifiStation: two networks. *)
EXTENDS WifiStation

TwoNetworks == {"home", "other"}
=============================================================================
