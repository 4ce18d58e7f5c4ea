--------------------------- MODULE MCWifiManager ---------------------------
(* Small instances of WifiManager; each cfg gives the constants.           *)
EXTENDS WifiManager
=============================================================================
