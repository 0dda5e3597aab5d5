-------------------------------- MODULE MCWifi --------------------------------
(* Two networks with a weak and a strong signal each, one retry, three       *)
(* changes on the air.                                                       *)
EXTENDS WifiProps
=============================================================================
