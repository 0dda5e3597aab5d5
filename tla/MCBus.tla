-------------------------------- MODULE MCBus --------------------------------
(* Two buffers to a frame: the second waits for the first one's transfer.    *)
EXTENDS BusProps
=============================================================================
