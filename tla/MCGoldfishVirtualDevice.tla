---------------------- MODULE MCGoldfishVirtualDevice ----------------------
(* Three commands of up to three bytes are cut by send() in every way; two *)
(* deaths of the renderer can fall into one command, or one into each of   *)
(* two.                                                                    *)
EXTENDS GoldfishVirtualDevice
=============================================================================
