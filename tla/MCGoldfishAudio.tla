-------------------------- MODULE MCGoldfishAudio --------------------------
(* Buffers of up to three frames, so that a callback may take part of one, *)
(* one and part of the other, or both, and a recording comes in pieces.    *)
EXTENDS GoldfishAudio
=============================================================================
