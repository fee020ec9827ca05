--------------------------- MODULE MCQemudReceive ---------------------------
(* Packet and frame headers of two bytes, payloads of up to four in a      *)
(* packet: a frame may span packets and a packet may hold parts of two     *)
(* frames, and each is cut anywhere.                                       *)
EXTENDS QemudReceive
=============================================================================
