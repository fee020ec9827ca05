---------------------------- MODULE MCSerialLine ----------------------------
(* A tty of two bytes, buffers of two and writes of up to three, so that a *)
(* write may have a direct part and need several buffers.                  *)
EXTENDS SerialLine
=============================================================================
