----------------------------- MODULE MCCBuffer -----------------------------
(* An array of three bytes with two byte values, and calls of up to four    *)
(* bytes: longer than the array, so that full, wrapped and short calls all *)
(* happen from every read position.                                        *)
EXTENDS CBuffer
=============================================================================
