-------------------------- MODULE MCGoldfishTimer --------------------------
(* Words of four values: the clock carries once into the high word, and    *)
(* alarms lie before, at and beyond the carry and the clock's bound.  The  *)
(* high words 2 and 3 are negative.                                        *)
EXTENDS GoldfishTimer
=============================================================================
