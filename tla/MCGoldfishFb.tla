---------------------------- MODULE MCGoldfishFb ---------------------------
(* Two buffers of two lines, where the second page holds parts of both     *)
(* lines.                                                                  *)
EXTENDS GoldfishFb
MCPagesOf == [l \in {1, 2} |-> IF l = 1 THEN {1, 2} ELSE {2}]
=============================================================================
