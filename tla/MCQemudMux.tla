----------------------------- MODULE MCQemudMux -----------------------------
(* Four connections over two channel ids to a service that closes its      *)
(* clients and admits one at a time, and to one that does neither.         *)
EXTENDS QemudMux

MCMaxClients == [s \in Services |-> IF s \in {"boot"} THEN 1 ELSE 0]

=============================================================================
