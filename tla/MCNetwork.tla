----------------------------- MODULE MCNetwork -----------------------------
(***************************************************************************)
(* Two sessions, one of them interactive, a card of two pages, and guest   *)
(* traffic that repeats and ends a connection attempt while it is held,    *)
(* overtakes one, and asks for addresses.                                  *)
(***************************************************************************)
EXTENDS Network

P(kind, conn) == [kind |-> kind, conn |-> conn]

Plan(traffic, a, b, changes) ==
    [up |-> traffic, settings |-> changes,
     makes |-> [so \in Sessions |-> IF so \in LowDelay THEN a ELSE b]]

MCPlans == {Plan(<<P("SYN", 1), P("SYN", 1), P("FIN", 1)>>, 0, 0, 1),
            Plan(<<P("SYN", 1), P("SYN", 2), P("LOCAL", 2)>>, 0, 0, 1),
            Plan(<<P("ARP", 1), P("DATA", 1)>>, 1, 1, 1),
            Plan(<<P("DATA", 1), P("ARP", 1)>>, 2, 1, 0),
            Plan(<<P("DATA", 1)>>, 4, 1, 0)}

MCPages == {0, 1}
MCLatencies == {1, 2}
=============================================================================
