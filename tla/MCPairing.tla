----------------------------- MODULE MCPairing -----------------------------
(* Small instances of Pairing: a connection that asks twice under one code,  *)
(* one that asks once under it, and a third call under another code.         *)
EXTENDS Pairing

CONSTANTS x, y, x1, x2, x3, y1, y2

\* x: x1, x2 under "p", x3 under "q"; y: y1 under "p", y2 under "q".
MCCaller == [k \in Calls |-> IF k \in {x1, x2, x3} THEN x ELSE y]
MCCode == [k \in Calls |-> IF k \in {x3, y2} THEN "q" ELSE "p"]
=============================================================================
