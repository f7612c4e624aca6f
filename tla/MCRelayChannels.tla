--------------------------- MODULE MCRelayChannels ---------------------------
(* Small instances of RelayChannels: client "a" with two connections (it     *)
(* reconnects) and client "b" with one.                                      *)
EXTENDS RelayChannels

CONSTANTS a1, a2, b1, a, b

MCIdOf == [c \in Conns |-> IF c = b1 THEN b ELSE a]

\* How often each connection joins.
Once == [c \in Conns |-> 1]
Twice == [c \in Conns |-> 2]
TwiceA == [c \in Conns |-> IF c = a1 THEN 2 ELSE 1]
=============================================================================
