----------------------------- MODULE MCCrossNode -----------------------------
EXTENDS CrossNode
CONSTANTS a, b, b2, ida, idb, n1, n2
IdsDef == [c \in Conns |-> IF c = a THEN ida ELSE idb]
HomeDef == [c \in Conns |-> IF c = a THEN n1 ELSE n2]
HomeMoved == [c \in Conns |-> IF c = b THEN n2 ELSE n1]
Once == [c \in Conns |-> 1]
Reconnect == [c \in Conns |-> IF c = b2 THEN {b} ELSE {}]
=============================================================================
