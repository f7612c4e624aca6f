------------------------------ MODULE MCSession ------------------------------
EXTENDS Session
CONSTANTS a, b1, b2, ida, idb, x
IdsDef == [c \in Conns |-> IF c = a THEN ida ELSE idb]
Reconnect == [c \in Conns |-> IF c = b2 THEN {b1} ELSE {}]

\* a may call a second time, as long as b has not lost its first connection:
\* a second call and a reconnection are not run together.
Calls == [c \in Conns |-> IF c = a THEN 2 ELSE 1]
OneStory == joins[a] = 2 => phase[b1] # "closed"
=============================================================================
