--------------------------- MODULE MCRedisPairing ---------------------------
(* Small instances of RedisPairing: connections x, y and z with one call     *)
(* each, under one code.                                                     *)
EXTENDS RedisPairing, TLC

CONSTANTS x, y, z, x1, y1, z1, s1, s2

MCCaller == x1 :> x @@ y1 :> y @@ z1 :> z
OneCode == [k \in Calls |-> "p"]

\* Two connections to server s1 and one to s2.
Apart == x :> s1 @@ y :> s1 @@ z :> s2

\* Connections to the same server are alike, and so are their calls.
Alike ==
  {p @@ [k \in Calls |-> CHOOSE j \in Calls : MCCaller[j] = p[MCCaller[k]]] :
     p \in {q \in Permutations(Conns) : \A c \in Conns : Apart[q[c]] = Apart[c]}}
=============================================================================
