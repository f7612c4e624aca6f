-------------------------- MODULE RedisPairingProofs --------------------------
(***************************************************************************)
(* For any number of servers, connections, codes and calls, whatever fails *)
(* or is lost and whichever servers stop: Redis hands the data of a call   *)
(* out once, an initiator has a match, a connection that is gone leaves    *)
(* no entry, and a lone request is not lost.                               *)
(***************************************************************************)
EXTENDS RedisPairing, TLAPS

-----------------------------------------------------------------------------
(* The inductive invariant                                                  *)

\* A goroutine that has matched its call and has not finished with it.
Working == {"deleting", "taken", "dropping", "matched", "halfway"}
Works(c, i, k) ==
  /\ handler[c].at \in Working
  /\ handler[c].responder = i /\ handler[c].initiator = k

ToStore(k) == \E c \in Conns : handler[c].at = "storing" /\ handler[c].call = k

\* A goroutine handles a call of its own connection, and matches it with an
\* earlier one; with one of its own server if it found that in the local table.
Owned ==
  \A c \in Conns :
    /\ handler[c].at = "storing" =>
         Caller[handler[c].call] = c /\ handler[c].call \in sent
    /\ handler[c].at \in Working =>
         /\ Caller[handler[c].responder] = c
         /\ handler[c].responder \in sent /\ handler[c].initiator \in sent
         /\ handler[c].initiator # handler[c].responder
         /\ Code[handler[c].initiator] = Code[handler[c].responder]
    /\ handler[c].at = "deleting" => Home(handler[c].initiator) = Node[c]

\* What is stored was sent before, and is under its own code.
Stored ==
  /\ Waiting \subseteq sent
  /\ \A p \in PairingIds :
       redis[p] # NoCall => redis[p] \in sent /\ Code[redis[p]] = p

\* i got the data of k from Redis: it is being introduced to k, or was.
Took(i, k) ==
  /\ Home(i) # Home(k)
  /\ (\E c \in Conns : Works(c, i, k)) \/ Matched("responder", k) \in told[i]

\* One call gets the data of k; while k has yet to store it, or it is in
\* Redis, none has.
HandOut ==
  \A k \in Calls :
    /\ \A i, j \in Calls : Took(i, k) /\ Took(j, k) => i = j
    /\ (\E i \in Calls : Took(i, k)) =>
         k \in sent /\ redis[Code[k]] # k /\ ~ToStore(k)
    /\ redis[Code[k]] = k => ~ToStore(k)

\* The partner of an initiator.
Partnered(j) ==
  \/ \E i \in Calls : Matched("responder", i) \in told[j]
  \/ handler[Caller[j]].at = "halfway" /\ handler[Caller[j]].responder = j
  \/ Home(j) \in stopped

\* What is told an initiator, or is on its way to one, names such a partner.
Announced ==
  /\ \A n \in Nodes : \A i \in DOMAIN wire[n] : Partnered(wire[n][i].with)
  /\ \A j, k \in Calls : Matched("initiator", j) \in told[k] => Partnered(j)

\* Between the two halves of a local match the initiator knows.
HalfTold ==
  \A c \in Conns :
    handler[c].at = "halfway" /\ Home(handler[c].initiator) = Node[c]
      => told[handler[c].initiator] # {}

\* Another call under the code of k on the server of k.
Twin(k) == \E j \in Calls \ {k} : Home(j) = Home(k) /\ Code[j] = Code[k]

\* Whatever k's own goroutine is about to do at Redis, k is also in a table of
\* its server or in the hands of a goroutine there.
Kept(k) ==
  \/ k \in Waiting
  \/ k \in expiring[Home(k)]
  \/ \E c \in Conns :
       /\ handler[c].at \in Working
       /\ \/ handler[c].responder = k
          \/ handler[c].initiator = k /\ Home(k) = Node[c]

NotLost ==
  \A k \in sent :
    \/ told[k] # {} \/ handler[Caller[k]].at \in {"clearing", "closed"}
    \/ Kept(k) \/ Twin(k)

RInv ==
  /\ TypeOK /\ Owned /\ Stored /\ HandOut /\ Announced /\ HalfTold
  /\ ClosedLeavesNoEntry /\ NotLost

-----------------------------------------------------------------------------
(* Types                                                                    *)

LEMMA Constants ==
  /\ \A k \in Calls : Caller[k] \in Conns /\ Home(k) \in Nodes /\ Code[k] \in PairingIds
                      /\ k # NoCall /\ Home(k) = Node[Caller[k]]
  /\ \A c \in Conns : Node[c] \in Nodes
BY RedisAssumption DEF Home

\* An entry is where it belongs.
LEMMA WaitingIs ==
  ASSUME TypeOK, NEW k
  PROVE  k \in Waiting <=> k \in Calls /\ local[Home(k)][Code[k]] = k
BY Constants DEF TypeOK, Waiting

\* The fields each place of a goroutine has.
LEMMA Fields ==
  ASSUME handler \in [Conns -> Handler], NEW c \in Conns
  PROVE  /\ handler[c].at = "storing" => handler[c].call \in Calls
         /\ handler[c].at = "clearing" => handler[c].codes \in SUBSET PairingIds
         /\ handler[c].at \in Working =>
              /\ handler[c].initiator \in Calls /\ handler[c].responder \in Calls
              /\ handler[c] = [at |-> handler[c].at, initiator |-> handler[c].initiator,
                               responder |-> handler[c].responder]
              /\ \A loc : [handler[c] EXCEPT !.at = loc] =
                            [at |-> loc, initiator |-> handler[c].initiator,
                             responder |-> handler[c].responder]
<1> DEFINE h == handler[c]
<1>1. h \in Handler
  OBVIOUS
<1>2. CASE h \in [at : {"reading", "closing", "closed"}]
  BY <1>2 DEF Working
<1>3. CASE h \in [at : {"storing"}, call : Calls]
  BY <1>3 DEF Working
<1>4. CASE h \in [at : {"deleting", "taken", "dropping", "matched", "halfway"},
                  initiator : Calls, responder : Calls]
  BY <1>4 DEF Working
<1>5. CASE h \in [at : {"clearing"}, codes : SUBSET PairingIds]
  BY <1>5 DEF Working
<1> QED BY <1>1, <1>2, <1>3, <1>4, <1>5 DEF Handler

\* Where a goroutine may go.
LEMMA Places ==
  /\ \A loc \in {"reading", "closing", "closed"} : At(loc) \in Handler /\ At(loc).at = loc
  /\ \A k \in Calls : [at |-> "storing", call |-> k] \in Handler
  /\ \A loc \in Working, i, j \in Calls :
       [at |-> loc, initiator |-> i, responder |-> j] \in Handler
  /\ \A codes \in SUBSET PairingIds : [at |-> "clearing", codes |-> codes] \in Handler
BY DEF Handler, At, Working

\* Sequences of messages.
LEMMA Queues ==
  ASSUME NEW M, NEW s \in Seq(M)
  PROVE  /\ \A m \in M : Append(s, m) \in Seq(M)
         /\ s # <<>> => Tail(s) \in Seq(M) /\ Head(s) \in M
         /\ <<>> \in Seq(M)
         /\ \A i \in DOMAIN s : s[i] \in M
         /\ s # <<>> => \E i \in DOMAIN s : Head(s) = s[i]
         /\ s # <<>> => \A i \in DOMAIN Tail(s) : \E j \in DOMAIN s : Tail(s)[i] = s[j]
         /\ \A m \in M : \A i \in DOMAIN Append(s, m) :
              Append(s, m)[i] = m \/ \E j \in DOMAIN s : Append(s, m)[i] = s[j]
OBVIOUS

\* A goroutine goes from one place to another, and a server stops.
LEMMA HandlerStep ==
  ASSUME TypeOK, [Next]_vars
  PROVE  handler' \in [Conns -> Handler]
<1> USE Fields, Places DEF TypeOK
<1>1. ASSUME NEW k \in Calls, MatchLocal(k) \/ StoreLocal(k)
      PROVE  handler' \in [Conns -> Handler]
  <2>1. local[Home(k)][Code[k]] \in Calls \cup {NoCall}
    BY Constants
  <2>2. CASE MatchLocal(k)
    <3>1. [at |-> "deleting", initiator |-> local[Home(k)][Code[k]], responder |-> k]
            \in Handler
      BY <2>1, <2>2 DEF MatchLocal, Working
    <3> QED BY <2>2, <3>1 DEF MatchLocal, Goto
  <2>3. CASE StoreLocal(k)
    <3>1. [at |-> "storing", call |-> k] \in Handler
      OBVIOUS
    <3> QED BY <2>3, <3>1 DEF StoreLocal, Goto
  <2> QED BY <1>1, <2>2, <2>3
<1>2. ASSUME NEW c \in Conns, SetGet(c) \/ SetGetFails(c)
      PROVE  handler' \in [Conns -> Handler]
  <2>1. handler[c].call \in Calls /\ redis[Code[handler[c].call]] \in Calls \cup {NoCall}
    BY <1>2, Constants DEF SetGet, SetGetFails
  <2>2. ASSUME NEW j \in Calls
        PROVE  [at |-> "taken", initiator |-> j, responder |-> handler[c].call] \in Handler
    BY <2>1 DEF Working
  <2>3. At("reading") \in Handler
    OBVIOUS
  <2> QED BY <1>2, <2>1, <2>2, <2>3 DEF SetGet, SetGetFails, Goto
<1>3. ASSUME NEW c \in Conns,
             Del(c) \/ DropLocal(c) \/ SendInitiator(c) \/ SendResponder(c)
      PROVE  handler' \in [Conns -> Handler]
  <2>1. handler[c].at \in Working /\ handler[c].initiator \in Calls
        /\ handler[c].responder \in Calls
    BY <1>3 DEF Del, DropLocal, SendInitiator, SendResponder, Working
  <2>2. \A loc \in Working : [handler[c] EXCEPT !.at = loc] \in Handler
    BY <2>1
  <2>3. \/ \E loc \in Working : handler' = [handler EXCEPT ![c] = [handler[c] EXCEPT !.at = loc]]
        \/ handler' = [handler EXCEPT ![c] = At("reading")]
    BY <1>3 DEF Del, DropLocal, SendInitiator, SendResponder, Goto, Working
  <2> QED BY <2>2, <2>3
<1>4. ASSUME NEW c \in Conns, CloseConn(c) \/ RemovePairingsByConn(c) \/ ClearKeys(c)
      PROVE  handler' \in [Conns -> Handler]
  <2>1. CodesOf(c) \in SUBSET PairingIds
    BY DEF CodesOf
  <2>2. /\ At("closing") \in Handler /\ At("closed") \in Handler
        /\ [at |-> "clearing", codes |-> CodesOf(c)] \in Handler
    BY <2>1
  <2> QED BY <1>4, <2>2 DEF CloseConn, RemovePairingsByConn, ClearKeys, Goto
<1>5. ASSUME NEW n \in Nodes, Stop(n) PROVE handler' \in [Conns -> Handler]
  BY <1>5 DEF Stop
<1>6. CASE UNCHANGED handler
  BY <1>6
<1> QED
  BY <1>1, <1>2, <1>3, <1>4, <1>5, <1>6
  DEF Next, vars, PairRefused, Age, RemotePairMatched, Lose, CleanupPairings,
      SendExpired, KeyExpires

\* Entries stay where they belong, and only what waits is overdue.
LEMMA LocalStep ==
  ASSUME TypeOK, [Next]_vars
  PROVE  /\ local' \in [Nodes -> [PairingIds -> Calls \cup {NoCall}]]
         /\ \A n \in Nodes, p \in PairingIds :
              local'[n][p] # NoCall => Home(local'[n][p]) = n /\ Code[local'[n][p]] = p
         /\ overdue' \subseteq Waiting'
<1> DEFINE Goal ==
      /\ local' \in [Nodes -> [PairingIds -> Calls \cup {NoCall}]]
      /\ \A n \in Nodes, p \in PairingIds :
           local'[n][p] # NoCall => Home(local'[n][p]) = n /\ Code[local'[n][p]] = p
      /\ overdue' \subseteq Waiting'
<1>0. overdue \subseteq Waiting
  BY DEF TypeOK
\* One entry goes; it is overdue no more.
<1>1. ASSUME NEW n \in Nodes, NEW p \in PairingIds, SetLocal(n, p, NoCall),
             overdue' \subseteq overdue \ {local[n][p]}
      PROVE  Goal
  <2>1. \A m \in Nodes, q \in PairingIds :
          local'[m][q] = IF m = n /\ q = p THEN NoCall ELSE local[m][q]
    BY <1>1 DEF SetLocal, TypeOK
  <2>2. Waiting \ {local[n][p]} \subseteq Waiting'
    BY <2>1 DEF Waiting
  <2>3. local' \in [Nodes -> [PairingIds -> Calls \cup {NoCall}]]
    BY <1>1 DEF SetLocal, TypeOK
  <2> QED BY <1>0, <1>1, <2>1, <2>2, <2>3 DEF TypeOK
<1>2. ASSUME NEW k \in Calls, MatchLocal(k) PROVE Goal
  BY <1>1, <1>2, Constants DEF MatchLocal
<1>3. ASSUME NEW k \in Calls, StoreLocal(k) PROVE Goal
  <2>1. \A m \in Nodes, q \in PairingIds :
          local'[m][q] = IF m = Home(k) /\ q = Code[k] THEN k ELSE local[m][q]
    BY <1>3, Constants DEF StoreLocal, SetLocal, TypeOK
  <2>2. Waiting \subseteq Waiting'
    BY <1>3, <2>1 DEF Waiting, StoreLocal
  <2>3. local' \in [Nodes -> [PairingIds -> Calls \cup {NoCall}]]
    BY <1>3 DEF StoreLocal, SetLocal, TypeOK
  <2> QED BY <1>0, <1>3, <2>1, <2>2, <2>3, Constants DEF TypeOK, StoreLocal
<1>4. ASSUME NEW c \in Conns, DropLocal(c) PROVE Goal
  <2>1. handler[c].responder \in Calls
    BY <1>4, Fields DEF DropLocal, Working, TypeOK
  <2> QED BY <1>1, <1>4, <2>1, Constants DEF DropLocal
<1>5. ASSUME NEW n \in Nodes, RemotePairMatched(n) PROVE Goal
  <2>1. Head(wire[n]).code \in PairingIds
    <3>1. wire[n] \in Seq([code : PairingIds, with : Calls]) /\ wire[n] # <<>>
      BY <1>5 DEF RemotePairMatched, TypeOK
    <3>2. Head(wire[n]) \in [code : PairingIds, with : Calls]
      BY <3>1, Queues
    <3> QED BY <3>2
  <2>2. CASE local[n][Head(wire[n]).code] = NoCall
    <3>1. UNCHANGED <<local, overdue>>
      BY <1>5, <2>2 DEF RemotePairMatched
    <3> QED BY <3>1, <1>0 DEF TypeOK, Waiting
  <2>3. CASE local[n][Head(wire[n]).code] # NoCall
    <3>1. SetLocal(n, Head(wire[n]).code, NoCall)
          /\ overdue' = overdue \ {local[n][Head(wire[n]).code]}
      BY <1>5, <2>3 DEF RemotePairMatched
    <3> QED BY <1>1, <2>1, <3>1
  <2> QED BY <2>2, <2>3
\* Several entries of one server go.
<1>6. ASSUME NEW n \in Nodes, NEW P \in SUBSET PairingIds,
             local' = [local EXCEPT ![n] = [p \in PairingIds |->
                         IF p \in P THEN NoCall ELSE local[n][p]]],
             overdue' \subseteq overdue \ {local[n][p] : p \in P}
      PROVE  Goal
  <2>1. \A m \in Nodes, q \in PairingIds :
          local'[m][q] = IF m = n /\ q \in P THEN NoCall ELSE local[m][q]
    BY <1>6 DEF TypeOK
  <2>2. ASSUME NEW k \in overdue' PROVE k \in Waiting'
    <3>1. PICK m \in Nodes, q \in PairingIds : k = local[m][q] /\ k # NoCall
      BY <1>0, <1>6, <2>2 DEF Waiting
    <3>2. ~(m = n /\ q \in P)
      BY <1>6, <2>2, <3>1
    <3> QED BY <2>1, <3>1, <3>2 DEF Waiting
  <2>3. local' \in [Nodes -> [PairingIds -> Calls \cup {NoCall}]]
    BY <1>6 DEF TypeOK
  <2> QED BY <2>1, <2>2, <2>3 DEF TypeOK
<1>7. ASSUME NEW c \in Conns, RemovePairingsByConn(c) PROVE Goal
  <2>1. CodesOf(c) \in SUBSET PairingIds /\ Node[c] \in Nodes
    BY Constants DEF CodesOf
  <2>2. /\ local' = [local EXCEPT ![Node[c]] = [p \in PairingIds |->
                       IF p \in CodesOf(c) THEN NoCall ELSE local[Node[c]][p]]]
        /\ overdue' = overdue \ {local[Node[c]][p] : p \in CodesOf(c)}
    BY <1>7, <2>1 DEF RemovePairingsByConn, TypeOK
  <2> QED BY <1>6, <2>1, <2>2
<1>8. ASSUME NEW n \in Nodes, CleanupPairings(n) PROVE Goal
  <2> DEFINE late == {local[n][p] : p \in PairingIds} \cap overdue
             P == {p \in PairingIds : local[n][p] \in late}
  <2>1. /\ local' = [local EXCEPT ![n] = [p \in PairingIds |->
                       IF local[n][p] \in late THEN NoCall ELSE local[n][p]]]
        /\ overdue' = overdue \ late
    BY <1>8 DEF CleanupPairings, TypeOK
  <2>2. local' = [local EXCEPT ![n] = [p \in PairingIds |->
                    IF p \in P THEN NoCall ELSE local[n][p]]]
    BY <2>1
  <2>3. {local[n][p] : p \in P} \subseteq late /\ late \subseteq {local[n][p] : p \in P}
    OBVIOUS
  <2>4. P \in SUBSET PairingIds /\ overdue' \subseteq overdue \ {local[n][p] : p \in P}
    BY <2>1, <2>3
  <2> HIDE DEF P, late
  <2> QED BY <1>6, <2>2, <2>4
<1>9. ASSUME NEW n \in Nodes, Stop(n) PROVE Goal
  <2>1. /\ local' = [local EXCEPT ![n] = [p \in PairingIds |->
                       IF p \in PairingIds THEN NoCall ELSE local[n][p]]]
        /\ overdue' = {k \in overdue : Home(k) # n}
    BY <1>9 DEF Stop
  <2>2. overdue' \subseteq overdue \ {local[n][p] : p \in PairingIds}
    BY <1>0, <2>1, WaitingIs, Constants DEF TypeOK, Waiting
  <2> QED BY <1>6, <2>1, <2>2
<1>10. ASSUME NEW k \in Calls, Age(k) PROVE Goal
  BY <1>0, <1>10 DEF Age, Waiting, TypeOK
<1>11. CASE UNCHANGED <<local, overdue>>
  BY <1>0, <1>11 DEF TypeOK, Waiting
<1> QED
  BY <1>2, <1>3, <1>4, <1>5, <1>7, <1>8, <1>9, <1>10, <1>11
  DEF Next, vars, PairRefused, SetGet, SetGetFails, Del, SendInitiator,
      SendResponder, CloseConn, ClearKeys, Lose, SendExpired, KeyExpires

LEMMA TypeStep == TypeOK /\ [Next]_vars => TypeOK'
<1> SUFFICES ASSUME TypeOK, [Next]_vars PROVE TypeOK'
  OBVIOUS
<1> USE DEF TypeOK
<1>1. redis' \in [PairingIds -> Calls \cup {NoCall}]
  <2>1. ASSUME NEW c \in Conns, SetGet(c) \/ SetGetFails(c)
        PROVE  redis' \in [PairingIds -> Calls \cup {NoCall}]
    BY <2>1, Fields DEF SetGet, SetGetFails
  <2>2. ASSUME NEW c \in Conns, Del(c) \/ ClearKeys(c)
        PROVE  redis' \in [PairingIds -> Calls \cup {NoCall}]
    BY <2>2 DEF Del, ClearKeys
  <2>3. ASSUME NEW p \in PairingIds, KeyExpires(p)
        PROVE  redis' \in [PairingIds -> Calls \cup {NoCall}]
    BY <2>3 DEF KeyExpires
  <2> QED
    BY <2>1, <2>2, <2>3
    DEF Next, vars, PairRefused, MatchLocal, StoreLocal, Age, DropLocal,
        SendInitiator, SendResponder, CloseConn, RemovePairingsByConn,
        RemotePairMatched, Lose, CleanupPairings, Stop, SendExpired
<1>2. wire' \in [Nodes -> Seq([code : PairingIds, with : Calls])]
  <2>1. ASSUME NEW c \in Conns, SendInitiator(c)
        PROVE  wire' \in [Nodes -> Seq([code : PairingIds, with : Calls])]
    <3>1. handler[c].responder \in Calls
      BY <2>1, Fields DEF SendInitiator, Working
    <3> DEFINE M == [code : PairingIds, with : Calls]
               msg == [code |-> Code[handler[c].responder],
                       with |-> handler[c].responder]
    <3>2. msg \in M
      BY <3>1, Constants
    <3>3. \/ wire' = wire
          \/ wire' = [n \in Nodes |->
                        IF n = Node[c] \/ n \in stopped THEN wire[n]
                        ELSE Append(wire[n], msg)]
      BY <2>1 DEF SendInitiator
    <3>4. wire \in [Nodes -> Seq(M)]
      OBVIOUS
    <3> HIDE DEF M, msg
    <3>5. wire' \in [Nodes -> Seq(M)]
      <4>1. \A n \in Nodes : wire[n] \in Seq(M) /\ Append(wire[n], msg) \in Seq(M)
        BY ONLY <3>2, <3>4, Queues
      <4> DEFINE box(n) == IF n = Node[c] \/ n \in stopped THEN wire[n]
                           ELSE Append(wire[n], msg)
      <4>2. \A n \in Nodes : box(n) \in Seq(M)
        BY <4>1
      <4>3. wire' = wire \/ wire' = [n \in Nodes |-> box(n)]
        BY <3>3
      <4> HIDE DEF box
      <4> QED BY ONLY <3>4, <4>2, <4>3
    <3> QED BY <3>5 DEF M
  <2>2. ASSUME NEW n \in Nodes, RemotePairMatched(n) \/ Lose(n)
        PROVE  wire' \in [Nodes -> Seq([code : PairingIds, with : Calls])]
    <3>1. wire[n] # <<>> /\ wire' = [wire EXCEPT ![n] = Tail(wire[n])]
      BY <2>2 DEF RemotePairMatched, Lose
    <3>2. Tail(wire[n]) \in Seq([code : PairingIds, with : Calls])
      BY <3>1, Queues
    <3> QED BY <3>1, <3>2
  <2>3. ASSUME NEW n \in Nodes, Stop(n)
        PROVE  wire' \in [Nodes -> Seq([code : PairingIds, with : Calls])]
    BY <2>3, Queues DEF Stop
  <2> QED
    BY <2>1, <2>2, <2>3
    DEF Next, vars, PairRefused, MatchLocal, StoreLocal, Age, SetGet, SetGetFails,
        Del, DropLocal, SendResponder, CloseConn, RemovePairingsByConn, ClearKeys,
        CleanupPairings, SendExpired, KeyExpires
<1>3. expiring' \in [Nodes -> SUBSET Calls]
  <2>1. ASSUME NEW n \in Nodes, CleanupPairings(n) PROVE expiring' \in [Nodes -> SUBSET Calls]
    <3>1. {local[n][p] : p \in PairingIds} \cap overdue \subseteq Calls
      BY WaitingIs
    <3> QED BY <2>1, <3>1 DEF CleanupPairings
  <2>2. ASSUME NEW n \in Nodes, Stop(n) \/ \E k \in Calls : SendExpired(n, k)
        PROVE  expiring' \in [Nodes -> SUBSET Calls]
    <3>1. CASE Stop(n)
      BY <3>1 DEF Stop
    <3>2. ASSUME NEW k \in Calls, SendExpired(n, k)
          PROVE  expiring' \in [Nodes -> SUBSET Calls]
      <4>1. expiring[n] \ {k} \in SUBSET Calls
        OBVIOUS
      <4> QED BY <3>2, <4>1 DEF SendExpired
    <3> QED BY <2>2, <3>1, <3>2
  <2> QED
    BY <2>1, <2>2
    DEF Next, vars, PairRefused, MatchLocal, StoreLocal, Age, SetGet, SetGetFails,
        Del, DropLocal, SendInitiator, SendResponder, CloseConn,
        RemovePairingsByConn, ClearKeys, RemotePairMatched, Lose, KeyExpires
<1>4. stopped' \subseteq Nodes /\ sent' \subseteq Calls
  BY DEF Next, vars, PairRefused, MatchLocal, StoreLocal, Age, SetGet, SetGetFails,
         Del, DropLocal, SendInitiator, SendResponder, CloseConn,
         RemovePairingsByConn, ClearKeys, RemotePairMatched, Lose, CleanupPairings,
         Stop, SendExpired, KeyExpires
<1>5. told' \in [Calls -> SUBSET Message]
  <2>1. ASSUME NEW k \in Calls, NEW m \in Message, Tell(k, m)
        PROVE  told' \in [Calls -> SUBSET Message]
    BY <2>1 DEF Tell
  <2>2. /\ \A is \in {"refused", "failed", "expired"} : [is |-> is] \in Message
        /\ \A is \in {"initiator", "responder"}, k \in Calls : Matched(is, k) \in Message
    BY DEF Message, Matched
  <2>3. ASSUME NEW k \in Calls, PairRefused(k) \/ \E n \in Nodes : SendExpired(n, k)
        PROVE  told' \in [Calls -> SUBSET Message]
    BY <2>1, <2>2, <2>3 DEF PairRefused, SendExpired
  <2>4. ASSUME NEW c \in Conns, SetGetFails(c)
        PROVE  told' \in [Calls -> SUBSET Message]
    BY <2>1, <2>2, <2>4, Fields DEF SetGetFails
  <2>5. ASSUME NEW c \in Conns, SendInitiator(c) \/ SendResponder(c)
        PROVE  told' \in [Calls -> SUBSET Message]
    <3>1. handler[c].initiator \in Calls /\ handler[c].responder \in Calls
      BY <2>5, Fields DEF SendInitiator, SendResponder, Working
    <3> QED BY <2>1, <2>2, <2>5, <3>1 DEF SendInitiator, SendResponder
  <2>6. ASSUME NEW n \in Nodes, RemotePairMatched(n)
        PROVE  told' \in [Calls -> SUBSET Message]
    <3>1. wire[n] # <<>> /\ wire[n] \in Seq([code : PairingIds, with : Calls])
      BY <2>6 DEF RemotePairMatched
    <3>2. Head(wire[n]) \in [code : PairingIds, with : Calls]
      BY <3>1, Queues
    <3>3. Head(wire[n]).with \in Calls
          /\ local[n][Head(wire[n]).code] \in Calls \cup {NoCall}
      BY <3>2
    <3> QED BY <2>1, <2>2, <2>6, <3>3 DEF RemotePairMatched
  <2> QED
    BY <2>3, <2>4, <2>5, <2>6
    DEF Next, vars, MatchLocal, StoreLocal, Age, SetGet, Del, DropLocal, CloseConn,
        RemovePairingsByConn, ClearKeys, Lose, CleanupPairings, Stop, KeyExpires
<1> QED BY <1>1, <1>2, <1>3, <1>4, <1>5, HandlerStep, LocalStep

-----------------------------------------------------------------------------
(* How goroutines move                                                      *)

\* handler'[d] is handler[d] at another place.
Onward(d) ==
  /\ handler[d].at \in Working /\ handler'[d].at \in Working
  /\ handler'[d].at # "deleting"
  /\ handler'[d].initiator = handler[d].initiator
  /\ handler'[d].responder = handler[d].responder

Idle == {"reading", "closing", "clearing", "closed"}

LEMMA Moves ==
  ASSUME TypeOK, [Next]_vars, NEW d \in Conns
  PROVE  \/ handler'[d] = handler[d]
         \/ handler'[d].at \in Idle
         \/ \E k \in Calls : Caller[k] = d /\ (MatchLocal(k) \/ StoreLocal(k))
         \/ SetGet(d)
         \/ Onward(d)
<1>1. ASSUME NEW c \in Conns, NEW h, handler' = [handler EXCEPT ![c] = h], d # c
      PROVE  handler'[d] = handler[d]
  BY <1>1
<1>2. \A k \in Calls : MatchLocal(k) \/ StoreLocal(k) =>
        handler'[d] = handler[d] \/ Caller[k] = d
  BY <1>1, Constants DEF MatchLocal, StoreLocal, Goto
<1>3. ASSUME NEW c \in Conns,
             SetGetFails(c) \/ SendResponder(c) \/ CloseConn(c)
               \/ RemovePairingsByConn(c) \/ ClearKeys(c)
      PROVE  handler'[d] = handler[d] \/ handler'[d].at \in Idle
  BY <1>1, <1>3
  DEF TypeOK, SetGetFails, SendResponder, CloseConn, RemovePairingsByConn, ClearKeys,
      Goto, At, Idle
<1>4. ASSUME NEW c \in Conns, SetGet(c) PROVE handler'[d] = handler[d] \/ SetGet(d)
  BY <1>1, <1>4 DEF SetGet, Goto
<1>5. ASSUME NEW c \in Conns, Del(c) \/ DropLocal(c) \/ SendInitiator(c)
      PROVE  handler'[d] = handler[d] \/ Onward(d) \/ handler'[d].at \in Idle
  <2>1. CASE d # c
    BY <1>1, <1>5, <2>1 DEF Del, DropLocal, SendInitiator
  <2>2. CASE d = c
    <3>1. handler[c].at \in Working
      BY <1>5 DEF Del, DropLocal, SendInitiator, Working
    <3>2. \/ \E loc \in {"dropping", "matched", "halfway"} :
               handler' = [handler EXCEPT ![c] = [handler[c] EXCEPT !.at = loc]]
          \/ handler' = [handler EXCEPT ![c] = At("reading")]
      BY <1>5 DEF Del, DropLocal, SendInitiator
    <3>3. CASE handler' = [handler EXCEPT ![c] = At("reading")]
      BY <2>2, <3>3 DEF At, Idle, TypeOK
    <3>4. ASSUME NEW loc \in {"dropping", "matched", "halfway"},
                 handler' = [handler EXCEPT ![c] = [handler[c] EXCEPT !.at = loc]]
          PROVE  Onward(d)
      <4>1. handler'[c] = [at |-> loc, initiator |-> handler[c].initiator,
                           responder |-> handler[c].responder]
        BY <3>1, <3>4, Fields DEF TypeOK
      <4> QED BY <2>2, <3>1, <4>1 DEF Onward, Working
    <3> QED BY <3>2, <3>3, <3>4
  <2> QED BY <2>1, <2>2
<1>6. ASSUME NEW n \in Nodes, Stop(n) PROVE handler'[d] = handler[d] \/ handler'[d].at \in Idle
  BY <1>6 DEF Stop, At, Idle
<1>7. CASE UNCHANGED handler
  BY <1>7
<1> QED
  BY <1>2, <1>3, <1>4, <1>5, <1>6, <1>7
  DEF Next, vars, PairRefused, Age, RemotePairMatched, Lose, CleanupPairings,
      SendExpired, KeyExpires

\* What the first step of a pair message leaves in the hands of its goroutine.
LEMMA FirstMoves ==
  ASSUME TypeOK, NEW k \in Calls, MatchLocal(k) \/ StoreLocal(k)
  PROVE  /\ k \notin sent /\ sent' = sent \cup {k}
         /\ \/ /\ MatchLocal(k)
               /\ local[Home(k)][Code[k]] \in Waiting
               /\ handler'[Caller[k]] =
                    [at |-> "deleting", initiator |-> local[Home(k)][Code[k]],
                     responder |-> k]
               /\ handler'[Caller[k]].at = "deleting"
            \/ /\ StoreLocal(k)
               /\ handler'[Caller[k]] = [at |-> "storing", call |-> k]
               /\ handler'[Caller[k]].at = "storing"
BY Constants DEF TypeOK, MatchLocal, StoreLocal, Goto, Waiting

\* What SET GET leaves.
LEMMA SetGetMoves ==
  ASSUME TypeOK, NEW c \in Conns, SetGet(c)
  PROVE  /\ handler[c].at = "storing" /\ handler[c].call \in Calls
         /\ redis' = [redis EXCEPT ![Code[handler[c].call]] = handler[c].call]
         /\ UNCHANGED <<sent, told>>
         /\ \/ redis[Code[handler[c].call]] = NoCall /\ handler'[c].at = "reading"
            \/ /\ redis[Code[handler[c].call]] \in Calls
               /\ handler'[c] = [at |-> "taken", responder |-> handler[c].call,
                                 initiator |-> redis[Code[handler[c].call]]]
               /\ handler'[c].at = "taken"
         /\ \A d \in Conns : d # c => handler'[d] = handler[d]
<1>1. handler[c].at = "storing" /\ handler[c].call \in Calls
  BY Fields DEF SetGet, TypeOK
<1> QED BY <1>1, Constants DEF SetGet, Goto, At, TypeOK

\* The fields of a goroutine that works.
LEMMA WorksOn ==
  ASSUME TypeOK, NEW c \in Conns, NEW i, NEW k, Works(c, i, k)
  PROVE  i \in Calls /\ k \in Calls
BY Fields DEF TypeOK, Works

-----------------------------------------------------------------------------
(* The parts of the invariant, one by one                                   *)

LEMMA SentGrows == [Next]_vars => sent \subseteq sent'
BY DEF Next, vars, PairRefused, MatchLocal, StoreLocal, Age, SetGet, SetGetFails, Del,
       DropLocal, SendInitiator, SendResponder, CloseConn, RemovePairingsByConn,
       ClearKeys, RemotePairMatched, Lose, CleanupPairings, Stop, SendExpired, KeyExpires

LEMMA OwnedStep ==
  ASSUME TypeOK, Owned, Stored, HandOut, [Next]_vars PROVE Owned'
<1> DEFINE Owns(c) ==
      /\ handler[c].at = "storing" =>
           Caller[handler[c].call] = c /\ handler[c].call \in sent
      /\ handler[c].at \in Working =>
           /\ Caller[handler[c].responder] = c
           /\ handler[c].responder \in sent /\ handler[c].initiator \in sent
           /\ handler[c].initiator # handler[c].responder
           /\ Code[handler[c].initiator] = Code[handler[c].responder]
      /\ handler[c].at = "deleting" => Home(handler[c].initiator) = Node[c]
<1> SUFFICES ASSUME NEW c \in Conns PROVE Owns(c)'
  BY DEF Owned
<1>0. Owns(c) /\ sent \subseteq sent'
  BY SentGrows DEF Owned
<1>1. CASE handler'[c] = handler[c]
  BY <1>0, <1>1
<1>2. CASE handler'[c].at \in Idle
  BY <1>2 DEF Idle, Working
<1>3. ASSUME NEW k \in Calls, Caller[k] = c, MatchLocal(k) \/ StoreLocal(k)
      PROVE  Owns(c)'
  <2>0. k \notin sent /\ sent' = sent \cup {k}
    BY <1>3, FirstMoves
  <2>1. CASE handler'[c] = [at |-> "storing", call |-> k]
    BY <1>3, <2>0, <2>1 DEF Working
  <2>2. ASSUME NEW j \in Waiting, j = local[Home(k)][Code[k]],
               handler'[c] = [at |-> "deleting", initiator |-> j, responder |-> k]
        PROVE  Owns(c)'
    <3>1. j \in sent /\ j # k /\ k \in sent'
      BY <2>0, <2>2 DEF Stored
    <3>2. Home(j) = Node[c] /\ Code[j] = Code[k]
      BY <1>3, <2>2, Constants DEF TypeOK, Waiting
    <3> QED BY <1>0, <1>3, <2>2, <3>1, <3>2 DEF Working
  <2> QED BY <1>3, <2>1, <2>2, FirstMoves
<1>4. CASE SetGet(c)
  <2>1. CASE handler'[c].at = "reading"
    BY <2>1 DEF Working
  <2>2. CASE handler'[c].at # "reading"
    <3> DEFINE k == handler[c].call
               j == redis[Code[k]]
    <3>1. /\ handler[c].at = "storing" /\ k \in Calls /\ j \in Calls
          /\ handler'[c] = [at |-> "taken", responder |-> k, initiator |-> j]
      BY <1>4, <2>2, SetGetMoves
    <3>2. j \in sent /\ Code[j] = Code[k] /\ j # NoCall
      BY <3>1, Constants DEF Stored
    <3>3. k \in sent /\ Caller[k] = c
      BY <1>0, <3>1
    <3>4. j # k
      BY <3>1 DEF HandOut, ToStore
    <3> QED BY <1>0, <3>1, <3>2, <3>3, <3>4 DEF Working
  <2> QED BY <2>1, <2>2
<1>5. CASE Onward(c)
  BY <1>0, <1>5 DEF Onward, Working
<1> QED BY <1>1, <1>2, <1>3, <1>4, <1>5, Moves

\* Only StoreLocal makes an entry.
LEMMA EntriesGo ==
  ASSUME TypeOK, [Next]_vars
  PROVE  \/ \E k \in Calls : StoreLocal(k)
         \/ \A m \in Nodes, q \in PairingIds : local'[m][q] \in {local[m][q], NoCall}
<1> DEFINE Go == \A m \in Nodes, q \in PairingIds : local'[m][q] \in {local[m][q], NoCall}
<1>1. ASSUME NEW n \in Nodes, NEW p, SetLocal(n, p, NoCall) PROVE Go
  BY <1>1 DEF SetLocal, TypeOK
<1>2. \A k \in Calls : MatchLocal(k) => Go
  BY <1>1, Constants DEF MatchLocal
<1>3. \A c \in Conns : DropLocal(c) => Go
  BY <1>1, Constants DEF DropLocal
<1>4. ASSUME NEW n \in Nodes, RemotePairMatched(n) PROVE Go
  <2>1. local' = local \/ SetLocal(n, Head(wire[n]).code, NoCall)
    BY <1>4 DEF RemotePairMatched
  <2>2. CASE local' = local
    BY <2>2
  <2>3. CASE SetLocal(n, Head(wire[n]).code, NoCall)
    BY <1>1, <2>3
  <2> QED BY <2>1, <2>2, <2>3
<1>5. ASSUME NEW n \in Nodes, CleanupPairings(n) \/ Stop(n) PROVE Go
  <2>1. CASE Stop(n)
    BY <2>1 DEF Stop, TypeOK
  <2>2. CASE CleanupPairings(n)
    <3> DEFINE late == {local[n][p] : p \in PairingIds} \cap overdue
    <3>1. local' = [local EXCEPT ![n] = [p \in PairingIds |->
                      IF local[n][p] \in late THEN NoCall ELSE local[n][p]]]
      BY <2>2 DEF CleanupPairings
    <3> HIDE DEF late
    <3> QED BY <3>1 DEF TypeOK
  <2> QED BY <1>5, <2>1, <2>2
<1>6. ASSUME NEW c \in Conns, RemovePairingsByConn(c) PROVE Go
  BY <1>6, Constants DEF RemovePairingsByConn, TypeOK
<1> QED
  BY <1>2, <1>3, <1>4, <1>5, <1>6
  DEF Next, vars, PairRefused, Age, SetGet, SetGetFails, Del, SendInitiator,
      SendResponder, CloseConn, ClearKeys, Lose, SendExpired, KeyExpires

\* A call is in a table or in Redis only after it was sent.
LEMMA StoredStep ==
  ASSUME TypeOK, Owned, Stored, [Next]_vars PROVE Stored'
<1>0. sent \subseteq sent'
  BY SentGrows
<1>1. Waiting' \subseteq sent'
  <2>1. \/ \E k \in Calls : StoreLocal(k)
        \/ Waiting' \subseteq Waiting \cup {NoCall}
    BY EntriesGo DEF Waiting
  <2>2. NoCall \notin Waiting'
    BY DEF Waiting
  <2>3. ASSUME NEW k \in Calls, StoreLocal(k) PROVE Waiting' \subseteq sent'
    <3>1. \A m \in Nodes, q \in PairingIds : local'[m][q] \in {local[m][q], k}
      BY <2>3 DEF StoreLocal, SetLocal, TypeOK
    <3>2. k \in sent'
      BY <2>3 DEF StoreLocal
    <3> QED BY <1>0, <3>1, <3>2 DEF Waiting, Stored
  <2> QED BY <1>0, <2>1, <2>2, <2>3 DEF Stored
<1>2. ASSUME NEW p \in PairingIds, redis'[p] # NoCall
      PROVE  redis'[p] \in sent' /\ Code[redis'[p]] = p
  <2>1. \/ redis'[p] = redis[p]
        \/ \E c \in Conns : /\ handler[c].at = "storing" /\ redis'[p] = handler[c].call
                            /\ Code[handler[c].call] = p
    <3>1. ASSUME NEW c \in Conns, SetGet(c) \/ SetGetFails(c)
          PROVE  \/ redis'[p] = redis[p]
                 \/ /\ handler[c].at = "storing" /\ redis'[p] = handler[c].call
                    /\ Code[handler[c].call] = p
      BY <3>1 DEF SetGet, SetGetFails, TypeOK
    <3>2. ASSUME NEW c \in Conns, Del(c) \/ ClearKeys(c) PROVE redis'[p] = redis[p]
      BY <1>2, <3>2 DEF Del, ClearKeys, TypeOK
    <3>3. ASSUME NEW q \in PairingIds, KeyExpires(q) PROVE redis'[p] = redis[p]
      BY <1>2, <3>3 DEF KeyExpires, TypeOK
    <3> QED
      BY <3>1, <3>2, <3>3
      DEF Next, vars, PairRefused, MatchLocal, StoreLocal, Age, DropLocal,
          SendInitiator, SendResponder, CloseConn, RemovePairingsByConn,
          RemotePairMatched, Lose, CleanupPairings, Stop, SendExpired
  <2> QED BY <1>0, <1>2, <2>1 DEF Stored, Owned
<1> QED BY <1>1, <1>2 DEF Stored

\* Only SET GET takes a call's data.
LEMMA TookStep ==
  ASSUME TypeOK, Owned, Stored, HandOut, [Next]_vars,
         NEW i \in Calls, NEW k \in Calls, Took(i, k)'
  PROVE  \/ Took(i, k)
         \/ \E c \in Conns : SetGet(c) /\ handler[c].call = i /\ redis[Code[i]] = k
                             /\ k \in sent
<1>1. Home(i) # Home(k)
  BY DEF Took, Home
<1>2. ASSUME NEW c \in Conns, Works(c, i, k)'
      PROVE  Works(c, i, k) \/ (SetGet(c) /\ handler[c].call = i /\ redis[Code[i]] = k
                                /\ k \in sent)
  <2>1. CASE handler'[c] = handler[c] \/ Onward(c)
    BY <1>2, <2>1 DEF Works, Onward
  <2>2. CASE handler'[c].at \in Idle
    BY <1>2, <2>2 DEF Works, Working, Idle
  <2>3. ASSUME NEW j \in Calls, Caller[j] = c, MatchLocal(j) \/ StoreLocal(j)
        PROVE  FALSE
    <3> DEFINE e == local[Home(j)][Code[j]]
    <3>1. handler'[c].at # "storing"
      BY <1>2 DEF Works, Working
    <3>2. /\ e \in Waiting
          /\ handler'[c] = [at |-> "deleting", initiator |-> e, responder |-> j]
      BY <2>3, <3>1, FirstMoves
    <3>3. i = j /\ k = e
      BY <1>2, <3>2 DEF Works
    <3>4. Home(e) = Home(j)
      BY <3>2, Constants DEF TypeOK, Waiting
    <3> QED BY <1>1, <3>3, <3>4
  <2>4. CASE SetGet(c)
    <3>1. handler'[c].at # "reading"
      BY <1>2 DEF Works, Working
    <3>2. handler'[c] = [at |-> "taken", responder |-> handler[c].call,
                         initiator |-> redis[Code[handler[c].call]]]
      BY <2>4, <3>1, SetGetMoves
    <3>3. handler[c].call = i /\ redis[Code[i]] = k
      BY <1>2, <3>2 DEF Works
    <3> QED BY <2>4, <3>3, Constants DEF Stored
  <2> QED BY <2>1, <2>2, <2>3, <2>4, Moves
<1>3. ASSUME Matched("responder", k) \in told'[i], Matched("responder", k) \notin told[i]
      PROVE  \E c \in Conns : Works(c, i, k)
  <2>1. ASSUME NEW j, NEW m, Tell(j, m), m.is # "responder" PROVE FALSE
    BY <1>3, <2>1 DEF Tell, TypeOK, Matched
  <2>2. \A j \in Calls : ~PairRefused(j)
    BY <2>1 DEF PairRefused
  <2>3. \A c \in Conns : ~SetGetFails(c)
    BY <2>1 DEF SetGetFails
  <2>4. \A c \in Conns : ~SendInitiator(c)
    BY <1>3, <2>1 DEF SendInitiator, Matched
  <2>5. \A n \in Nodes : ~RemotePairMatched(n)
    BY <1>3, <2>1 DEF RemotePairMatched, Matched
  <2>6. \A n \in Nodes, j \in Calls : ~SendExpired(n, j)
    BY <2>1 DEF SendExpired
  <2>7. ASSUME NEW c \in Conns, SendResponder(c) PROVE Works(c, i, k)
    BY <1>3, <2>7 DEF SendResponder, Tell, Matched, Works, Working, TypeOK
  <2> QED
    BY <1>3, <2>2, <2>3, <2>4, <2>5, <2>6, <2>7
    DEF Next, vars, MatchLocal, StoreLocal, Age, SetGet, Del, DropLocal, CloseConn,
        RemovePairingsByConn, ClearKeys, Lose, CleanupPairings, Stop, KeyExpires
<1> QED BY <1>1, <1>2, <1>3 DEF Took

\* Who will yet store its data is who was about to, or a new call.
LEMMA ToStoreStep ==
  ASSUME TypeOK, [Next]_vars, NEW k \in Calls, ToStore(k)'
  PROVE  ToStore(k) \/ k \notin sent
<1>1. PICK c \in Conns : handler'[c].at = "storing" /\ handler'[c].call = k
  BY DEF ToStore
<1>2. CASE handler'[c] = handler[c]
  BY <1>1, <1>2 DEF ToStore
<1>3. ASSUME NEW j \in Calls, MatchLocal(j) \/ StoreLocal(j), Caller[j] = c
      PROVE  k \notin sent
  <2>1. handler'[c].at # "deleting"
    BY <1>1
  <2>2. j \notin sent /\ handler'[c] = [at |-> "storing", call |-> j]
    BY <1>3, <2>1, FirstMoves
  <2> QED BY <1>1, <2>2
<1>4. CASE SetGet(c)
  <2>1. handler'[c].at \in {"reading", "taken"}
    BY <1>4, SetGetMoves
  <2> QED BY <1>1, <2>1
<1> QED BY <1>1, <1>2, <1>3, <1>4, Moves DEF Idle, Onward, Working

\* What Redis comes to hold is what a goroutine was about to store, and is
\* not about to store any more.
LEMMA RedisStep ==
  ASSUME TypeOK, Owned, [Next]_vars, NEW k \in Calls, redis'[Code[k]] = k
  PROVE  redis[Code[k]] = k \/ (ToStore(k) /\ ~ToStore(k)')
<1>1. ASSUME NEW c \in Conns, SetGet(c) \/ SetGetFails(c), redis[Code[k]] # k
      PROVE  ToStore(k) /\ ~ToStore(k)'
  <2>1. handler[c].at = "storing" /\ handler[c].call = k
    <3>1. handler[c].at = "storing" /\ handler[c].call \in Calls
      BY <1>1, Fields DEF SetGet, SetGetFails, TypeOK
    <3>2. \/ redis' = redis
          \/ redis' = [redis EXCEPT ![Code[handler[c].call]] = handler[c].call]
      BY <1>1 DEF SetGet, SetGetFails
    <3> QED BY <1>1, <3>1, <3>2, Constants DEF TypeOK
  <2>2. handler'[c].at \in {"reading", "taken"}
    BY <1>1 DEF SetGet, SetGetFails, Goto, At, TypeOK
  <2>3. ASSUME NEW d \in Conns, handler'[d].at = "storing", handler'[d].call = k
        PROVE  FALSE
    <3>1. d # c
      BY <2>2, <2>3
    <3>2. handler[d] = handler'[d]
      BY <1>1, <3>1 DEF SetGet, SetGetFails, Goto, TypeOK
    <3> QED BY <2>1, <2>3, <3>1, <3>2 DEF Owned
  <2> QED BY <2>1, <2>3 DEF ToStore
<1>2. \A c \in Conns : Del(c) \/ ClearKeys(c) => redis[Code[k]] = k
  BY Constants DEF Del, ClearKeys, TypeOK
<1>3. \A p \in PairingIds : KeyExpires(p) => redis[Code[k]] = k
  BY Constants DEF KeyExpires, TypeOK
<1> QED
  BY <1>1, <1>2, <1>3
  DEF Next, vars, PairRefused, MatchLocal, StoreLocal, Age, DropLocal, SendInitiator,
      SendResponder, CloseConn, RemovePairingsByConn, RemotePairMatched, Lose,
      CleanupPairings, Stop, SendExpired

\* SET GET is atomic: the data that one call gets is replaced by its own.
LEMMA HandOutStep ==
  ASSUME TypeOK, Owned, Stored, HandOut, [Next]_vars PROVE HandOut'
<1> SUFFICES ASSUME NEW k \in Calls
             PROVE  /\ \A i, j \in Calls : Took(i, k)' /\ Took(j, k)' => i = j
                    /\ (\E i \in Calls : Took(i, k)') =>
                         k \in sent' /\ redis'[Code[k]] # k /\ ~ToStore(k)'
                    /\ redis'[Code[k]] = k => ~ToStore(k)'
  BY DEF HandOut
<1>0. sent \subseteq sent' /\ Code[k] \in PairingIds
  BY SentGrows, Constants
<1>1. redis'[Code[k]] = k => ~ToStore(k)'
  BY RedisStep, ToStoreStep, Constants DEF HandOut, Stored
\* The data of k is taken in this step.
<1>2. ASSUME NEW c \in Conns, SetGet(c), redis[Code[handler[c].call]] = k, k \in sent
      PROVE  /\ \A i \in Calls : Took(i, k)' => i = handler[c].call
             /\ redis'[Code[k]] # k /\ ~ToStore(k)'
  <2>1. handler[c].call \in Calls /\ Code[handler[c].call] = Code[k]
    BY <1>2, SetGetMoves, Constants DEF Stored
  <2>2. redis[Code[k]] = k /\ ~ToStore(k) /\ handler[c].call # k
    BY <1>2, <2>1, SetGetMoves DEF HandOut, ToStore
  <2>3. \A i \in Calls : ~Took(i, k)
    BY <2>2 DEF HandOut
  <2>4. ASSUME NEW i \in Calls, Took(i, k)' PROVE i = handler[c].call
    <3>1. PICK d \in Conns : SetGet(d) /\ handler[d].call = i
      BY <2>3, <2>4, TookStep
    <3>2. handler[c].at = "storing" /\ handler'[c].at # "storing"
      BY <1>2, SetGetMoves
    <3>3. d = c
      BY <3>1, <3>2, SetGetMoves
    <3> QED BY <3>1, <3>3
  <2>5. redis'[Code[k]] = handler[c].call
    BY <1>0, <1>2, <2>1, SetGetMoves DEF TypeOK
  <2>6. ~ToStore(k)'
    BY <1>2, <2>2, ToStoreStep
  <2> QED BY <2>2, <2>4, <2>5, <2>6
<1>3. ASSUME ~ \E c \in Conns : SetGet(c) /\ redis[Code[handler[c].call]] = k /\ k \in sent
      PROVE  \A i \in Calls : Took(i, k)' => Took(i, k)
  BY <1>3, TookStep
<1>4. ASSUME NEW i \in Calls, Took(i, k)
      PROVE  k \in sent' /\ redis'[Code[k]] # k /\ ~ToStore(k)'
  BY <1>0, <1>4, RedisStep, ToStoreStep DEF HandOut
<1> QED BY <1>0, <1>1, <1>2, <1>3, <1>4 DEF HandOut

\* What has been told stays told.
LEMMA ToldGrows ==
  ASSUME TypeOK, [Next]_vars, NEW k \in Calls
  PROVE  told[k] \subseteq told'[k]
<1>1. \A j, m : Tell(j, m) => told[k] \subseteq told'[k]
  BY DEF Tell, TypeOK
<1>2. ASSUME NEW c \in Conns, SendInitiator(c) PROVE told[k] \subseteq told'[k]
  BY <1>1, <1>2 DEF SendInitiator
<1>3. ASSUME NEW n \in Nodes, RemotePairMatched(n) PROVE told[k] \subseteq told'[k]
  BY <1>1, <1>3 DEF RemotePairMatched
<1> QED
  BY <1>1, <1>2, <1>3
  DEF Next, vars, PairRefused, MatchLocal, StoreLocal, Age, SetGet, SetGetFails, Del,
      DropLocal, SendResponder, CloseConn, RemovePairingsByConn, ClearKeys, Lose,
      CleanupPairings, Stop, SendExpired, KeyExpires

\* A goroutine that works goes on, without changing other goroutines.
LEMMA WorkMoves ==
  ASSUME TypeOK, NEW d \in Conns, Del(d) \/ DropLocal(d) \/ SendInitiator(d)
  PROVE  /\ handler[d].at \in Working
         /\ \A c \in Conns : c # d => handler'[c] = handler[c]
         /\ handler'[d].at \in {"reading", "dropping", "matched", "halfway"}
         /\ handler'[d].at = "halfway" => SendInitiator(d)
<1> DEFINE g(loc) == [handler[d] EXCEPT !.at = loc]
<1>1. handler[d].at \in Working
  BY DEF Del, DropLocal, SendInitiator, Working
<1>2. \A loc : g(loc).at = loc
  <2>1. ASSUME NEW loc PROVE g(loc).at = loc
    <3>1. g(loc) = [at |-> loc, initiator |-> handler[d].initiator,
                    responder |-> handler[d].responder]
      BY <1>1, Fields DEF TypeOK
    <3> QED BY <3>1
  <2> QED BY <2>1
<1>3. \/ /\ handler' = [handler EXCEPT ![d] = g("halfway")]
         /\ SendInitiator(d)
      \/ handler' = [handler EXCEPT ![d] = At("reading")]
      \/ handler' = [handler EXCEPT ![d] = g("dropping")]
      \/ handler' = [handler EXCEPT ![d] = g("matched")]
  BY DEF Del, DropLocal, SendInitiator
<1> HIDE DEF g
<1>4. \A c \in Conns : c # d => handler'[c] = handler[c]
  BY <1>3 DEF TypeOK
<1>5. \/ /\ handler'[d] = g("halfway")
         /\ SendInitiator(d)
      \/ handler'[d] = At("reading")
      \/ handler'[d] = g("dropping")
      \/ handler'[d] = g("matched")
  BY <1>3 DEF TypeOK
<1>6. At("reading").at = "reading"
  BY DEF At
<1> QED BY <1>1, <1>2, <1>4, <1>5, <1>6

\* A goroutine between the two halves sends the second, or its server stops.
LEMMA HalfwayEnds ==
  ASSUME TypeOK, [Next]_vars, NEW c \in Conns, handler[c].at = "halfway"
  PROVE  \/ handler'[c] = handler[c] /\ stopped \subseteq stopped'
         \/ SendResponder(c)
         \/ Stop(Node[c])
<1>1. ASSUME NEW d \in Conns, NEW h, handler' = [handler EXCEPT ![d] = h]
      PROVE  d = c \/ handler'[c] = handler[c]
  BY <1>1 DEF TypeOK
<1>2. ASSUME NEW k \in Calls, MatchLocal(k) \/ StoreLocal(k)
      PROVE  handler'[c] = handler[c]
  BY <1>1, <1>2, Constants DEF MatchLocal, StoreLocal, Goto, Reading
<1>3. ASSUME NEW d \in Conns,
             SetGet(d) \/ SetGetFails(d) \/ CloseConn(d) \/ RemovePairingsByConn(d)
               \/ ClearKeys(d)
      PROVE  handler'[c] = handler[c]
  BY <1>1, <1>3
  DEF SetGet, SetGetFails, CloseConn, RemovePairingsByConn, ClearKeys, Goto, Reading
<1>4. ASSUME NEW d \in Conns, Del(d) \/ DropLocal(d) \/ SendInitiator(d)
      PROVE  handler'[c] = handler[c]
  BY <1>1, <1>4 DEF Del, DropLocal, SendInitiator
<1>5. ASSUME NEW d \in Conns, SendResponder(d)
      PROVE  handler'[c] = handler[c] \/ SendResponder(c)
  BY <1>1, <1>5 DEF SendResponder, Goto
<1>6. ASSUME NEW n \in Nodes, Stop(n)
      PROVE  (handler'[c] = handler[c] /\ stopped \subseteq stopped') \/ Stop(Node[c])
  BY <1>6 DEF Stop
<1>7. stopped \subseteq stopped'
  BY DEF Next, vars, PairRefused, MatchLocal, StoreLocal, Age, SetGet, SetGetFails, Del,
         DropLocal, SendInitiator, SendResponder, CloseConn, RemovePairingsByConn,
         ClearKeys, RemotePairMatched, Lose, CleanupPairings, Stop, SendExpired,
         KeyExpires
<1> QED
  BY <1>2, <1>3, <1>4, <1>5, <1>6, <1>7
  DEF Next, vars, PairRefused, Age, RemotePairMatched, Lose, CleanupPairings,
      SendExpired, KeyExpires

\* An initiator does not lose its partner.
LEMMA PartneredStays ==
  ASSUME TypeOK, [Next]_vars, NEW j \in Calls, Partnered(j)
  PROVE  Partnered(j)'
<1> DEFINE c == Caller[j]
<1>0. c \in Conns
  BY Constants
<1>1. ASSUME NEW i \in Calls, Matched("responder", i) \in told[j] PROVE Partnered(j)'
  <2>1. Matched("responder", i) \in told'[j]
    BY <1>1, ToldGrows
  <2> QED BY <2>1 DEF Partnered, Matched
<1>2. CASE handler[c].at = "halfway" /\ handler[c].responder = j
  <2>1. CASE handler'[c] = handler[c]
    BY <1>2, <2>1 DEF Partnered
  <2>2. CASE SendResponder(c)
    <3>1. handler[c].initiator \in Calls
      BY <1>0, <1>2, Fields DEF TypeOK, Working
    <3>2. Matched("responder", handler[c].initiator) \in told'[j]
      BY <1>2, <2>2 DEF SendResponder, Tell, TypeOK
    <3> QED BY <3>1, <3>2 DEF Partnered, Matched
  <2>3. CASE Stop(Node[c])
    BY <2>3 DEF Stop, Partnered, Home
  <2> QED BY <1>0, <1>2, <2>1, <2>2, <2>3, HalfwayEnds
<1>3. CASE Home(j) \in stopped
  <2>1. stopped \subseteq stopped'
    BY DEF Next, vars, PairRefused, MatchLocal, StoreLocal, Age, SetGet, SetGetFails,
           Del, DropLocal, SendInitiator, SendResponder, CloseConn,
           RemovePairingsByConn, ClearKeys, RemotePairMatched, Lose, CleanupPairings,
           Stop, SendExpired, KeyExpires
  <2> QED BY <1>3, <2>1 DEF Partnered, Home
<1> QED BY <1>1, <1>2, <1>3 DEF Partnered

\* The sender of the first half is about to send the second.
LEMMA SenderPartnered ==
  ASSUME TypeOK, Owned, NEW c \in Conns, SendInitiator(c),
         NEW j, j = handler[c].responder
  PROVE  j \in Calls /\ Partnered(j)'
<1>1. /\ handler[c].at \in Working
      /\ handler[c].responder \in Calls /\ handler[c].initiator \in Calls
  BY Fields DEF SendInitiator, Working, TypeOK
<1>2. Caller[handler[c].responder] = c
  BY <1>1 DEF Owned
<1>3. handler'[c] = [at |-> "halfway", initiator |-> handler[c].initiator,
                     responder |-> handler[c].responder]
  BY <1>1, Fields DEF SendInitiator, TypeOK
<1> QED BY <1>1, <1>2, <1>3 DEF Partnered

\* Which partner a server is about to be told of, and who told it.
LEMMA WireStep ==
  ASSUME TypeOK, [Next]_vars, NEW n \in Nodes, NEW i \in DOMAIN wire'[n]
  PROVE  \/ \E j \in DOMAIN wire[n] : wire'[n][i] = wire[n][j]
         \/ \E c \in Conns : SendInitiator(c) /\ wire'[n][i].with = handler[c].responder
<1> DEFINE M == [code : PairingIds, with : Calls]
<1>0. wire[n] \in Seq(M) /\ wire \in [Nodes -> Seq(M)]
  BY DEF TypeOK
<1>1. ASSUME NEW c \in Conns, SendInitiator(c), wire' # wire
      PROVE  \/ \E j \in DOMAIN wire[n] : wire'[n][i] = wire[n][j]
             \/ wire'[n][i].with = handler[c].responder
  <2> DEFINE msg == [code |-> Code[handler[c].responder], with |-> handler[c].responder]
  <2>1. msg \in M /\ msg.with = handler[c].responder
    BY <1>1, Fields, Constants DEF SendInitiator, Working, TypeOK
  <2>2. wire'[n] = wire[n] \/ wire'[n] = Append(wire[n], msg)
    BY <1>1 DEF SendInitiator
  <2> HIDE DEF msg, M
  <2>3. CASE wire'[n] = wire[n]
    BY <2>3
  <2>4. CASE wire'[n] = Append(wire[n], msg)
    BY <1>0, <2>1, <2>4, Queues
  <2> QED BY <2>2, <2>3, <2>4
<1>2. ASSUME NEW m \in Nodes, RemotePairMatched(m) \/ Lose(m)
      PROVE  \E j \in DOMAIN wire[n] : wire'[n][i] = wire[n][j]
  <2>1. wire[m] # <<>> /\ wire' = [wire EXCEPT ![m] = Tail(wire[m])]
    BY <1>2 DEF RemotePairMatched, Lose
  <2> HIDE DEF M
  <2>2. CASE m # n
    BY <1>0, <2>1, <2>2
  <2>3. CASE m = n
    BY <1>0, <2>1, <2>3, Queues
  <2> QED BY <2>2, <2>3
<1>3. ASSUME NEW m \in Nodes, Stop(m)
      PROVE  \E j \in DOMAIN wire[n] : wire'[n][i] = wire[n][j]
  <2>1. wire'[n] = wire[n] \/ wire'[n] = <<>>
    BY <1>0, <1>3 DEF Stop
  <2> QED BY <2>1
<1>4. CASE UNCHANGED wire
  BY <1>4
<1> QED
  BY <1>1, <1>2, <1>3, <1>4
  DEF Next, vars, PairRefused, MatchLocal, StoreLocal, Age, SetGet, SetGetFails, Del,
      DropLocal, SendResponder, CloseConn, RemovePairingsByConn, ClearKeys,
      CleanupPairings, SendExpired, KeyExpires

\* Who tells an initiator: the goroutine of its partner, or a message.
LEMMA InitiatorTold ==
  ASSUME TypeOK, [Next]_vars, NEW j \in Calls, NEW k \in Calls,
         Matched("initiator", j) \in told'[k], Matched("initiator", j) \notin told[k]
  PROVE  \/ \E c \in Conns : SendInitiator(c) /\ j = handler[c].responder
         \/ \E n \in Nodes : RemotePairMatched(n) /\ j = Head(wire[n]).with
<1>1. ASSUME NEW i, NEW m, Tell(i, m) PROVE m = Matched("initiator", j)
  BY <1>1 DEF Tell, TypeOK
<1>2. \A is \in {"refused", "failed", "expired"} :
        [is |-> is] # Matched("initiator", j)
  BY DEF Matched
<1>3. \A i \in Calls : ~PairRefused(i)
  BY <1>1, <1>2 DEF PairRefused
<1>4. \A c \in Conns : ~SetGetFails(c)
  BY <1>1, <1>2 DEF SetGetFails
<1>5. \A c \in Conns : ~SendResponder(c)
  BY <1>1 DEF SendResponder, Matched
<1>6. \A n \in Nodes, i \in Calls : ~SendExpired(n, i)
  BY <1>1, <1>2 DEF SendExpired
<1>7. ASSUME NEW c \in Conns, SendInitiator(c) PROVE j = handler[c].responder
  <2>1. Tell(handler[c].initiator, Matched("initiator", handler[c].responder))
    BY <1>7 DEF SendInitiator
  <2>2. Matched("initiator", handler[c].responder) = Matched("initiator", j)
    BY <1>1, <2>1
  <2> QED BY <2>2 DEF Matched
<1>8. ASSUME NEW n \in Nodes, RemotePairMatched(n) PROVE j = Head(wire[n]).with
  <2>1. Tell(local[n][Head(wire[n]).code], Matched("initiator", Head(wire[n]).with))
    BY <1>8 DEF RemotePairMatched
  <2>2. Matched("initiator", Head(wire[n]).with) = Matched("initiator", j)
    BY <1>1, <2>1
  <2> QED BY <2>2 DEF Matched
<1> QED
  BY <1>3, <1>4, <1>5, <1>6, <1>7, <1>8
  DEF Next, vars, MatchLocal, StoreLocal, Age, SetGet, Del, DropLocal, CloseConn,
      RemovePairingsByConn, ClearKeys, Lose, CleanupPairings, Stop, KeyExpires

\* The responder is told after the initiator, by the same goroutine.
LEMMA AnnouncedStep ==
  ASSUME TypeOK, Owned, Announced, [Next]_vars PROVE Announced'
<1>1. ASSUME NEW n \in Nodes, NEW i \in DOMAIN wire[n], NEW j, j = wire[n][i].with
      PROVE  Partnered(j)'
  <2>1. wire[n] \in Seq([code : PairingIds, with : Calls])
    BY DEF TypeOK
  <2>2. wire[n][i] \in [code : PairingIds, with : Calls]
    BY <2>1, Queues
  <2>3. j \in Calls /\ Partnered(j)
    BY <1>1, <2>2 DEF Announced
  <2> QED BY <2>3, PartneredStays
<1>2. ASSUME NEW n \in Nodes, NEW i \in DOMAIN wire'[n], NEW j, j = wire'[n][i].with
      PROVE  Partnered(j)'
  <2>1. ASSUME NEW l \in DOMAIN wire[n], wire'[n][i] = wire[n][l] PROVE Partnered(j)'
    BY <1>1, <1>2, <2>1
  <2>2. ASSUME NEW c \in Conns, SendInitiator(c), wire'[n][i].with = handler[c].responder
        PROVE  Partnered(j)'
    BY <1>2, <2>2, SenderPartnered
  <2> QED BY <2>1, <2>2, WireStep
<1>3. ASSUME NEW j \in Calls, NEW k \in Calls, Matched("initiator", j) \in told'[k]
      PROVE  Partnered(j)'
  <2>1. CASE Matched("initiator", j) \in told[k]
    BY <2>1, PartneredStays DEF Announced
  <2>2. ASSUME NEW c \in Conns, SendInitiator(c), j = handler[c].responder
        PROVE  Partnered(j)'
    BY <2>2, SenderPartnered
  <2>3. ASSUME NEW n \in Nodes, RemotePairMatched(n), j = Head(wire[n]).with
        PROVE  Partnered(j)'
    <3>1. wire[n] # <<>> /\ wire[n] \in Seq([code : PairingIds, with : Calls])
      BY <2>3 DEF RemotePairMatched, TypeOK
    <3>2. PICK i \in DOMAIN wire[n] : Head(wire[n]) = wire[n][i]
      BY <3>1, Queues
    <3> QED BY <1>1, <2>3, <3>2
  <2> QED BY <1>3, <2>1, <2>2, <2>3, InitiatorTold
<1> QED BY <1>2, <1>3 DEF Announced, Matched

\* The first half comes before the second.
LEMMA HalfToldStep ==
  ASSUME TypeOK, HalfTold, [Next]_vars PROVE HalfTold'
<1> SUFFICES ASSUME NEW c \in Conns, handler'[c].at = "halfway",
                    Home(handler'[c].initiator) = Node[c]
             PROVE  told'[handler'[c].initiator] # {}
  BY DEF HalfTold, Home
<1>1. CASE handler'[c] = handler[c]
  <2>1. handler[c].initiator \in Calls /\ told[handler[c].initiator] # {}
    BY <1>1, Fields DEF TypeOK, Working, HalfTold
  <2> QED BY <1>1, <2>1, ToldGrows
<1>2. CASE SendInitiator(c)
  <2>1. /\ handler'[c].initiator = handler[c].initiator
        /\ handler[c].initiator \in Calls
    BY <1>2, Fields DEF SendInitiator, Working, TypeOK
  <2> QED BY <1>2, <2>1 DEF SendInitiator, Tell, TypeOK
<1>3. ASSUME NEW d \in Conns, Del(d) \/ DropLocal(d)
      PROVE  handler'[c] = handler[c] \/ SendInitiator(c)
  BY <1>3, WorkMoves
<1>4. ASSUME NEW d \in Conns, SendInitiator(d) PROVE handler'[c] = handler[c] \/ d = c
  BY <1>4 DEF SendInitiator
<1>5. ASSUME NEW d \in Conns,
             SetGet(d) \/ SetGetFails(d) \/ SendResponder(d) \/ CloseConn(d)
               \/ RemovePairingsByConn(d) \/ ClearKeys(d)
      PROVE  handler'[c] = handler[c]
  BY <1>5
  DEF SetGet, SetGetFails, SendResponder, CloseConn, RemovePairingsByConn, ClearKeys,
      Goto, At, TypeOK
<1>6. ASSUME NEW k \in Calls, MatchLocal(k) \/ StoreLocal(k)
      PROVE  handler'[c] = handler[c]
  BY <1>6 DEF MatchLocal, StoreLocal, Goto, TypeOK
<1>7. ASSUME NEW n \in Nodes, Stop(n) PROVE handler'[c] = handler[c]
  BY <1>7 DEF Stop, At
<1> QED
  BY <1>1, <1>2, <1>3, <1>4, <1>5, <1>6, <1>7
  DEF Next, vars, PairRefused, Age, RemotePairMatched, Lose, CleanupPairings,
      SendExpired, KeyExpires

\* A connection goes by RemovePairingsByConn, or with its server.
LEMMA Leaves ==
  ASSUME TypeOK, [Next]_vars, NEW c \in Conns
  PROVE  /\ handler[c].at \in {"clearing", "closed"} =>
              handler'[c].at \in {"clearing", "closed"}
         /\ handler'[c].at \in {"clearing", "closed"} =>
              \/ handler[c].at \in {"clearing", "closed"}
              \/ RemovePairingsByConn(c)
              \/ Stop(Node[c])
<1> DEFINE Gone == {"clearing", "closed"}
           Goal == /\ handler[c].at \in Gone => handler'[c].at \in Gone
                   /\ handler'[c].at \in Gone =>
                        \/ handler[c].at \in Gone
                        \/ RemovePairingsByConn(c)
                        \/ Stop(Node[c])
<1>1. CASE handler'[c] = handler[c]
  BY <1>1
<1>2. ASSUME NEW k \in Calls, MatchLocal(k) \/ StoreLocal(k) PROVE Goal
  BY <1>2 DEF MatchLocal, StoreLocal, Goto, Reading, TypeOK
<1>3. ASSUME NEW d \in Conns,
             SetGet(d) \/ SetGetFails(d) \/ SendResponder(d) \/ CloseConn(d)
      PROVE  Goal
  BY <1>3, SMTT(30)
  DEF SetGet, SetGetFails, SendResponder, CloseConn, Goto, At, Reading, TypeOK
<1>4. ASSUME NEW d \in Conns, ClearKeys(d) PROVE Goal
  BY <1>4 DEF ClearKeys, Goto, At, TypeOK
<1>5. ASSUME NEW d \in Conns, RemovePairingsByConn(d) PROVE Goal
  <2>1. CASE d = c
    <3>1. \/ handler' = [handler EXCEPT ![c] = At("closed")]
          \/ handler' = [handler EXCEPT ![c] = [at |-> "clearing", codes |-> CodesOf(c)]]
      BY <1>5, <2>1 DEF RemovePairingsByConn, Goto
    <3>2. handler'[c].at \in Gone
      BY <3>1 DEF At, TypeOK
    <3> QED BY <1>5, <2>1, <3>2
  <2>2. CASE d # c
    <3>1. handler'[c] = handler[c]
      BY <1>5, <2>2 DEF RemovePairingsByConn, Goto, TypeOK
    <3> QED BY <3>1
  <2> QED BY <2>1, <2>2
<1>6. ASSUME NEW d \in Conns, Del(d) \/ DropLocal(d) \/ SendInitiator(d) PROVE Goal
  BY <1>6, WorkMoves DEF Working
<1>7. ASSUME NEW n \in Nodes, Stop(n) PROVE Goal
  BY <1>7 DEF Stop, At, TypeOK
<1> QED
  BY <1>1, <1>2, <1>3, <1>4, <1>5, <1>6, <1>7
  DEF Next, vars, PairRefused, Age, RemotePairMatched, Lose, CleanupPairings,
      SendExpired, KeyExpires

\* Only a goroutine that reads makes an entry; it takes away its own.
LEMMA ClosedStep ==
  ASSUME TypeOK, ClosedLeavesNoEntry, [Next]_vars PROVE ClosedLeavesNoEntry'
<1> SUFFICES ASSUME NEW k \in Waiting' PROVE handler'[Caller[k]].at \notin {"clearing", "closed"}
  BY DEF ClosedLeavesNoEntry
<1> DEFINE c == Caller[k]
<1>1. /\ k \in Calls /\ c \in Conns /\ Home(k) = Node[c] /\ Node[c] \in Nodes
      /\ Code[k] \in PairingIds /\ k # NoCall /\ local'[Node[c]][Code[k]] = k
  <2>1. TypeOK'
    BY TypeStep
  <2>2. k \in Calls
    BY <2>1 DEF TypeOK, Waiting
  <2>3. \E n \in Nodes, p \in PairingIds : k = local'[n][p] /\ local'[n][p] # NoCall
    BY DEF Waiting
  <2> QED BY <2>1, <2>2, <2>3, Constants DEF TypeOK, Home
<1>2. ASSUME NEW j \in Calls, StoreLocal(j)
      PROVE  handler'[c].at \notin {"clearing", "closed"}
  <2>1. CASE Caller[j] = c
    BY <1>1, <1>2, <2>1 DEF StoreLocal, Goto, TypeOK
  <2>2. CASE Caller[j] # c
    <3>1. handler'[c] = handler[c] /\ k # j
      BY <1>2, <2>2 DEF StoreLocal, Goto
    <3>2. local[Node[c]][Code[k]] = k
      BY <1>1, <1>2, <3>1, Constants DEF StoreLocal, SetLocal, TypeOK
    <3>3. k \in Waiting
      BY <1>1, <3>2 DEF Waiting
    <3> QED BY <3>1, <3>3 DEF ClosedLeavesNoEntry
  <2> QED BY <2>1, <2>2
<1>3. ASSUME local'[Node[c]][Code[k]] \in {local[Node[c]][Code[k]], NoCall}
      PROVE  handler'[c].at \notin {"clearing", "closed"}
  <2>1. k \in Waiting
    BY <1>1, <1>3 DEF Waiting
  <2>2. ~RemovePairingsByConn(c)
    <3>1. ASSUME RemovePairingsByConn(c) PROVE local'[Node[c]][Code[k]] = NoCall
      <4>1. Code[k] \in CodesOf(c)
        BY <1>1, <1>3 DEF CodesOf
      <4> QED BY <1>1, <3>1, <4>1 DEF RemovePairingsByConn, TypeOK
    <3> QED BY <1>1, <3>1
  <2>3. ~Stop(Node[c])
    <3>1. ASSUME Stop(Node[c]) PROVE local'[Node[c]][Code[k]] = NoCall
      BY <1>1, <3>1 DEF Stop, TypeOK
    <3> QED BY <1>1, <3>1
  <2> QED BY <1>1, <2>1, <2>2, <2>3, Leaves DEF ClosedLeavesNoEntry
<1> QED BY <1>1, <1>2, <1>3, EntriesGo

\* How an entry goes.
LEMMA Removed ==
  ASSUME TypeOK, [Next]_vars, NEW k \in Waiting, k \notin Waiting'
  PROVE  \/ \E j \in Calls : MatchLocal(j) /\ k = local[Home(j)][Code[j]]
         \/ \E c \in Conns : DropLocal(c) /\ k = local[Node[c]][Code[handler[c].responder]]
         \/ \E n \in Nodes : RemotePairMatched(n) /\ k = local[n][Head(wire[n]).code]
         \/ CleanupPairings(Home(k)) /\ k \in expiring'[Home(k)]
         \/ RemovePairingsByConn(Caller[k])
         \/ Stop(Home(k))
<1> DEFINE n == Home(k)
           p == Code[k]
<1>0. /\ k \in Calls /\ n \in Nodes /\ p \in PairingIds /\ local[n][p] = k /\ k # NoCall
      /\ Caller[k] \in Conns /\ Node[Caller[k]] = n
  BY WaitingIs, Constants
<1>1. local'[n][p] # k
  BY <1>0 DEF Waiting
<1>2. ASSUME NEW m \in Nodes, NEW q \in PairingIds, SetLocal(m, q, NoCall)
      PROVE  k = local[m][q]
  BY <1>0, <1>1, <1>2 DEF SetLocal, TypeOK
<1>3. ASSUME NEW j \in Calls, MatchLocal(j) PROVE k = local[Home(j)][Code[j]]
  BY <1>2, <1>3, Constants DEF MatchLocal
<1>4. ASSUME NEW c \in Conns, DropLocal(c)
      PROVE  k = local[Node[c]][Code[handler[c].responder]]
  <2>1. handler[c].responder \in Calls
    BY <1>4, Fields DEF DropLocal, Working, TypeOK
  <2> QED BY <1>2, <1>4, <2>1, Constants DEF DropLocal
<1>5. ASSUME NEW m \in Nodes, RemotePairMatched(m) PROVE k = local[m][Head(wire[m]).code]
  <2>1. wire[m] # <<>> /\ wire[m] \in Seq([code : PairingIds, with : Calls])
    BY <1>5 DEF RemotePairMatched, TypeOK
  <2>2. Head(wire[m]) \in [code : PairingIds, with : Calls]
    BY <2>1, Queues
  <2>3. Head(wire[m]).code \in PairingIds
    BY <2>2
  <2>4. local' = local \/ SetLocal(m, Head(wire[m]).code, NoCall)
    BY <1>5 DEF RemotePairMatched
  <2> QED BY <1>0, <1>1, <1>2, <2>3, <2>4
<1>6. ASSUME NEW m \in Nodes, CleanupPairings(m)
      PROVE  m = n /\ k \in expiring'[n]
  <2> DEFINE late == {local[m][q] : q \in PairingIds} \cap overdue
  <2>1. /\ local' = [local EXCEPT ![m] = [q \in PairingIds |->
                       IF local[m][q] \in late THEN NoCall ELSE local[m][q]]]
        /\ expiring' = [expiring EXCEPT ![m] = late]
    BY <1>6 DEF CleanupPairings
  <2> HIDE DEF late
  <2>2. m = n
    BY <1>0, <1>1, <2>1 DEF TypeOK
  <2>3. local[n][p] \in late
    BY <1>0, <1>1, <2>1, <2>2 DEF TypeOK
  <2>4. expiring'[n] = late
    BY <1>0, <2>1, <2>2 DEF TypeOK
  <2> QED BY <1>0, <2>2, <2>3, <2>4
<1>7. ASSUME NEW c \in Conns, RemovePairingsByConn(c) PROVE c = Caller[k]
  <2>1. p \in CodesOf(c) /\ Node[c] = n
    <3>1. local' = [local EXCEPT ![Node[c]] = [q \in PairingIds |->
                      IF q \in CodesOf(c) THEN NoCall ELSE local[Node[c]][q]]]
      BY <1>7 DEF RemovePairingsByConn
    <3> QED BY <1>0, <1>1, <3>1, Constants DEF TypeOK
  <2> QED BY <1>0, <2>1 DEF CodesOf
<1>8. ASSUME NEW m \in Nodes, Stop(m) PROVE m = n
  BY <1>0, <1>1, <1>8 DEF Stop, TypeOK
<1>9. ASSUME NEW j \in Calls, StoreLocal(j) PROVE FALSE
  <2>1. local[Home(j)][Code[j]] # k
    BY <1>0, <1>9 DEF StoreLocal
  <2>2. local'[n][p] = local[n][p]
    BY <1>0, <1>9, <2>1 DEF StoreLocal, SetLocal, TypeOK
  <2> QED BY <1>0, <1>1, <2>2
<1>10. local' # local
  BY <1>0, <1>1
<1> QED
  BY <1>3, <1>4, <1>5, <1>6, <1>7, <1>8, <1>9, <1>10
  DEF Next, vars, PairRefused, Age, SetGet, SetGetFails, Del, SendInitiator,
      SendResponder, CloseConn, ClearKeys, Lose, SendExpired, KeyExpires

\* How a goroutine ends its work.
LEMMA WorkEnds ==
  ASSUME TypeOK, [Next]_vars, NEW c \in Conns, handler[c].at \in Working
  PROVE  \/ handler'[c] = handler[c] \/ Onward(c)
         \/ DropLocal(c) /\ Home(handler[c].initiator) = Node[c]
         \/ SendResponder(c)
         \/ Stop(Node[c])
<1> USE DEF TypeOK
<1>0. handler[c].at \notin {"reading", "storing", "closing", "clearing"}
  BY DEF Working
<1>1. ASSUME NEW k \in Calls, MatchLocal(k) \/ StoreLocal(k)
      PROVE  handler'[c] = handler[c]
  BY <1>0, <1>1 DEF MatchLocal, StoreLocal, Goto, Reading
<1>2. ASSUME NEW d \in Conns,
             SetGet(d) \/ SetGetFails(d) \/ CloseConn(d) \/ RemovePairingsByConn(d)
               \/ ClearKeys(d)
      PROVE  handler'[c] = handler[c]
  BY <1>0, <1>2
  DEF SetGet, SetGetFails, CloseConn, RemovePairingsByConn, ClearKeys, Goto, Reading
<1>3. ASSUME NEW d \in Conns, Del(d) \/ DropLocal(d) \/ SendInitiator(d), d # c
      PROVE  handler'[c] = handler[c]
  BY <1>3, WorkMoves
<1>4. CASE Del(c) \/ SendInitiator(c)
  <2>1. ~(SetGet(c) \/ \E k \in Calls : Caller[k] = c /\ (MatchLocal(k) \/ StoreLocal(k)))
    BY DEF SetGet, MatchLocal, StoreLocal, Reading, Working
  <2>2. handler'[c].at \notin Idle
    <3>1. \/ handler' = [handler EXCEPT ![c] = [handler[c] EXCEPT !.at = "halfway"]]
          \/ handler' = [handler EXCEPT ![c] = [handler[c] EXCEPT !.at = "dropping"]]
          \/ handler' = [handler EXCEPT ![c] = [handler[c] EXCEPT !.at = "matched"]]
      BY <1>4 DEF Del, SendInitiator
    <3>2. ASSUME NEW loc \in {"halfway", "dropping", "matched"},
                 handler' = [handler EXCEPT ![c] = [handler[c] EXCEPT !.at = loc]]
          PROVE  handler'[c].at = loc
      <4>1. handler'[c] = [at |-> loc, initiator |-> handler[c].initiator,
                           responder |-> handler[c].responder]
        BY <3>2, Fields DEF TypeOK
      <4> QED BY <4>1
    <3> QED BY <3>1, <3>2 DEF Idle
  <2> QED BY <2>1, <2>2, Moves
<1>5. CASE DropLocal(c) /\ Home(handler[c].initiator) # Node[c]
  <2>1. handler'[c] = [handler[c] EXCEPT !.at = "matched"]
    BY <1>5 DEF DropLocal, TypeOK
  <2>2. handler'[c] = [at |-> "matched", initiator |-> handler[c].initiator,
                       responder |-> handler[c].responder]
    BY <2>1, Fields DEF TypeOK
  <2> QED BY <2>2 DEF Onward, Working
<1>6. ASSUME NEW d \in Conns, SendResponder(d), d # c PROVE handler'[c] = handler[c]
  BY <1>6 DEF SendResponder, Goto
<1>7. ASSUME NEW n \in Nodes, Stop(n) PROVE handler'[c] = handler[c] \/ Stop(Node[c])
  BY <1>7 DEF Stop
<1> QED
  BY <1>1, <1>2, <1>3, <1>4, <1>5, <1>6, <1>7
  DEF Next, vars, PairRefused, Age, RemotePairMatched, Lose, CleanupPairings,
      SendExpired, KeyExpires

\* What a goroutine has of k is passed on, or k is answered, or has a twin.
LEMMA WorkKept ==
  ASSUME TypeOK, Owned, HalfTold, [Next]_vars, NEW k \in Calls, NEW c \in Conns,
         handler[c].at \in Working,
         \/ handler[c].responder = k
         \/ handler[c].initiator = k /\ Home(k) = Node[c]
  PROVE  \/ told'[k] # {} \/ handler'[Caller[k]].at \in {"clearing", "closed"}
         \/ Kept(k)' \/ Twin(k)
<1> DEFINE i == handler[c].initiator
           j == handler[c].responder
<1>0. /\ i \in Calls /\ j \in Calls /\ i # j /\ Code[i] = Code[j] /\ Caller[j] = c
      /\ Home(j) = Node[c] /\ Home(k) = Node[c] /\ Home(k) = Node[Caller[k]]
      /\ Caller[k] \in Conns
  BY Fields, Constants DEF TypeOK, Owned, Home
<1>1. CASE handler'[c] = handler[c]
  BY <1>1 DEF Kept, Home
<1>2. CASE Onward(c)
  BY <1>2 DEF Onward, Kept, Home
<1>3. CASE Home(i) = Node[c]
  <2>1. Twin(i) /\ Twin(j)
    BY <1>0, <1>3 DEF Twin
  <2> QED BY <2>1
<1>4. CASE SendResponder(c)
  <2>1. CASE k = j
    BY <1>0, <1>4, <2>1 DEF SendResponder, Tell, TypeOK
  <2>2. CASE k # j
    BY <1>0, <1>3, <2>2
  <2> QED BY <2>1, <2>2
<1>5. CASE Stop(Node[c])
  BY <1>0, <1>5 DEF Stop, At
<1> QED BY <1>1, <1>2, <1>3, <1>4, <1>5, WorkEnds

\* Whoever takes a request away answers it, or hands it on.
LEMMA NotLostStep ==
  ASSUME TypeOK, Owned, HalfTold, NotLost, [Next]_vars PROVE NotLost'
<1> SUFFICES ASSUME NEW k \in sent'
             PROVE  \/ told'[k] # {} \/ handler'[Caller[k]].at \in {"clearing", "closed"}
                    \/ Kept(k)' \/ Twin(k)
  BY DEF NotLost, Twin, Home
<1>0. k \in Calls /\ Caller[k] \in Conns /\ Home(k) \in Nodes /\ Home(k) = Node[Caller[k]]
      /\ Code[k] \in PairingIds /\ k # NoCall
  <2>1. k \in Calls
    BY TypeStep DEF TypeOK
  <2> QED BY <2>1, Constants
\* A new request.
<1>1. ASSUME PairRefused(k) PROVE told'[k] # {}
  BY <1>0, <1>1 DEF PairRefused, Tell, TypeOK
<1>2. ASSUME MatchLocal(k) PROVE Kept(k)'
  <2>1. handler'[Caller[k]] = [at |-> "deleting", responder |-> k,
                               initiator |-> local[Home(k)][Code[k]]]
    BY <1>0, <1>2 DEF MatchLocal, Goto, TypeOK
  <2> QED BY <1>0, <2>1 DEF Kept, Working
<1>3. ASSUME StoreLocal(k) PROVE Kept(k)'
  <2>1. local'[Home(k)][Code[k]] = k
    BY <1>0, <1>3 DEF StoreLocal, SetLocal, TypeOK
  <2> QED BY <1>0, <2>1 DEF Kept, Waiting
<1>4. k \in sent \/ PairRefused(k) \/ MatchLocal(k) \/ StoreLocal(k)
  BY ZenonT(30) DEF Next, vars, PairRefused, MatchLocal, StoreLocal, Age, SetGet, SetGetFails, Del,
         DropLocal, SendInitiator, SendResponder, CloseConn, RemovePairingsByConn,
         ClearKeys, RemotePairMatched, Lose, CleanupPairings, Stop, SendExpired,
         KeyExpires
\* An entry of k.
<1>5. ASSUME k \in Waiting, k \notin Waiting'
      PROVE  \/ told'[k] # {} \/ handler'[Caller[k]].at \in {"clearing", "closed"}
             \/ Kept(k)' \/ Twin(k)
  <2>1. ASSUME NEW j \in Calls, MatchLocal(j), k = local[Home(j)][Code[j]]
        PROVE  Kept(k)'
    <3>1. Home(k) = Home(j) /\ Home(j) = Node[Caller[j]] /\ Caller[j] \in Conns
      BY <1>0, <2>1, Constants DEF TypeOK
    <3>2. handler'[Caller[j]] = [at |-> "deleting", initiator |-> k, responder |-> j]
      BY <2>1, <3>1 DEF MatchLocal, Goto, TypeOK
    <3> QED BY <3>1, <3>2 DEF Kept, Working, Home
  <2>2. ASSUME NEW c \in Conns, DropLocal(c), k = local[Node[c]][Code[handler[c].responder]]
        PROVE  Twin(k) \/ (handler[c].at \in Working /\ handler[c].responder = k)
    <3>1. handler[c].at \in Working /\ handler[c].responder \in Calls
          /\ Caller[handler[c].responder] = c
      BY <2>2, Fields DEF DropLocal, Working, TypeOK, Owned
    <3>2. Home(handler[c].responder) = Node[c]
          /\ Code[handler[c].responder] \in PairingIds /\ Node[c] \in Nodes
      BY <3>1, Constants
    <3>3. Home(k) = Node[c] /\ Code[k] = Code[handler[c].responder]
      BY <1>0, <2>2, <3>2 DEF TypeOK
    <3> QED BY <3>1, <3>2, <3>3 DEF Twin
  <2>3. ASSUME NEW n \in Nodes, RemotePairMatched(n), k = local[n][Head(wire[n]).code]
        PROVE  told'[k] # {}
    <3>1. Tell(k, Matched("initiator", Head(wire[n]).with))
      BY <1>0, <2>3 DEF RemotePairMatched
    <3> QED BY <1>0, <3>1 DEF Tell, TypeOK
  <2>4. ASSUME k \in expiring'[Home(k)] PROVE Kept(k)'
    BY <2>4 DEF Kept, Home
  <2>5. ASSUME RemovePairingsByConn(Caller[k])
        PROVE  handler'[Caller[k]].at \in {"clearing", "closed"}
    <3>1. handler'[Caller[k]] \in {At("closed"), [at |-> "clearing", codes |-> CodesOf(Caller[k])]}
      BY <1>0, <2>5 DEF RemovePairingsByConn, Goto, TypeOK
    <3> QED BY <3>1 DEF At
  <2>6. ASSUME Stop(Home(k)) PROVE handler'[Caller[k]].at \in {"clearing", "closed"}
    BY <1>0, <2>6 DEF Stop, At
  <2> QED BY <1>0, <1>5, <2>1, <2>2, <2>3, <2>4, <2>5, <2>6, Removed, WorkKept
\* A request that is to be told that it expired.
<1>6. ASSUME k \in expiring[Home(k)], k \notin expiring'[Home(k)]
      PROVE  told'[k] # {} \/ handler'[Caller[k]].at \in {"clearing", "closed"}
  <2>1. ASSUME NEW n \in Nodes, NEW j \in Calls, SendExpired(n, j) PROVE told'[k] # {}
    <3>1. j = k
      BY <1>0, <1>6, <2>1 DEF SendExpired, TypeOK
    <3> QED BY <1>0, <2>1, <3>1 DEF SendExpired, Tell, TypeOK
  <2>2. ASSUME NEW n \in Nodes, Stop(n)
        PROVE  handler'[Caller[k]].at \in {"clearing", "closed"}
    <3>1. n = Home(k)
      BY <1>0, <1>6, <2>2 DEF Stop, TypeOK
    <3> QED BY <1>0, <2>2, <3>1 DEF Stop, At
  <2>3. \A n \in Nodes : ~CleanupPairings(n)
    BY <1>0, <1>6 DEF CleanupPairings, TypeOK
  <2> QED
    BY <1>6, <2>1, <2>2, <2>3
    DEF Next, vars, PairRefused, MatchLocal, StoreLocal, Age, SetGet, SetGetFails, Del,
        DropLocal, SendInitiator, SendResponder, CloseConn, RemovePairingsByConn,
        ClearKeys, RemotePairMatched, Lose, KeyExpires
<1>7. ASSUME Kept(k)
      PROVE  \/ told'[k] # {} \/ handler'[Caller[k]].at \in {"clearing", "closed"}
             \/ Kept(k)' \/ Twin(k)
  <2>1. k \in Waiting' \/ k \in expiring'[Home(k)] => Kept(k)'
    BY DEF Kept, Home
  <2> QED BY <1>0, <1>5, <1>6, <1>7, <2>1, WorkKept DEF Kept
<1>8. ASSUME k \in sent
      PROVE  \/ told'[k] # {} \/ handler'[Caller[k]].at \in {"clearing", "closed"}
             \/ Kept(k)' \/ Twin(k)
  BY <1>0, <1>7, <1>8, ToldGrows, Leaves DEF NotLost
<1> QED BY <1>1, <1>2, <1>3, <1>4, <1>8

-----------------------------------------------------------------------------
(* The theorems                                                             *)

LEMMA RInvInit == Init => RInv
<1> SUFFICES ASSUME Init PROVE RInv
  OBVIOUS
<1> USE DEF Init
<1>1. \A c \in Conns : handler[c].at = "reading"
  BY DEF At
<1>2. Waiting = {}
  BY DEF Waiting
<1>3. TypeOK
  <2>1. At("reading") \in Handler
    BY Places
  <2>2. <<>> \in Seq([code : PairingIds, with : Calls])
    BY Queues
  <2> QED BY <2>1, <2>2 DEF TypeOK
<1>4. Owned /\ HalfTold
  BY <1>1 DEF Owned, HalfTold, Working
<1>5. Stored /\ NotLost /\ ClosedLeavesNoEntry
  BY <1>2 DEF Stored, NotLost, ClosedLeavesNoEntry
<1>6. HandOut
  <2>1. \A i, k \in Calls : ~Took(i, k)
    BY <1>1 DEF Took, Works, Working
  <2>2. \A k \in Calls : redis[Code[k]] # k
    BY Constants
  <2> QED BY <2>1, <2>2 DEF HandOut
<1>7. Announced
  BY DEF Announced
<1> QED BY <1>3, <1>4, <1>5, <1>6, <1>7 DEF RInv

\* The invariant holds initially and every step of every goroutine, server and
\* message keeps it.
THEOREM RedisInductive == Spec => []RInv
<1>1. RInv /\ [Next]_vars => RInv'
  BY TypeStep, OwnedStep, StoredStep, HandOutStep, AnnouncedStep, HalfToldStep,
     ClosedStep, NotLostStep DEF RInv
<1> QED BY RInvInit, <1>1, PTL DEF Spec

\* Every variable keeps its shape, and a local entry is on the server of its
\* connection under its own code.
THEOREM RedisTypeCorrect == Spec => []TypeOK
<1>1. RInv => TypeOK
  BY DEF RInv
<1> QED BY <1>1, RedisInductive, PTL

\* SET ... GET in StorePairing gives the data of a waiting call to one server,
\* with any number of servers and calls, whatever is lost or fails.
THEOREM RedisHandsOutOnce == Spec => []HandedOutOnce
<1>1. RInv => HandedOutOnce
  <2> SUFFICES ASSUME RInv, NEW i \in Calls, NEW j \in Calls, NEW k \in Calls, i # j,
                      Matched("responder", k) \in told[i] \cap told[j],
                      Home(k) \notin {Home(i), Home(j)}
               PROVE  FALSE
    BY DEF HandedOutOnce
  <2>1. Took(i, k) /\ Took(j, k)
    BY DEF Took
  <2> QED BY <2>1 DEF RInv, HandOut
<1> QED BY <1>1, RedisInductive, PTL

\* handlePair tells the initiator first, yet no initiator is left with a
\* partner that nobody tells, unless the partner's server is gone.
THEOREM RedisInitiatorsMatched == Spec => []InitiatorsHaveAMatch
<1>1. RInv => InitiatorsHaveAMatch
  BY DEF RInv, InitiatorsHaveAMatch, Announced, Partnered
<1> QED BY <1>1, RedisInductive, PTL

\* After RemovePairingsByConn of UnregisterConn no entry of the connection can
\* be made any more.
THEOREM RedisClosedLeavesNone == Spec => []ClosedLeavesNoEntry
<1>1. RInv => ClosedLeavesNoEntry
  BY DEF RInv
<1> QED BY <1>1, RedisInductive, PTL

\* A pair message that is the only one under its code on its server has been
\* answered, or is in a table or in the hands of a goroutine of its server.
THEOREM RedisLoneHeld == Spec => []LoneRequestsAreHeld
<1>1. RInv => LoneRequestsAreHeld
  <2> SUFFICES ASSUME RInv, NEW k \in Calls, Lost(k) PROVE Twin(k)
    BY DEF LoneRequestsAreHeld, Twin
  <2>1. ~Kept(k)
    BY DEF Lost, Held, Kept, Working
  <2> QED BY <2>1 DEF RInv, NotLost, Lost
<1> QED BY <1>1, RedisInductive, PTL
=============================================================================
