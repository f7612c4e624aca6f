---------------------------- MODULE PairingProofs ----------------------------
(***************************************************************************)
(* For any number of calls, codes and connections: the pairing phase of    *)
(* one server loses no request, pairs calls two and two, and implements    *)
(* Rendezvous.                                                             *)
(***************************************************************************)
EXTENDS Pairing, FiniteSetTheorems, TLAPS

-----------------------------------------------------------------------------
(* The inductive invariant: where a call can be, one place at a time        *)

Waits(k) == waitingPeers[Code[k]] = k
Holds(c) == handler[c].at \in {"matched", "halfway"}
HeldBy(c) == {handler[c].initiator, handler[c].responder}

TypeInv ==
  /\ waitingPeers \in [PairingIds -> Calls \cup {NoCall}]
  /\ overdue \subseteq Calls
  /\ handler \in [Conns -> Handler]
  /\ expiring \subseteq Calls
  /\ sent \subseteq Calls
  /\ told \in [Calls -> Told]

\* An entry is under its own code.
Filed ==
  \A p \in PairingIds : waitingPeers[p] # NoCall => Code[waitingPeers[p]] = p

\* A call is in the table, or to be told of its expiry, or neither; in either
\* place it has been sent and not been told anything.
Placed ==
  \A k \in Calls :
    /\ k \notin sent => told[k] = Nothing /\ ~Waits(k) /\ k \notin expiring
    /\ Waits(k) => /\ told[k] = Nothing /\ k \notin expiring
                   /\ handler[Caller[k]].at # "closed"
    /\ k \in expiring => told[k] = Nothing
    /\ k \in overdue => Waits(k)

\* The match that a goroutine has yet to tell of.
MatchOK(c) ==
  LET h == handler[c] IN
  /\ Caller[h.responder] = c
  /\ h.initiator # h.responder /\ Code[h.initiator] = Code[h.responder]
  /\ \A k \in HeldBy(c) : k \in sent /\ ~Waits(k) /\ k \notin expiring
  /\ told[h.responder] = Nothing
  /\ told[h.initiator] = IF h.at = "matched" THEN Nothing
                         ELSE Matched("initiator", h.responder)

Matches == \A c \in Conns : Holds(c) => MatchOK(c)

\* No two goroutines hold one call.
Apart ==
  \A c, d \in Conns : c # d /\ Holds(c) /\ Holds(d) => HeldBy(c) \cap HeldBy(d) = {}

\* What has been told of a match, by both halves or by the first alone.
Told1 ==
  \A j, k \in Calls :
    told[j] = Matched("initiator", k) =>
      /\ j # k /\ Code[j] = Code[k]
      /\ \/ told[k] = Matched("responder", j)
         \/ handler[Caller[k]] = [at |-> "halfway", initiator |-> j, responder |-> k]
Told2 ==
  \A j, k \in Calls :
    told[k] = Matched("responder", j) =>
      told[j] = Matched("initiator", k) /\ j # k /\ Code[j] = Code[k]

\* A call without an answer is somewhere, unless its connection has gone.
NotLost ==
  \A k \in sent : told[k] = Nothing =>
    \/ Waits(k) \/ k \in expiring \/ handler[Caller[k]].at = "closed"
    \/ \E c \in Conns : Holds(c) /\ k \in HeldBy(c)

IInv ==
  /\ TypeInv /\ Filed /\ Placed /\ Matches /\ Apart /\ Told1 /\ Told2 /\ NotLost

-----------------------------------------------------------------------------
LEMMA InitInv == Init => IInv
BY CallsAssumption
   DEF Init, IInv, TypeInv, Filed, Placed, Matches, MatchOK, Apart, Told1, Told2,
       NotLost, Waits, Holds, HeldBy, At, Handler, Told, Nothing, Matched

\* Facts about the types that every step needs.
LEMMA Types ==
  ASSUME TypeInv
  PROVE  /\ \A k \in Calls : Caller[k] \in Conns /\ Code[k] \in PairingIds
         /\ \A c \in Conns : Holds(c) =>
              /\ handler[c].initiator \in Calls /\ handler[c].responder \in Calls
              /\ handler[c] = [at |-> handler[c].at, initiator |-> handler[c].initiator,
                               responder |-> handler[c].responder]
         /\ \A k \in Calls : Waits(k) => k # NoCall
BY CallsAssumption DEF TypeInv, Holds, Handler, Waits

LEMMA PairRefusedKeeps == ASSUME IInv, NEW k \in Calls, PairRefused(k) PROVE IInv'
<1> USE CallsAssumption DEF IInv, PairRefused, Reading, At, Waits, Holds, HeldBy, MatchOK, Handler, Told, Nothing, Matched
<1>1. TypeInv'
  BY Types DEF TypeInv
<1>2. Filed'
  BY Types DEF TypeInv, Filed
<1>3. Placed'
  BY Types DEF TypeInv, Placed, Filed, Matches
<1>4. Matches'
  BY Types DEF TypeInv, Matches, Placed, Filed
<1>5. Apart'
  BY Types DEF TypeInv, Apart, Placed, Filed, Matches
<1>6. Told1'
  BY Types DEF TypeInv, Told1, Placed, Filed, Matches
<1>7. Told2'
  BY Types DEF TypeInv, Told2, Placed, Filed, Matches
<1>8. NotLost'
  BY Types DEF TypeInv, NotLost, Placed, Filed, Matches
<1> QED BY <1>1, <1>2, <1>3, <1>4, <1>5, <1>6, <1>7, <1>8

LEMMA PairWaitKeeps == ASSUME IInv, NEW k \in Calls, PairWait(k) PROVE IInv'
<1> USE CallsAssumption DEF IInv, PairWait, Reading, At, Waits, Holds, HeldBy, MatchOK, Handler, Told, Nothing, Matched
<1>1. TypeInv'
  BY Types DEF TypeInv
<1>2. Filed'
  BY Types DEF TypeInv, Filed
<1>3. Placed'
  BY Types DEF TypeInv, Placed, Filed, Matches
<1>4. Matches'
  BY Types DEF TypeInv, Matches, Placed, Filed
<1>5. Apart'
  BY Types DEF TypeInv, Apart, Placed, Filed, Matches
<1>6. Told1'
  BY Types DEF TypeInv, Told1, Placed, Filed, Matches
<1>7. Told2'
  BY Types DEF TypeInv, Told2, Placed, Filed, Matches
<1>8. NotLost'
  BY Types DEF TypeInv, NotLost, Placed, Filed, Matches
<1> QED BY <1>1, <1>2, <1>3, <1>4, <1>5, <1>6, <1>7, <1>8

LEMMA PairMatchKeeps == ASSUME IInv, NEW k \in Calls, PairMatch(k) PROVE IInv'
<1> USE CallsAssumption DEF IInv, PairMatch, Reading, At, Waits, Holds, HeldBy, MatchOK, Handler, Told, Nothing, Matched
<1>1. TypeInv'
  BY Types DEF TypeInv
<1>2. Filed'
  BY Types DEF TypeInv, Filed
<1>3. Placed'
  BY Types DEF TypeInv, Placed, Filed, Matches
<1>4. Matches'
  BY Types DEF TypeInv, Matches, Placed, Filed
<1>5. Apart'
  BY Types DEF TypeInv, Apart, Placed, Filed, Matches
<1>6. Told1'
  BY Types DEF TypeInv, Told1, Placed, Filed, Matches
<1>7. Told2'
  BY Types DEF TypeInv, Told2, Placed, Filed, Matches
<1>8. NotLost'
  BY Types DEF TypeInv, NotLost, Placed, Filed, Matches
<1> QED BY <1>1, <1>2, <1>3, <1>4, <1>5, <1>6, <1>7, <1>8

LEMMA SendInitiatorKeeps == ASSUME IInv, NEW c \in Conns, SendInitiator(c) PROVE IInv'
<1> USE CallsAssumption DEF IInv, SendInitiator, Reading, At, Waits, Holds, HeldBy, MatchOK, Handler, Told, Nothing, Matched
<1>1. TypeInv'
  BY Types DEF TypeInv
<1>2. Filed'
  BY Types DEF TypeInv, Filed
<1>3. Placed'
  BY Types DEF TypeInv, Placed, Filed, Matches
<1>4. Matches'
  <2> SUFFICES ASSUME NEW d \in Conns, Holds(d)' PROVE MatchOK(d)'
    BY DEF Matches
  <2>1. CASE d = c
    BY <2>1, Types DEF TypeInv, Matches
  <2>2. CASE d # c
    <3>1. Holds(c) /\ Holds(d) /\ handler'[d] = handler[d]
      BY <2>2 DEF TypeInv
    <3>2. handler[c].initiator \notin HeldBy(d)
      BY <2>2, <3>1 DEF Apart
    <3>3. told'[handler[d].initiator] = told[handler[d].initiator]
          /\ told'[handler[d].responder] = told[handler[d].responder]
      BY <3>1, <3>2, Types DEF TypeInv
    <3>4. MatchOK(d) /\ waitingPeers' = waitingPeers /\ expiring' = expiring /\ sent' = sent
      BY <3>1 DEF Matches
    <3> QED BY ONLY <3>1, <3>3, <3>4 DEF MatchOK, HeldBy, Waits
  <2> QED BY <2>1, <2>2
<1>5. Apart'
  BY Types DEF TypeInv, Apart, Placed, Filed, Matches
<1>6. Told1'
  BY Types DEF TypeInv, Told1, Placed, Filed, Matches
<1>7. Told2'
  BY Types DEF TypeInv, Told2, Placed, Filed, Matches
<1>8. NotLost'
  BY Types DEF TypeInv, NotLost, Placed, Filed, Matches
<1> QED BY <1>1, <1>2, <1>3, <1>4, <1>5, <1>6, <1>7, <1>8

LEMMA SendResponderKeeps == ASSUME IInv, NEW c \in Conns, SendResponder(c) PROVE IInv'
<1> USE CallsAssumption DEF IInv, SendResponder, Reading, At, Waits, Holds, HeldBy, MatchOK, Handler, Told, Nothing, Matched
<1>1. TypeInv'
  BY Types DEF TypeInv
<1>2. Filed'
  BY Types DEF TypeInv, Filed
<1>3. Placed'
  <2>1. handler[c].responder \in Calls /\ handler[c].responder \in sent
        /\ ~Waits(handler[c].responder) /\ handler[c].responder \notin expiring
    BY Types DEF Matches
  <2> QED BY <2>1, Types DEF TypeInv, Placed
<1>4. Matches'
  <2> SUFFICES ASSUME NEW d \in Conns, Holds(d)' PROVE MatchOK(d)'
    BY DEF Matches
  <2>1. d # c /\ Holds(c) /\ Holds(d) /\ handler'[d] = handler[d]
    BY DEF TypeInv
  <2>2. handler[c].responder \notin HeldBy(d)
    BY <2>1 DEF Apart
  <2>3. told'[handler[d].initiator] = told[handler[d].initiator]
        /\ told'[handler[d].responder] = told[handler[d].responder]
    BY <2>1, <2>2, Types DEF TypeInv
  <2> QED BY <2>1, <2>3, SMTT(30) DEF Matches
<1>5. Apart'
  BY Types DEF TypeInv, Apart, Placed, Filed, Matches
<1>6. Told1'
  BY Types DEF TypeInv, Told1, Placed, Filed, Matches
<1>7. Told2'
  <2>1. told[handler[c].initiator] = Matched("initiator", handler[c].responder)
        /\ told[handler[c].responder] = Nothing
        /\ handler[c].initiator # handler[c].responder
        /\ Code[handler[c].initiator] = Code[handler[c].responder]
    BY DEF Matches
  <2> SUFFICES ASSUME NEW j \in Calls, NEW k \in Calls, told'[k] = Matched("responder", j)
               PROVE  told'[j] = Matched("initiator", k) /\ j # k /\ Code[j] = Code[k]
    BY DEF Told2
  <2>2. CASE k = handler[c].responder
    BY <2>1, <2>2, Types DEF TypeInv
  <2>3. CASE k # handler[c].responder
    BY <2>1, <2>3, Types DEF TypeInv, Told2
  <2> QED BY <2>2, <2>3
<1>8. NotLost'
  <2> SUFFICES ASSUME NEW k \in sent', told'[k] = Nothing
               PROVE  \/ Waits(k)' \/ k \in expiring' \/ handler'[Caller[k]].at = "closed"
                      \/ \E d \in Conns : Holds(d)' /\ k \in HeldBy(d)'
    BY DEF NotLost
  <2>1. k \in Calls /\ told[k] = Nothing /\ Caller[k] \in Conns
        /\ k # handler[c].responder
    BY Types DEF TypeInv
  <2>2. k # handler[c].initiator
    <3>1. Holds(c) /\ handler[c].at # "matched"
      OBVIOUS
    <3>2. told[handler[c].initiator].is = "initiator"
      <4>1. MatchOK(c)
        BY <3>1 DEF Matches
      <4>2. told[handler[c].initiator] = Matched("initiator", handler[c].responder)
        BY ONLY <3>1, <4>1 DEF MatchOK
      <4> QED BY ONLY <4>2 DEF Matched
    <3>3. told[k].is = "nothing"
      BY <2>1
    <3> QED BY <3>2, <3>3
  <2>3. CASE Waits(k) \/ k \in expiring
    BY <2>3
  <2>4. CASE handler[Caller[k]].at = "closed"
    BY <2>1, <2>4 DEF TypeInv
  <2>5. ASSUME NEW d \in Conns, Holds(d) /\ k \in HeldBy(d)
        PROVE  Holds(d)' /\ k \in HeldBy(d)'
    <3>1. d # c
      BY <2>1, <2>2, <2>5
    <3> QED BY <2>5, <3>1 DEF TypeInv
  <2> QED BY <2>1, <2>3, <2>4, <2>5 DEF NotLost
<1> QED BY <1>1, <1>2, <1>3, <1>4, <1>5, <1>6, <1>7, <1>8

LEMMA CloseConnKeeps == ASSUME IInv, NEW c \in Conns, CloseConn(c) PROVE IInv'
<1> USE CallsAssumption DEF IInv, CloseConn, Reading, At, Waits, Holds, HeldBy, MatchOK, Handler, Told, Nothing, Matched
<1>1. TypeInv'
  BY Types DEF TypeInv
<1>2. Filed'
  BY Types DEF TypeInv, Filed
<1>3. Placed'
  BY Types DEF TypeInv, Placed, Filed, Matches
<1>4. Matches'
  BY Types DEF TypeInv, Matches, Placed, Filed
<1>5. Apart'
  BY Types DEF TypeInv, Apart, Placed, Filed, Matches
<1>6. Told1'
  BY Types DEF TypeInv, Told1, Placed, Filed, Matches
<1>7. Told2'
  BY Types DEF TypeInv, Told2, Placed, Filed, Matches
<1>8. NotLost'
  BY Types DEF TypeInv, NotLost, Placed, Filed, Matches
<1> QED BY <1>1, <1>2, <1>3, <1>4, <1>5, <1>6, <1>7, <1>8

LEMMA UnregisterConnKeeps == ASSUME IInv, NEW c \in Conns, UnregisterConn(c) PROVE IInv'
<1> USE CallsAssumption DEF IInv, UnregisterConn, RemovePairingsByConn, Reading, At, Waits, Holds, HeldBy, MatchOK, Handler, Told, Nothing, Matched
<1>1. TypeInv'
  BY Types DEF TypeInv
<1>2. Filed'
  BY Types DEF TypeInv, Filed
<1>3. Placed'
  BY Types DEF TypeInv, Placed, Filed, Matches
<1>4. Matches'
  BY Types DEF TypeInv, Matches, Placed, Filed
<1>5. Apart'
  BY Types DEF TypeInv, Apart, Placed, Filed, Matches
<1>6. Told1'
  BY Types DEF TypeInv, Told1, Placed, Filed, Matches
<1>7. Told2'
  BY Types DEF TypeInv, Told2, Placed, Filed, Matches
<1>8. NotLost'
  BY Types DEF TypeInv, NotLost, Placed, Filed, Matches
<1> QED BY <1>1, <1>2, <1>3, <1>4, <1>5, <1>6, <1>7, <1>8

LEMMA AgeKeeps == ASSUME IInv, NEW k \in Calls, Age(k) PROVE IInv'
<1> USE CallsAssumption DEF IInv, Age, Waiting, Reading, At, Waits, Holds, HeldBy, MatchOK, Handler, Told, Nothing, Matched
<1>1. TypeInv'
  BY Types DEF TypeInv
<1>2. Filed'
  BY Types DEF TypeInv, Filed
<1>3. Placed'
  BY Types DEF TypeInv, Placed, Filed, Matches
<1>4. Matches'
  BY Types DEF TypeInv, Matches, Placed, Filed
<1>5. Apart'
  BY Types DEF TypeInv, Apart, Placed, Filed, Matches
<1>6. Told1'
  BY Types DEF TypeInv, Told1, Placed, Filed, Matches
<1>7. Told2'
  BY Types DEF TypeInv, Told2, Placed, Filed, Matches
<1>8. NotLost'
  BY Types DEF TypeInv, NotLost, Placed, Filed, Matches
<1> QED BY <1>1, <1>2, <1>3, <1>4, <1>5, <1>6, <1>7, <1>8

LEMMA CleanupPairingsKeeps == ASSUME IInv, CleanupPairings PROVE IInv'
<1> USE CallsAssumption DEF IInv, CleanupPairings, Reading, At, Waits, Holds, HeldBy, MatchOK, Handler, Told, Nothing, Matched
<1>1. TypeInv'
  BY Types DEF TypeInv
<1>2. Filed'
  BY Types DEF TypeInv, Filed
<1>3. Placed'
  BY Types DEF TypeInv, Placed, Filed, Matches
<1>4. Matches'
  BY Types DEF TypeInv, Matches, Placed, Filed
<1>5. Apart'
  BY Types DEF TypeInv, Apart, Placed, Filed, Matches
<1>6. Told1'
  BY Types DEF TypeInv, Told1, Placed, Filed, Matches
<1>7. Told2'
  BY Types DEF TypeInv, Told2, Placed, Filed, Matches
<1>8. NotLost'
  BY Types DEF TypeInv, NotLost, Placed, Filed, Matches
<1> QED BY <1>1, <1>2, <1>3, <1>4, <1>5, <1>6, <1>7, <1>8

LEMMA SendExpiredKeeps == ASSUME IInv, NEW k \in Calls, SendExpired(k) PROVE IInv'
<1> USE CallsAssumption DEF IInv, SendExpired, Reading, At, Waits, Holds, HeldBy, MatchOK, Handler, Told, Nothing, Matched
<1>1. TypeInv'
  BY Types DEF TypeInv
<1>2. Filed'
  BY Types DEF TypeInv, Filed
<1>3. Placed'
  BY Types DEF TypeInv, Placed, Filed, Matches
<1>4. Matches'
  BY Types DEF TypeInv, Matches, Placed, Filed
<1>5. Apart'
  BY Types DEF TypeInv, Apart, Placed, Filed, Matches
<1>6. Told1'
  BY Types DEF TypeInv, Told1, Placed, Filed, Matches
<1>7. Told2'
  BY Types DEF TypeInv, Told2, Placed, Filed, Matches
<1>8. NotLost'
  BY Types DEF TypeInv, NotLost, Placed, Filed, Matches
<1> QED BY <1>1, <1>2, <1>3, <1>4, <1>5, <1>6, <1>7, <1>8

-----------------------------------------------------------------------------
(* The invariant holds, and what follows from it *)

LEMMA StepInv == IInv /\ [Next]_vars => IInv'
<1> SUFFICES ASSUME IInv, [Next]_vars PROVE IInv'
  OBVIOUS
<1>1. CASE UNCHANGED vars
  BY <1>1 DEF vars, IInv, TypeInv, Filed, Placed, Matches, MatchOK, Apart,
              Told1, Told2, NotLost, Waits, Holds, HeldBy
<1>2. ASSUME NEW k \in Calls,
             \/ PairRefused(k) \/ PairWait(k) \/ PairMatch(k)
             \/ Age(k) \/ SendExpired(k)
      PROVE  IInv'
  BY <1>2, PairRefusedKeeps, PairWaitKeeps, PairMatchKeeps, AgeKeeps,
     SendExpiredKeeps
<1>3. ASSUME NEW c \in Conns,
             \/ SendInitiator(c) \/ SendResponder(c)
             \/ CloseConn(c) \/ UnregisterConn(c)
      PROVE  IInv'
  BY <1>3, SendInitiatorKeeps, SendResponderKeeps, CloseConnKeeps,
     UnregisterConnKeeps
<1>4. CASE CleanupPairings
  BY <1>4, CleanupPairingsKeeps
<1> QED BY <1>1, <1>2, <1>3, <1>4 DEF Next

\* Wherever the handlers, UnregisterConn and cleanupLoop interleave, a call is
\* in one place at a time, no two goroutines hold it, and what the two sides
\* of a match are told agrees.
THEOREM Invariant == Spec => []IInv
BY InitInv, StepInv, PTL DEF Spec

LEMMA WaitsIsWaiting ==
  ASSUME IInv, NEW k \in Calls PROVE k \in Waiting <=> Waits(k)
BY CallsAssumption DEF IInv, TypeInv, Filed, Waiting, Waits

\* Every variable of the pairing phase keeps the shape of the Go value it
\* stands for; only waiting calls are overdue (CleanupPairings).
THEOREM TypeCorrect == Spec => []TypeOK
<1>1. IInv => TypeOK
  BY WaitsIsWaiting DEF IInv, TypeInv, Placed, TypeOK
<1> QED BY Invariant, <1>1, PTL

\* UnregisterConn leaves no entry of its connection in the table, and no
\* handler makes one later: a peer is never matched with a dead connection.
THEOREM ClosedKeepsNothing == Spec => []ClosedLeavesNoEntry
<1>1. IInv => ClosedLeavesNoEntry
  BY WaitsIsWaiting DEF IInv, TypeInv, Placed, ClosedLeavesNoEntry, Waiting
<1> QED BY Invariant, <1>1, PTL

\* A pair message that handlePair accepted and nobody answered is in the
\* table, or in the hands of cleanupLoop, or of exactly one goroutine that
\* matched it: no interleaving loses it or answers it twice.
THEOREM RequestsHeld == Spec => []RequestsAreHeld
<1>1. ASSUME IInv PROVE RequestsAreHeld
  <2> SUFFICES ASSUME NEW k \in sent, told[k] = Nothing,
                      handler[Caller[k]].at # "closed"
               PROVE  \/ Waits(k) /\ k \notin expiring /\ MatchOf(k) = {}
                      \/ k \in expiring /\ MatchOf(k) = {} /\ k \notin Waiting
                      \/ /\ k \notin expiring \cup Waiting
                         /\ Cardinality(MatchOf(k)) = 1
    BY DEF RequestsAreHeld, Waits
  <2>0. k \in Calls
    BY <1>1 DEF IInv, TypeInv
  <2>1. \A c \in MatchOf(k) : c \in Conns /\ Holds(c) /\ k \in HeldBy(c)
    BY DEF MatchOf, Holds, HeldBy
  <2>2. \A c \in MatchOf(k) : ~Waits(k) /\ k \notin expiring
    BY <1>1, <2>1 DEF IInv, Matches, MatchOK
  <2>3. ~(Waits(k) /\ k \in expiring)
    BY <1>1, <2>0 DEF IInv, Placed
  <2>4. CASE Waits(k) \/ k \in expiring
    <3>1. MatchOf(k) = {}
      BY <2>2, <2>4
    <3> QED BY <1>1, <2>0, <2>3, <2>4, <3>1, WaitsIsWaiting
  <2>5. CASE ~Waits(k) /\ k \notin expiring
    <3>1. PICK c \in Conns : Holds(c) /\ k \in HeldBy(c)
      BY <1>1, <2>5 DEF IInv, NotLost
    <3>2. c \in MatchOf(k)
      BY <3>1 DEF MatchOf, Holds, HeldBy
    <3>3. \A d \in MatchOf(k) : d = c
      BY <1>1, <2>1, <3>1 DEF IInv, Apart
    <3>4. MatchOf(k) = {c}
      BY <3>2, <3>3
    <3>5. Cardinality({c}) = 1
      BY FS_Singleton
    <3> QED BY <1>1, <2>0, <2>5, <3>4, <3>5, WaitsIsWaiting
  <2> QED BY <2>4, <2>5
<1>2. IInv => RequestsAreHeld
  BY <1>1
<1> QED BY Invariant, <1>2, PTL
-----------------------------------------------------------------------------
(* The refinement: what Outcome says in each place, then one lemma a step   *)

Held(k) == \E c \in Conns : Holds(c) /\ k \in HeldBy(c)

Place(k) ==
  [is |-> IF Waits(k) THEN "open" ELSE IF k \in expiring THEN "expired"
          ELSE IF k \in sent THEN "withdrawn" ELSE "idle"]

OutcomesOK ==
  /\ \A k \in Calls :
       /\ told[k] # Nothing => Outcome(k) = told[k]
       /\ told[k] = Nothing /\ ~Held(k) => Outcome(k) = Place(k)
  /\ \A c \in Conns : Holds(c) =>
       /\ Outcome(handler[c].initiator) = Matched("initiator", handler[c].responder)
       /\ Outcome(handler[c].responder) = Matched("responder", handler[c].initiator)

LEMMA OutcomesAreOK == IInv => OutcomesOK
<1> SUFFICES ASSUME IInv PROVE OutcomesOK
  OBVIOUS
<1> DEFINE held == {h \in {handler[c] : c \in Conns} : h.at \in {"matched", "halfway"}}
           first(k) == {h \in held : h.initiator = k}
           second(k) == {h \in held : h.responder = k}
<1>1. ASSUME NEW k \in Calls, told[k] # Nothing PROVE Outcome(k) = told[k]
  BY <1>1 DEF Outcome
<1>2. ASSUME NEW k \in Calls, told[k] = Nothing, ~Held(k)
      PROVE  Outcome(k) = Place(k)
  <2>1. first(k) = {} /\ second(k) = {}
    BY <1>2 DEF Held, Holds, HeldBy
  <2>2. Outcome(k) = [is |-> IF k \in Waiting THEN "open"
                             ELSE IF k \in expiring THEN "expired"
                             ELSE IF k \in sent THEN "withdrawn" ELSE "idle"]
    BY <1>2, <2>1 DEF Outcome
  <2> QED BY <2>2, WaitsIsWaiting DEF Place
<1>3. ASSUME NEW c \in Conns, Holds(c)
      PROVE  /\ Outcome(handler[c].initiator)
                  = Matched("initiator", handler[c].responder)
             /\ Outcome(handler[c].responder)
                  = Matched("responder", handler[c].initiator)
  <2> DEFINE j == handler[c].initiator
             k == handler[c].responder
  <2>1. MatchOK(c)
    BY <1>3 DEF IInv, Matches
  <2>2. j \in Calls /\ k \in Calls
    BY <1>3, Types DEF IInv
  <2>3. j # k /\ told[k] = Nothing
        /\ told[j] \in {Nothing, Matched("initiator", k)}
    BY <1>3, <2>1 DEF MatchOK
  <2>4. handler[c] \in held
    BY <1>3 DEF Holds
  <2>5. \A h \in held : j \in {h.initiator, h.responder} \/ k \in {h.initiator, h.responder}
                          => h = handler[c]
    <3>1. SUFFICES ASSUME NEW d \in Conns, Holds(d), j \in HeldBy(d) \/ k \in HeldBy(d)
                   PROVE  d = c
      BY DEF Holds, HeldBy
    <3> QED BY <1>3, <3>1 DEF IInv, Apart, HeldBy
  <2>6. first(j) = {handler[c]} /\ first(k) = {} /\ second(k) = {handler[c]}
    BY <2>3, <2>4, <2>5
  <2>7. Outcome(j) = Matched("initiator", k)
    <3>1. CASE told[j] = Nothing
      BY <2>6, <3>1 DEF Outcome
    <3>2. CASE told[j] # Nothing
      BY <2>3, <3>2 DEF Outcome
    <3> QED BY <3>1, <3>2
  <2>8. Outcome(k) = Matched("responder", j)
    BY <2>3, <2>6 DEF Outcome
  <2> QED BY <2>7, <2>8
<1> QED BY <1>1, <1>2, <1>3 DEF OutcomesOK

LEMMA BothOK == IInv /\ IInv' => OutcomesOK /\ OutcomesOK'
BY OutcomesAreOK, PTL

\* A step that neither tells of a call nor moves it leaves its outcome alone.
LEMMA SameOutcome ==
  ASSUME OutcomesOK, OutcomesOK', NEW k \in Calls,
         told'[k] = told[k],
         \A c \in Conns : (Holds(c) /\ k \in HeldBy(c)) \/ (Holds(c) /\ k \in HeldBy(c))'
                            => handler'[c] = handler[c],
         told[k] # Nothing \/ Held(k) \/ Place(k)' = Place(k)
  PROVE  Outcome(k)' = Outcome(k)
<1>1. CASE told[k] # Nothing
  BY <1>1 DEF OutcomesOK, Nothing
<1>2. CASE Held(k)
  <2>1. PICK c \in Conns : Holds(c) /\ k \in HeldBy(c)
    BY <1>2 DEF Held
  <2>2. Holds(c)' /\ handler'[c] = handler[c]
    BY <2>1 DEF Holds
  <2>3. CASE k = handler[c].initiator
    BY <2>1, <2>2, <2>3, ZenonT(30) DEF OutcomesOK, Matched
  <2>4. CASE k = handler[c].responder
    BY <2>1, <2>2, <2>4, ZenonT(30) DEF OutcomesOK, Matched
  <2> QED BY <2>1, <2>3, <2>4 DEF HeldBy
<1>3. CASE told[k] = Nothing /\ ~Held(k)
  <2>1. ~Held(k)'
    BY <1>3 DEF Held, Holds, HeldBy
  <2> QED BY <1>3, <2>1 DEF OutcomesOK, Nothing
<1> QED BY <1>1, <1>2, <1>3

\* The state of Rendezvous that a state of Pairing stands for.
Verdicts == [k \in Calls |-> Outcome(k)]
Known == {k \in Calls : told[k] # Nothing}
\* What the invariant says of the outcome of a call that no answer concerns.
LEMMA Elsewhere ==
  ASSUME IInv, NEW k \in Calls
  PROVE  /\ k \notin sent => told[k] = Nothing /\ ~Held(k) /\ Outcome(k).is = "idle"
         /\ k \in expiring => told[k] = Nothing /\ ~Held(k) /\ Outcome(k).is = "expired"
         /\ Outcome(k).is = "open" <=> Waits(k)
         /\ Waits(k) => told[k] = Nothing /\ ~Held(k) /\ k \in sent
<1>0. OutcomesOK
  BY OutcomesAreOK
<1>1. Held(k) => k \in sent /\ ~Waits(k) /\ k \notin expiring
  BY DEF Held, IInv, Matches, MatchOK
<1>2. Held(k) => Outcome(k).is # "open"
  <2>1. SUFFICES ASSUME NEW c \in Conns, Holds(c), k \in HeldBy(c)
                 PROVE  Outcome(k).is \in {"initiator", "responder"}
    BY DEF Held
  <2>2. CASE k = handler[c].initiator
    <3>1. Outcome(k) = Matched("initiator", handler[c].responder)
      BY <1>0, <2>1, <2>2 DEF OutcomesOK
    <3> QED BY ONLY <3>1 DEF Matched
  <2>3. CASE k = handler[c].responder
    <3>1. Outcome(k) = Matched("responder", handler[c].initiator)
      BY <1>0, <2>1, <2>3 DEF OutcomesOK
    <3> QED BY ONLY <3>1 DEF Matched
  <2> QED BY <2>1, <2>2, <2>3 DEF HeldBy
<1>3. told[k] # Nothing => Outcome(k).is # "open"
  BY <1>0 DEF OutcomesOK, IInv, TypeInv, Told
<1>4. told[k] = Nothing /\ ~Held(k) => Outcome(k) = Place(k)
  BY <1>0 DEF OutcomesOK
<1>5. /\ k \notin sent => told[k] = Nothing /\ ~Waits(k) /\ k \notin expiring
      /\ Waits(k) => told[k] = Nothing /\ k \notin expiring
      /\ k \in expiring => told[k] = Nothing
  BY DEF IInv, Placed
<1>6. /\ k \notin sent => ~Held(k) /\ Place(k).is = "idle"
      /\ k \in expiring => ~Held(k) /\ Place(k).is = "expired"
      /\ Place(k).is = "open" <=> Waits(k)
  BY <1>1, <1>5 DEF Place
<1>7. k \notin sent => told[k] = Nothing /\ ~Held(k) /\ Outcome(k).is = "idle"
  BY ONLY <1>4, <1>5, <1>6
<1>8. k \in expiring => told[k] = Nothing /\ ~Held(k) /\ Outcome(k).is = "expired"
  BY ONLY <1>4, <1>5, <1>6
<1>9. Waits(k) => told[k] = Nothing /\ ~Held(k) /\ k \in sent
  BY ONLY <1>1, <1>5
<1>10. Outcome(k).is = "open" <=> Waits(k)
  BY ONLY <1>2, <1>3, <1>4, <1>6, <1>9
<1> QED BY <1>7, <1>8, <1>9, <1>10

\* PairRefused does what Refuse does.
LEMMA RefusedRefines ==
  ASSUME IInv, IInv', NEW k \in Calls, PairRefused(k) PROVE R!Refuse(k)
<1> USE DEF PairRefused, Reading
<1>0. OutcomesOK /\ OutcomesOK'
  BY BothOK
<1>1. Outcome(k).is = "idle"
  BY Elsewhere
<1>2. Outcome(k)' = [is |-> "refused"]
  BY <1>0 DEF OutcomesOK, Nothing, IInv, TypeInv
<1>3. ASSUME NEW j \in Calls, j # k PROVE Outcome(j)' = Outcome(j)
  <2>1. told'[j] = told[j] /\ Place(j)' = Place(j)
    BY <1>3 DEF IInv, TypeInv, Place, Waits
  <2> QED BY <1>0, <2>1, SameOutcome
<1>4. Verdicts' = [Verdicts EXCEPT ![k] = [is |-> "refused"]]
  BY <1>2, <1>3 DEF Verdicts
<1>5. Known' = Known \cup {k}
  BY DEF Known, IInv, TypeInv, Nothing
<1> QED BY <1>1, <1>4, <1>5 DEF R!Refuse, R!Is, Verdicts, Known

\* PairWait does what Wait does.
LEMMA WaitRefines ==
  ASSUME IInv, IInv', NEW k \in Calls, PairWait(k) PROVE R!Wait(k)
<1> USE DEF PairWait, Reading
<1>0. OutcomesOK /\ OutcomesOK'
  BY BothOK
<1>1. Outcome(k).is = "idle"
  BY Elsewhere
<1>2. \A j \in Calls : Code[j] = Code[k] => Outcome(j).is # "open"
  BY Elsewhere, CallsAssumption DEF Waits
<1>3. Outcome(k)' = [is |-> "open"]
  <2>1. Waits(k)'
    BY CallsAssumption DEF Waits, IInv, TypeInv
  <2>2. told'[k] = Nothing /\ ~Held(k)'
    BY Elsewhere DEF Held, Holds, HeldBy, Nothing
  <2> QED BY <1>0, <2>1, <2>2 DEF OutcomesOK, Place
<1>4. ASSUME NEW j \in Calls, j # k PROVE Outcome(j)' = Outcome(j)
  <2>1. Waits(j)' = Waits(j)
    BY <1>4, CallsAssumption DEF Waits, IInv, TypeInv
  <2>2. told'[j] = told[j] /\ Place(j)' = Place(j)
    BY <1>4, <2>1 DEF Place
  <2> QED BY <1>0, <2>2, SameOutcome
<1>5. Verdicts' = [Verdicts EXCEPT ![k] = [is |-> "open"]]
  BY <1>3, <1>4 DEF Verdicts
<1>6. Known' = Known
  BY DEF Known, Nothing
<1> QED BY <1>1, <1>2, <1>5, <1>6 DEF R!Wait, R!Open, R!Is, Verdicts, Known

\* PairMatch does what Meet does, before either of the two has heard of it.
LEMMA MatchRefines ==
  ASSUME IInv, IInv', NEW k \in Calls, PairMatch(k)
  PROVE  \E j \in Calls : R!Meet(j, k)
<1> USE DEF PairMatch, Reading
<1>0. OutcomesOK /\ OutcomesOK'
  BY BothOK
<1>1. PICK j \in Calls : j = waitingPeers[Code[k]] /\ Waits(j) /\ Code[j] = Code[k]
  BY CallsAssumption DEF IInv, TypeInv, Filed, Waits
<1>2. Outcome(j).is = "open" /\ Outcome(k).is = "idle" /\ j # k
  BY <1>1, Elsewhere
<1>3. Caller[k] \in Conns /\ Holds(Caller[k])'
      /\ handler'[Caller[k]].initiator = j /\ handler'[Caller[k]].responder = k
  BY <1>1, CallsAssumption DEF Holds, IInv, TypeInv
<1>4. Outcome(j)' = Matched("initiator", k) /\ Outcome(k)' = Matched("responder", j)
  BY <1>0, <1>3 DEF OutcomesOK, Matched
<1>5. ASSUME NEW i \in Calls, i # j, i # k PROVE Outcome(i)' = Outcome(i)
  <2>1. Place(i)' = Place(i)
    BY <1>1, <1>5, CallsAssumption DEF Waits, IInv, TypeInv, Place
  <2>2. \A c \in Conns : (Holds(c) /\ i \in HeldBy(c)) \/ (Holds(c) /\ i \in HeldBy(c))'
                           => handler'[c] = handler[c]
    BY <1>3, <1>5 DEF Holds, HeldBy, IInv, TypeInv
  <2> QED BY <1>0, <2>1, <2>2, SameOutcome
<1>6. Verdicts' = [Verdicts EXCEPT ![j] = Matched("initiator", k),
                                   ![k] = Matched("responder", j)]
  BY <1>1, <1>2, <1>4, <1>5 DEF Verdicts
<1>7. Known' = Known
  BY DEF Known, Nothing
<1>8. R!Meet(j, k)
  BY <1>1, <1>2, <1>6, <1>7 DEF R!Meet, R!Open, Verdicts, Known, Matched
<1> QED BY <1>1, <1>8
\* A send of handlePair tells what the match decided: Tell of the initiator ...
LEMMA InitiatorRefines ==
  ASSUME IInv, IInv', NEW c \in Conns, SendInitiator(c)
  PROVE  \E k \in Calls : R!Tell(k)
<1> USE DEF SendInitiator
<1>0. OutcomesOK /\ OutcomesOK'
  BY BothOK
<1>1. Holds(c) /\ MatchOK(c)
  BY DEF Holds, IInv, Matches
<1>2. PICK j \in Calls, k \in Calls : j = handler[c].initiator /\ k = handler[c].responder
  BY <1>1, Types DEF IInv
<1>3. j # k /\ told[j] = Nothing /\ told[k] = Nothing
  BY <1>1, <1>2 DEF MatchOK
<1>4. Holds(c)' /\ handler'[c].initiator = j /\ handler'[c].responder = k
  BY <1>2 DEF Holds, IInv, TypeInv
<1>5. Outcome(j) = Matched("initiator", k) /\ Outcome(k) = Matched("responder", j)
  BY <1>0, <1>1, <1>2 DEF OutcomesOK
<1>6. Outcome(j)' = Matched("initiator", k) /\ Outcome(k)' = Matched("responder", j)
  BY <1>0, <1>4 DEF OutcomesOK, Matched
<1>7. ASSUME NEW i \in Calls, i # j, i # k PROVE Outcome(i)' = Outcome(i)
  <2>1. told'[i] = told[i] /\ Place(i)' = Place(i)
    BY <1>2, <1>7 DEF Place, Waits, IInv, TypeInv
  <2>2. \A d \in Conns : (Holds(d) /\ i \in HeldBy(d)) \/ (Holds(d) /\ i \in HeldBy(d))'
                           => handler'[d] = handler[d]
    BY <1>2, <1>4, <1>7 DEF Holds, HeldBy, IInv, TypeInv
  <2> QED BY <1>0, <2>1, <2>2, SameOutcome
<1>8. Verdicts' = Verdicts
  BY <1>5, <1>6, <1>7 DEF Verdicts
<1>9. Known' = Known \cup {j}
  BY <1>2 DEF Known, Matched, Nothing, IInv, TypeInv
<1>10. R!Tell(j)
  BY <1>3, <1>5, <1>8, <1>9 DEF R!Tell, R!Decided, Verdicts, Known, Matched
<1> QED BY <1>10

\* ... and then of the responder.
LEMMA ResponderRefines ==
  ASSUME IInv, IInv', NEW c \in Conns, SendResponder(c)
  PROVE  \E k \in Calls : R!Tell(k)
<1> USE DEF SendResponder
<1>0. OutcomesOK /\ OutcomesOK'
  BY BothOK
<1>1. Holds(c) /\ MatchOK(c)
  BY DEF Holds, IInv, Matches
<1>2. PICK j \in Calls, k \in Calls : j = handler[c].initiator /\ k = handler[c].responder
  BY <1>1, Types DEF IInv
<1>3. j # k /\ told[j] = Matched("initiator", k) /\ told[k] = Nothing
  BY <1>1, <1>2 DEF MatchOK
<1>4. told'[k] = Matched("responder", j) /\ told'[j] = told[j]
  BY <1>2, <1>3 DEF IInv, TypeInv
<1>5. Outcome(j) = Matched("initiator", k) /\ Outcome(k) = Matched("responder", j)
  BY <1>0, <1>1, <1>2 DEF OutcomesOK
<1>6. Outcome(j)' = Matched("initiator", k) /\ Outcome(k)' = Matched("responder", j)
  BY <1>0, <1>3, <1>4 DEF OutcomesOK, Matched, Nothing
<1>7. ASSUME NEW i \in Calls, i # j, i # k PROVE Outcome(i)' = Outcome(i)
  <2>1. told'[i] = told[i] /\ Place(i)' = Place(i)
    BY <1>2, <1>7 DEF Place, Waits, IInv, TypeInv
  <2>2. \A d \in Conns : (Holds(d) /\ i \in HeldBy(d)) \/ (Holds(d) /\ i \in HeldBy(d))'
                           => handler'[d] = handler[d]
    BY <1>2, <1>7 DEF Holds, HeldBy, IInv, TypeInv, At
  <2> QED BY <1>0, <2>1, <2>2, SameOutcome
<1>8. Verdicts' = Verdicts
  BY <1>5, <1>6, <1>7 DEF Verdicts
<1>9. Known' = Known \cup {k}
  BY <1>2 DEF Known, Matched, Nothing, IInv, TypeInv
<1>10. R!Tell(k)
  BY <1>3, <1>5, <1>8, <1>9 DEF R!Tell, R!Decided, Verdicts, Known, Matched
<1> QED BY <1>10

\* UnregisterConn withdraws the open calls of its connection.
LEMMA UnregisterRefines ==
  ASSUME IInv, IInv', NEW c \in Conns, UnregisterConn(c)
  PROVE  \/ \E k \in Calls : R!Withdraw(Caller[k])
         \/ Verdicts' = Verdicts /\ Known' = Known
<1> USE DEF UnregisterConn, RemovePairingsByConn
<1>0. OutcomesOK /\ OutcomesOK'
  BY BothOK
<1>1. \A d \in Conns, i \in Calls :
        (Holds(d) /\ i \in HeldBy(d)) \/ (Holds(d) /\ i \in HeldBy(d))'
          => handler'[d] = handler[d]
  BY DEF Holds, HeldBy, At, IInv, TypeInv
<1>2. Known' = Known
  BY DEF Known, Nothing
<1>3. ASSUME NEW i \in Calls, ~(Waits(i) /\ Caller[i] = c)
      PROVE  Outcome(i)' = Outcome(i)
  <2>1. Waits(i)' = Waits(i)
    BY <1>3, CallsAssumption DEF Waits, IInv, TypeInv
  <2>2. Place(i)' = Place(i)
    BY <2>1 DEF Place
  <2> QED BY <1>0, <1>1, <2>2, SameOutcome
<1>4. ASSUME NEW i \in Calls, Waits(i), Caller[i] = c
      PROVE  Outcome(i)' = [is |-> "withdrawn"]
  <2>1. told[i] = Nothing /\ ~Held(i) /\ i \in sent /\ i \notin expiring
    BY <1>4, Elsewhere DEF IInv, Placed
  <2>2. ~Waits(i)' /\ ~Held(i)'
    BY <1>1, <1>4, <2>1, CallsAssumption DEF Waits, Held, Holds, HeldBy, IInv, TypeInv
  <2> QED BY <1>0, <2>1, <2>2 DEF OutcomesOK, Place, Nothing
<1>5. CASE \E k \in Calls : Caller[k] = c
  <2>1. Verdicts' = [i \in Calls |-> IF Verdicts[i].is = "open" /\ Caller[i] = c
                                     THEN [is |-> "withdrawn"] ELSE Verdicts[i]]
    BY <1>3, <1>4, Elsewhere DEF Verdicts
  <2>2. R!Withdraw(c)
    BY <1>2, <2>1 DEF R!Withdraw, R!Open, R!Is, Verdicts, Known
  <2> QED BY <1>5, <2>2
<1>6. CASE ~\E k \in Calls : Caller[k] = c
  BY <1>2, <1>3, <1>6 DEF Verdicts
<1> QED BY <1>5, <1>6

\* CleanupPairings gives up all that are overdue at once.
LEMMA CleanupRefines ==
  ASSUME IInv, IInv', CleanupPairings PROVE \E late \in SUBSET Calls : R!Expire(late)
<1> USE DEF CleanupPairings
<1>0. OutcomesOK /\ OutcomesOK'
  BY BothOK
<1>1. PICK late \in SUBSET Calls : late = overdue
  BY DEF IInv, TypeInv
<1>2. \A k \in late : Waits(k)
  BY <1>1 DEF IInv, Placed
<1>3. ASSUME NEW i \in Calls, i \notin late PROVE Outcome(i)' = Outcome(i)
  <2>1. Waits(i)' = Waits(i) /\ i \notin expiring /\ i \notin expiring'
    BY <1>1, <1>3, CallsAssumption DEF Waits, IInv, TypeInv
  <2>2. Place(i)' = Place(i)
    BY <2>1 DEF Place
  <2>3. \A c \in Conns : handler'[c] = handler[c]
    OBVIOUS
  <2> QED BY <1>0, <2>2, <2>3, SameOutcome
<1>4. ASSUME NEW i \in late PROVE Outcome(i)' = [is |-> "expired"]
  <2>1. told[i] = Nothing /\ ~Held(i) /\ i \in Calls
    BY <1>2, <1>4, Elsewhere
  <2>2. i \in expiring' /\ told'[i] = Nothing
    BY <1>1, <2>1 DEF Nothing
  <2>3. ~Waits(i)'
    BY <2>1, <2>2 DEF IInv, Placed
  <2>4. ~Held(i)'
    BY <2>1 DEF Held, Holds, HeldBy
  <2> QED BY <1>0, <2>1, <2>2, <2>3, <2>4 DEF OutcomesOK, Place, Nothing
<1>5. Verdicts' = [k \in Calls |-> IF k \in late THEN [is |-> "expired"]
                                   ELSE Verdicts[k]]
  BY <1>3, <1>4 DEF Verdicts
<1>6. Known' = Known
  BY DEF Known, Nothing
<1>7. \A k \in late : Verdicts[k].is = "open"
  BY <1>2, Elsewhere DEF Verdicts
<1>8. R!Expire(late)
  BY <1>1, <1>5, <1>6, <1>7 DEF R!Expire, R!Open, R!Is, Verdicts, Known
<1> QED BY <1>8

\* A message of cleanupLoop tells of one of them.
LEMMA ExpiredRefines ==
  ASSUME IInv, IInv', NEW k \in Calls, SendExpired(k) PROVE R!Tell(k)
<1> USE DEF SendExpired
<1>0. OutcomesOK /\ OutcomesOK'
  BY BothOK
<1>1. told[k] = Nothing /\ ~Held(k) /\ Outcome(k) = [is |-> "expired"]
  BY <1>0, Elsewhere DEF OutcomesOK, Place
<1>2. Outcome(k)' = [is |-> "expired"]
  BY <1>0 DEF OutcomesOK, Nothing, IInv, TypeInv
<1>3. ASSUME NEW i \in Calls, i # k PROVE Outcome(i)' = Outcome(i)
  <2>1. told'[i] = told[i] /\ Place(i)' = Place(i)
    BY <1>3 DEF IInv, TypeInv, Place, Waits
  <2>2. \A c \in Conns : handler'[c] = handler[c]
    OBVIOUS
  <2> QED BY <1>0, <2>1, <2>2, SameOutcome
<1>4. Verdicts' = Verdicts
  BY <1>1, <1>2, <1>3 DEF Verdicts
<1>5. Known' = Known \cup {k}
  BY DEF Known, Nothing, IInv, TypeInv
<1> QED BY <1>1, <1>4, <1>5 DEF R!Tell, R!Decided, Verdicts, Known

\* CloseConn and the passing of time decide nothing.
LEMMA OthersStutter ==
  ASSUME IInv, IInv',
         \/ \E c \in Conns : CloseConn(c)
         \/ \E k \in Calls : Age(k)
         \/ UNCHANGED vars
  PROVE  Verdicts' = Verdicts /\ Known' = Known
<1>0. OutcomesOK /\ OutcomesOK'
  BY BothOK
<1>1. told' = told /\ waitingPeers' = waitingPeers /\ expiring' = expiring /\ sent' = sent
  BY DEF CloseConn, Age, vars
<1>2. \A i \in Calls, d \in Conns :
        (Holds(d) /\ i \in HeldBy(d)) \/ (Holds(d) /\ i \in HeldBy(d))'
          => handler'[d] = handler[d]
  BY DEF CloseConn, Age, vars, Reading, Holds, HeldBy, At, IInv, TypeInv
<1>3. ASSUME NEW i \in Calls PROVE Outcome(i)' = Outcome(i)
  <2>1. told'[i] = told[i] /\ Place(i)' = Place(i)
    BY <1>1 DEF Place, Waits
  <2> QED BY <1>0, <1>2, <2>1, SameOutcome
<1> QED BY <1>1, <1>3 DEF Verdicts, Known, Nothing

LEMMA InitRefines == Init => R!Init
<1> SUFFICES ASSUME Init PROVE R!Init
  OBVIOUS
<1>1. IInv /\ sent = {}
  BY InitInv DEF Init
<1>2. ASSUME NEW k \in Calls PROVE told[k] = Nothing /\ Outcome(k) = [is |-> "idle"]
  <2>1. told[k] = Nothing /\ ~Held(k)
    BY <1>1, Elsewhere
  <2>2. Place(k) = [is |-> "idle"]
    BY <1>1 DEF Place, IInv, Placed
  <2> QED BY <1>1, <2>1, <2>2, OutcomesAreOK DEF OutcomesOK
<1> QED BY <1>2 DEF R!Init, R!Is

LEMMA StepRefines ==
  IInv /\ IInv' /\ [Next]_vars =>
    [R!Next]_<<[k \in Calls |-> Outcome(k)], {k \in Calls : told[k] # Nothing}>>
<1> SUFFICES ASSUME IInv, IInv', [Next]_vars
             PROVE  R!Next \/ (Verdicts' = Verdicts /\ Known' = Known)
  BY DEF Verdicts, Known
<1>1. ASSUME NEW k \in Calls, PairRefused(k) \/ PairWait(k) \/ PairMatch(k) \/ SendExpired(k)
      PROVE  R!Next
  BY <1>1, RefusedRefines, WaitRefines, MatchRefines, ExpiredRefines DEF R!Next
<1>2. ASSUME NEW c \in Conns, SendInitiator(c) \/ SendResponder(c)
      PROVE  R!Next
  BY <1>2, InitiatorRefines, ResponderRefines DEF R!Next
<1>3. ASSUME NEW c \in Conns, UnregisterConn(c)
      PROVE  R!Next \/ (Verdicts' = Verdicts /\ Known' = Known)
  BY <1>3, UnregisterRefines DEF R!Next
<1>4. CASE CleanupPairings
  BY <1>4, CleanupRefines DEF R!Next
<1> QED BY <1>1, <1>2, <1>3, <1>4, OthersStutter DEF Next

\* The memory backend with the handlers around it keeps the contract of
\* pairing: calls meet two and two in the order they came, cleanup and
\* disconnection close only what is open, and no verdict is revised.
THEOREM Refinement == Spec => ImplementsRendezvous
BY InitRefines, StepRefines, Invariant, PTL DEF Spec, ImplementsRendezvous, R!Spec

\* A goroutine holds the match of j and k.
Meeting(j, k) ==
  \E c \in Conns : Holds(c) /\ j = handler[c].initiator /\ k = handler[c].responder

LEMMA MatchedMeans ==
  ASSUME IInv, NEW j \in Calls, NEW k \in Calls
  PROVE  /\ Outcome(j) = Matched("initiator", k)
              => told[j] = Matched("initiator", k) \/ Meeting(j, k)
         /\ Outcome(k) = Matched("responder", j)
              => told[k] = Matched("responder", j) \/ Meeting(j, k)
<1>0. OutcomesOK
  BY OutcomesAreOK
<1>1. ASSUME NEW i \in Calls
      PROVE  \/ Outcome(i) = told[i]
             \/ \E c \in Conns : /\ Holds(c) /\ i = handler[c].initiator
                                 /\ Outcome(i) = Matched("initiator", handler[c].responder)
             \/ \E c \in Conns : /\ Holds(c) /\ i = handler[c].responder
                                 /\ Outcome(i) = Matched("responder", handler[c].initiator)
             \/ Outcome(i) = Place(i)
  <2>1. CASE Held(i)
    <3>1. PICK c \in Conns : Holds(c) /\ i \in HeldBy(c)
      BY <2>1 DEF Held
    <3>2. CASE i = handler[c].initiator
      BY <1>0, <3>1, <3>2 DEF OutcomesOK
    <3>3. CASE i = handler[c].responder
      BY <1>0, <3>1, <3>3 DEF OutcomesOK
    <3> QED BY <3>1, <3>2, <3>3 DEF HeldBy
  <2>2. CASE ~Held(i)
    BY <1>0, <2>2 DEF OutcomesOK
  <2> QED BY <2>1, <2>2
<1>2. \A i \in Calls : Place(i).is \notin {"initiator", "responder"}
  BY DEF Place
<1>3. \A r, i : Matched(r, i).is = r /\ Matched(r, i).with = i
  BY DEF Matched
<1>4. ASSUME Outcome(j) = Matched("initiator", k)
      PROVE  told[j] = Matched("initiator", k) \/ Meeting(j, k)
  <2>1. Outcome(j).is = "initiator" /\ Outcome(j).with = k
    BY <1>3, <1>4
  <2>2. Outcome(j) # Place(j)
    BY <1>2, <2>1
  <2>3. \A c \in Conns : Outcome(j) # Matched("responder", handler[c].initiator)
    BY <1>3, <2>1
  <2>4. \A c \in Conns : Outcome(j) = Matched("initiator", handler[c].responder)
                           => k = handler[c].responder
    BY <1>3, <2>1
  <2> QED BY <1>1, <1>4, <2>2, <2>3, <2>4 DEF Meeting
<1>5. ASSUME Outcome(k) = Matched("responder", j)
      PROVE  told[k] = Matched("responder", j) \/ Meeting(j, k)
  <2>1. Outcome(k).is = "responder" /\ Outcome(k).with = j
    BY <1>3, <1>5
  <2>2. Outcome(k) # Place(k)
    BY <1>2, <2>1
  <2>3. \A c \in Conns : Outcome(k) # Matched("initiator", handler[c].responder)
    BY <1>3, <2>1
  <2>4. \A c \in Conns : Outcome(k) = Matched("responder", handler[c].initiator)
                           => j = handler[c].initiator
    BY <1>3, <2>1
  <2> QED BY <1>1, <1>5, <2>2, <2>3, <2>4 DEF Meeting
<1> QED BY <1>4, <1>5

\* Both sides of a pair_matched agree, also while one of the two messages is
\* still to be sent and while either side disconnects.
THEOREM Paired == Spec => []MeetingsArePaired
<1>1. ASSUME IInv PROVE MeetingsArePaired
  <2>0. OutcomesOK
    BY <1>1, OutcomesAreOK
  <2> SUFFICES ASSUME NEW j \in Calls, NEW k \in Calls
               PROVE  Outcome(j) = Matched("initiator", k)
                        <=> Outcome(k) = Matched("responder", j) /\ j # k /\ Code[j] = Code[k]
    BY DEF MeetingsArePaired, R!MeetingsArePaired, Matched
  <2>1. Meeting(j, k) => /\ Outcome(j) = Matched("initiator", k)
                         /\ Outcome(k) = Matched("responder", j)
                         /\ j # k /\ Code[j] = Code[k]
    BY <1>1, <2>0 DEF Meeting, OutcomesOK, IInv, Matches, MatchOK
  <2>2. told[j] = Matched("initiator", k) =>
          /\ j # k /\ Code[j] = Code[k]
          /\ told[k] = Matched("responder", j) \/ Meeting(j, k)
    <3>1. Caller[k] \in Conns
      BY CallsAssumption
    <3>2. handler[Caller[k]] = [at |-> "halfway", initiator |-> j, responder |-> k]
            => Meeting(j, k)
      BY <3>1 DEF Meeting, Holds
    <3> QED BY <1>1, <3>2 DEF IInv, Told1
  <2>3. told[k] = Matched("responder", j) =>
          told[j] = Matched("initiator", k) /\ j # k /\ Code[j] = Code[k]
    BY <1>1 DEF IInv, Told2
  <2>4. /\ told[j] = Matched("initiator", k) => Outcome(j) = told[j]
        /\ told[k] = Matched("responder", j) => Outcome(k) = told[k]
    BY <2>0 DEF OutcomesOK, Matched, Nothing
  <2> QED BY <1>1, <2>1, <2>2, <2>3, <2>4, MatchedMeans
<1> QED BY Invariant, <1>1, PTL
=============================================================================
