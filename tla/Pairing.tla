------------------------------ MODULE Pairing ------------------------------
(***************************************************************************)
(* The pairing phase of one Latch Relay server with the memory backend:    *)
(* handlePair, UnregisterConn and cleanupLoop of bridge.go over            *)
(* memory_backend.go.                                                      *)
(*                                                                         *)
(* A call of the backend is atomic (MemoryBackend.mu); what handlePair and *)
(* cleanupLoop then send, they send without any lock, one message a step.  *)
(* A pair message is used once: a repeated request is another call.        *)
(***************************************************************************)
EXTENDS Naturals, FiniteSets

CONSTANTS
  Conns,       \* WebSocket connections, registered from the start
  PairingIds,  \* pairing identifiers (the ch field of a pair message)
  Calls,       \* the pair messages: a bound on how many are sent
  Caller,      \* the connection each is sent on
  Code,        \* the pairing identifier each names
  NoCall       \* no waitingEntry

ASSUME CallsAssumption ==
  /\ Caller \in [Calls -> Conns] /\ Code \in [Calls -> PairingIds]
  /\ NoCall \notin Calls

VARIABLES
  waitingPeers, \* the waitingEntry under each identifier
  overdue,      \* the waiting calls whose entry is older than PairingTTL
  handler,      \* where the goroutine of each connection stands
  expiring,     \* entries that CleanupPairings returned, not yet notified
  sent,         \* the calls that have been handled
  told          \* the message sent about each call

vars == <<waitingPeers, overdue, handler, expiring, sent, told>>

-----------------------------------------------------------------------------
Nothing == [is |-> "nothing"]
Matched(role, peer) == [is |-> role, with |-> peer]

Told ==
       [is : {"nothing", "refused", "expired"}]
  \cup [is : {"initiator", "responder"}, with : Calls]

\* A handler has to send the two halves of a match, the initiator's first.
Handler ==
       [at : {"reading", "closing", "closed"}]
  \cup [at : {"matched", "halfway"}, initiator : Calls, responder : Calls]

At(loc) == [at |-> loc]
Reading(c) == handler[c].at = "reading"
Waiting == {waitingPeers[p] : p \in PairingIds} \ {NoCall}

Init ==
  /\ waitingPeers = [p \in PairingIds |-> NoCall]
  /\ overdue = {}
  /\ handler = [c \in Conns |-> At("reading")]
  /\ expiring = {}
  /\ sent = {}
  /\ told = [k \in Calls |-> Nothing]

-----------------------------------------------------------------------------
(* handlePair *)

\* The rate limiter refuses the call: nothing is stored.
PairRefused(k) ==
  /\ Reading(Caller[k]) /\ k \notin sent
  /\ sent' = sent \cup {k}
  /\ told' = [told EXCEPT ![k] = [is |-> "refused"]]
  /\ UNCHANGED <<waitingPeers, overdue, handler, expiring>>

\* Mutant of PairWait: a waiting entry is overwritten.
PairWaitOverwrites(k) ==
  /\ Reading(Caller[k]) /\ k \notin sent
  /\ waitingPeers' = [waitingPeers EXCEPT ![Code[k]] = k]
  /\ sent' = sent \cup {k}
  /\ UNCHANGED <<overdue, handler, expiring, told>>

\* StorePairing finds no entry and makes one; the caller hears nothing yet.
PairWait(k) ==
  /\ Reading(Caller[k]) /\ k \notin sent
  /\ waitingPeers[Code[k]] = NoCall
  /\ waitingPeers' = [waitingPeers EXCEPT ![Code[k]] = k]
  /\ sent' = sent \cup {k}
  /\ UNCHANGED <<overdue, handler, expiring, told>>

\* Mutant of PairMatch: the absence of an entry is not noticed.
PairMatchNothing(k) ==
  /\ Reading(Caller[k]) /\ k \notin sent
  /\ handler' = [handler EXCEPT ![Caller[k]] =
       [at |-> "matched", initiator |-> waitingPeers[Code[k]],
        responder |-> k]]
  /\ sent' = sent \cup {k}
  /\ UNCHANGED <<waitingPeers, overdue, expiring, told>>

\* StorePairing takes the entry it finds, whoever it belongs to.
PairMatch(k) ==
  LET j == waitingPeers[Code[k]] IN
  /\ Reading(Caller[k]) /\ k \notin sent /\ j # NoCall
  /\ waitingPeers' = [waitingPeers EXCEPT ![Code[k]] = NoCall]
  /\ overdue' = overdue \ {j}
  /\ handler' = [handler EXCEPT ![Caller[k]] =
       [at |-> "matched", initiator |-> j, responder |-> k]]
  /\ sent' = sent \cup {k}
  /\ UNCHANGED <<expiring, told>>

\* handlePair sends pair_matched to the initiator ...
SendInitiator(c) ==
  LET h == handler[c] IN
  /\ h.at = "matched"
  /\ told' = [told EXCEPT ![h.initiator] = Matched("initiator", h.responder)]
  /\ handler' = [handler EXCEPT ![c].at = "halfway"]
  /\ UNCHANGED <<waitingPeers, overdue, expiring, sent>>

\* Mutant of SendResponder: the role is copied from the first message.
SendResponderAsInitiator(c) ==
  LET h == handler[c] IN
  /\ h.at = "halfway"
  /\ told' = [told EXCEPT ![h.responder] = Matched("initiator", h.initiator)]
  /\ handler' = [handler EXCEPT ![c] = At("reading")]
  /\ UNCHANGED <<waitingPeers, overdue, expiring, sent>>

\* ... and then to the responder, its own connection.
SendResponder(c) ==
  LET h == handler[c] IN
  /\ h.at = "halfway"
  /\ told' = [told EXCEPT ![h.responder] = Matched("responder", h.initiator)]
  /\ handler' = [handler EXCEPT ![c] = At("reading")]
  /\ UNCHANGED <<waitingPeers, overdue, expiring, sent>>

-----------------------------------------------------------------------------
(* Disconnection and expiry *)

\* The read loop ends; its deferred calls have yet to run.
CloseConn(c) ==
  /\ Reading(c)
  /\ handler' = [handler EXCEPT ![c] = At("closing")]
  /\ UNCHANGED <<waitingPeers, overdue, expiring, sent, told>>

\* Mutant of RemovePairingsByConn: only one entry is removed.
RemoveOnePairing(c) ==
  LET one == CHOOSE p \in PairingIds : \/ waitingPeers[p] = NoCall
                                       \/ Caller[waitingPeers[p]] = c
  IN [waitingPeers EXCEPT ![one] = NoCall]

RemovePairingsByConn(c) ==
  [p \in PairingIds |->
     IF waitingPeers[p] # NoCall /\ Caller[waitingPeers[p]] = c
     THEN NoCall ELSE waitingPeers[p]]

UnregisterConn(c) ==
  /\ handler[c].at = "closing"
  /\ waitingPeers' = RemovePairingsByConn(c)
  /\ overdue' = {k \in overdue : Caller[k] # c}
  /\ handler' = [handler EXCEPT ![c] = At("closed")]
  /\ UNCHANGED <<expiring, sent, told>>

\* PairingTTL passes for a waiting call.
Age(k) ==
  /\ k \in Waiting \ overdue
  /\ overdue' = overdue \cup {k}
  /\ UNCHANGED <<waitingPeers, handler, expiring, sent, told>>

\* Mutant of CleanupPairings: the age is compared the wrong way round.
CleanupYoung ==
  LET young == Waiting \ overdue IN
  /\ expiring = {} /\ young # {}
  /\ expiring' = young
  /\ waitingPeers' = [p \in PairingIds |->
       IF waitingPeers[p] \in young THEN NoCall ELSE waitingPeers[p]]
  /\ UNCHANGED <<overdue, handler, sent, told>>

\* A tick of cleanupLoop, which has notified all it removed the last time.
CleanupPairings ==
  /\ expiring = {} /\ overdue # {}
  /\ expiring' = overdue
  /\ overdue' = {}
  /\ waitingPeers' = [p \in PairingIds |->
       IF waitingPeers[p] \in overdue THEN NoCall ELSE waitingPeers[p]]
  /\ UNCHANGED <<handler, sent, told>>

\* Mutant of SendExpired: the message has the wrong error code.
SendExpiredAsRefused(k) ==
  /\ k \in expiring
  /\ expiring' = expiring \ {k}
  /\ told' = [told EXCEPT ![k] = [is |-> "refused"]]
  /\ UNCHANGED <<waitingPeers, overdue, handler, sent>>

\* cleanupLoop sends pairing_expired for the next of them, in map order.
SendExpired(k) ==
  /\ k \in expiring
  /\ expiring' = expiring \ {k}
  /\ told' = [told EXCEPT ![k] = [is |-> "expired"]]
  /\ UNCHANGED <<waitingPeers, overdue, handler, sent>>

-----------------------------------------------------------------------------
Next ==
  \/ \E k \in Calls : \/ PairRefused(k) \/ PairWait(k) \/ PairMatch(k)
                      \/ Age(k) \/ SendExpired(k)
  \/ \E c \in Conns : \/ SendInitiator(c) \/ SendResponder(c)
                      \/ CloseConn(c) \/ UnregisterConn(c)
  \/ CleanupPairings

Spec == Init /\ [][Next]_vars

\* Goroutines run on, time passes and the ticker ticks; no client need act.
Fairness ==
  /\ WF_vars(CleanupPairings)
  /\ \A k \in Calls : WF_vars(Age(k)) /\ WF_vars(SendExpired(k))
  /\ \A c \in Conns : /\ WF_vars(SendInitiator(c))
                      /\ WF_vars(SendResponder(c))
                      /\ WF_vars(UnregisterConn(c))

FairSpec == Spec /\ Fairness

-----------------------------------------------------------------------------
(* Properties *)

\* Every variable has the shape of the Go value it stands for.
TypeOK ==
  /\ waitingPeers \in [PairingIds -> Calls \cup {NoCall}]
  /\ overdue \subseteq Waiting
  /\ handler \in [Conns -> Handler]
  /\ expiring \subseteq Calls
  /\ sent \subseteq Calls
  /\ told \in [Calls -> Told]

\* The goroutines that are about to send something about call k.
MatchOf(k) ==
  {c \in Conns : /\ handler[c].at \in {"matched", "halfway"}
                 /\ k \in {handler[c].initiator, handler[c].responder}
                 /\ told[k] = Nothing}

\* A request is never lost: as long as its connection is served and it has
\* had no answer, it waits in the table, or exactly one goroutine holds it
\* and will answer.
RequestsAreHeld ==
  \A k \in sent :
    told[k] = Nothing /\ handler[Caller[k]].at # "closed" =>
      \/ waitingPeers[Code[k]] = k /\ k \notin expiring /\ MatchOf(k) = {}
      \/ k \in expiring /\ MatchOf(k) = {} /\ k \notin Waiting
      \/ k \notin expiring \cup Waiting /\ Cardinality(MatchOf(k)) = 1

\* A connection that is gone leaves no entry behind for a later peer to be
\* matched with (README.md:383).
ClosedLeavesNoEntry ==
  \A k \in Waiting : handler[Caller[k]].at # "closed"

\* What has been decided about a call, read off the goroutines and the table.
Outcome(k) ==
  LET held == {h \in {handler[c] : c \in Conns} : h.at \in {"matched", "halfway"}}
      first == {h \in held : h.initiator = k}
      second == {h \in held : h.responder = k}
  IN
  CASE told[k] # Nothing -> told[k]
    [] told[k] = Nothing /\ first # {} ->
         Matched("initiator", (CHOOSE h \in first : TRUE).responder)
    [] told[k] = Nothing /\ first = {} /\ second # {} ->
         Matched("responder", (CHOOSE h \in second : TRUE).initiator)
    [] OTHER ->
         [is |-> IF k \in Waiting THEN "open"
                 ELSE IF k \in expiring THEN "expired"
                 ELSE IF k \in sent THEN "withdrawn" ELSE "idle"]

R == INSTANCE Rendezvous WITH
       outcome <- [k \in Calls |-> Outcome(k)],
       told <- {k \in Calls : told[k] # Nothing}

\* The backend and the handlers keep the promise of Rendezvous: calls meet in
\* pairs, in the order they came, and no outcome is ever revised.
ImplementsRendezvous == R!Spec

\* Both halves of a match say the same: a call that was told its role and its
\* peer has a peer that was told, or is about to be told, the other role.
MeetingsArePaired == R!MeetingsArePaired

\* A waiting request does not wait for ever: a peer comes, its connection
\* goes, or pairing_expired is sent.
WaitingEnds ==
  \A k \in Calls : k \in Waiting ~>
    told[k] # Nothing \/ handler[Caller[k]].at = "closed"
=============================================================================
