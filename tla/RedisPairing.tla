---------------------------- MODULE RedisPairing ----------------------------
(***************************************************************************)
(* The pairing phase of several Latch Relay servers that share one Redis   *)
(* (server/internal/relay/redis_backend.go, and handlePair, UnregisterConn,*)
(* cleanupLoop and handleRemotePairMatched of bridge.go).                  *)
(*                                                                         *)
(* One action is one command to Redis or one section under                 *)
(* RedisBackend.mu: between two of them every other goroutine and node may *)
(* run.  A command may fail, applied or not, and a published message may   *)
(* be lost.  A server that stops leaves its keys in Redis.                 *)
(***************************************************************************)
EXTENDS Sequences, FiniteSets

CONSTANTS
  Nodes,       \* the servers
  Conns,       \* WebSocket connections, registered from the start
  Node,        \* the server each connection is to
  PairingIds,  \* pairing identifiers (the ch field of a pair message)
  Calls,       \* the pair messages: a bound on how many are sent
  Caller,      \* the connection each is sent on
  Code,        \* the pairing identifier each names
  NoCall       \* no entry

ASSUME RedisAssumption ==
  /\ Node \in [Conns -> Nodes] /\ Caller \in [Calls -> Conns]
  /\ Code \in [Calls -> PairingIds] /\ NoCall \notin Calls

VARIABLES
  local,    \* RedisBackend.local of each server
  redis,    \* the keys latch:pair:* with the call whose data they hold
  wire,     \* pair_matched messages that the pub/sub has yet to deliver
  overdue,  \* the local entries older than PairingTTL
  expiring, \* those that CleanupPairings returned, not yet notified
  handler,  \* where the goroutine of each connection stands
  stopped,  \* the servers that are gone
  sent,     \* the calls that have been handled
  told      \* all messages sent about each call

vars ==
  <<local, redis, wire, overdue, expiring, handler, stopped, sent, told>>

-----------------------------------------------------------------------------
Matched(role, peer) == [is |-> role, with |-> peer]

Message ==
  [is : {"refused", "failed", "expired"}]
  \cup [is : {"initiator", "responder"}, with : Calls]

\* What is left to do: "storing" the SET GET, "deleting" and "taken" the DEL
\* after a local or a remote match, "dropping" the local entry, "matched" and
\* "halfway" the two halves of pair_matched, "clearing" the DEL of
\* RemovePairingsByConn.
Handler ==
       [at : {"reading", "closing", "closed"}]
  \cup [at : {"storing"}, call : Calls]
  \cup [at : {"deleting", "taken", "dropping", "matched", "halfway"},
        initiator : Calls, responder : Calls]
  \cup [at : {"clearing"}, codes : SUBSET PairingIds]

At(loc) == [at |-> loc]
Reading(c) == handler[c].at = "reading"
Home(k) == Node[Caller[k]]
Waiting == {local[n][p] : n \in Nodes, p \in PairingIds} \ {NoCall}

Tell(k, msg) == told' = [told EXCEPT ![k] = @ \cup {msg}]
Goto(c, h) == handler' = [handler EXCEPT ![c] = h]
SetLocal(n, p, k) == local' = [local EXCEPT ![n][p] = k]

Init ==
  /\ local = [n \in Nodes |-> [p \in PairingIds |-> NoCall]]
  /\ redis = [p \in PairingIds |-> NoCall]
  /\ wire = [n \in Nodes |-> <<>>]
  /\ overdue = {}
  /\ expiring = [n \in Nodes |-> {}]
  /\ handler = [c \in Conns |-> At("reading")]
  /\ stopped = {}
  /\ sent = {}
  /\ told = [k \in Calls |-> {}]

-----------------------------------------------------------------------------
(* handlePair and StorePairing *)

\* The rate limiter refuses the call: nothing is stored.
PairRefused(k) ==
  /\ Reading(Caller[k]) /\ k \notin sent
  /\ sent' = sent \cup {k}
  /\ Tell(k, [is |-> "refused"])
  /\ UNCHANGED <<local, redis, wire, overdue, expiring, handler, stopped>>

\* Mutant of MatchLocal: the absence of an entry is not noticed.
MatchNothing(k) ==
  /\ Reading(Caller[k]) /\ k \notin sent
  /\ Goto(Caller[k], [at |-> "deleting", responder |-> k,
                      initiator |-> local[Home(k)][Code[k]]])
  /\ sent' = sent \cup {k}
  /\ UNCHANGED <<local, redis, wire, overdue, expiring, stopped, told>>

\* The local entry is taken, whoever it belongs to.
MatchLocal(k) ==
  LET c == Caller[k]
      j == local[Home(k)][Code[k]]
  IN
  /\ Reading(c) /\ k \notin sent /\ j # NoCall
  /\ SetLocal(Home(k), Code[k], NoCall)
  /\ overdue' = overdue \ {j}
  /\ Goto(c, [at |-> "deleting", initiator |-> j, responder |-> k])
  /\ sent' = sent \cup {k}
  /\ UNCHANGED <<redis, wire, expiring, stopped, told>>

\* No local entry: one is made, and Redis is asked next.
StoreLocal(k) ==
  /\ Reading(Caller[k]) /\ k \notin sent
  /\ local[Home(k)][Code[k]] = NoCall
  /\ SetLocal(Home(k), Code[k], k)
  /\ Goto(Caller[k], [at |-> "storing", call |-> k])
  /\ sent' = sent \cup {k}
  /\ UNCHANGED <<redis, wire, overdue, expiring, stopped, told>>

\* Mutant of SetGet: GET, and SET only if there was nothing.
GetThenSet(c) ==
  LET k == handler[c].call
      j == redis[Code[k]]
  IN
  /\ handler[c].at = "storing"
  /\ redis' = [redis EXCEPT ![Code[k]] = IF j = NoCall THEN k ELSE j]
  /\ Goto(c, IF j = NoCall THEN At("reading")
             ELSE [at |-> "taken", initiator |-> j, responder |-> k])
  /\ UNCHANGED <<local, wire, overdue, expiring, stopped, sent, told>>

\* SET key data EX 600 GET: the data takes the place of what was there.
SetGet(c) ==
  LET k == handler[c].call
      j == redis[Code[k]]
  IN
  /\ handler[c].at = "storing"
  /\ redis' = [redis EXCEPT ![Code[k]] = k]
  /\ Goto(c, IF j = NoCall THEN At("reading")
             ELSE [at |-> "taken", initiator |-> j, responder |-> k])
  /\ UNCHANGED <<local, wire, overdue, expiring, stopped, sent, told>>

\* It fails or times out, before or after Redis has done it; the caller gets
\* an error, and the local entry stays.
SetGetFails(c) ==
  LET k == handler[c].call IN
  /\ handler[c].at = "storing"
  /\ redis' \in {redis, [redis EXCEPT ![Code[k]] = k]}
  /\ Tell(k, [is |-> "failed"])
  /\ Goto(c, At("reading"))
  /\ UNCHANGED <<local, wire, overdue, expiring, stopped, sent>>

\* DEL key, whatever it holds by now; that it fails is not noticed.
Del(c) ==
  LET h == handler[c] IN
  /\ h.at \in {"deleting", "taken"}
  /\ redis' \in {redis, [redis EXCEPT ![Code[h.responder]] = NoCall]}
  /\ handler' = [handler EXCEPT ![c].at =
                   IF h.at = "taken" THEN "dropping" ELSE "matched"]
  /\ UNCHANGED <<local, wire, overdue, expiring, stopped, sent, told>>

\* Mutant of DropLocal: StorePairing returns nil after every SET GET.
DropLocalOnly(c) ==
  LET h == handler[c]
      n == Node[c]
      p == Code[h.responder]
  IN
  /\ h.at = "dropping"
  /\ SetLocal(n, p, NoCall)
  /\ overdue' = overdue \ {local[n][p]}
  /\ Goto(c, At("reading"))
  /\ UNCHANGED <<redis, wire, expiring, stopped, sent, told>>

\* delete(r.local, pairingId), whatever it holds by now.  A match with an
\* entry of the same server is given up: the caller hears nothing.
DropLocal(c) ==
  LET h == handler[c]
      n == Node[c]
      p == Code[h.responder]
  IN
  /\ h.at = "dropping"
  /\ SetLocal(n, p, NoCall)
  /\ overdue' = overdue \ {local[n][p]}
  /\ handler' = [handler EXCEPT ![c] =
       IF Home(h.initiator) = n THEN At("reading")
       ELSE [h EXCEPT !.at = "matched"]]
  /\ UNCHANGED <<redis, wire, expiring, stopped, sent, told>>

\* Mutant of SendInitiator: the message names the initiator itself.
SendInitiatorItself(c) ==
  LET h == handler[c]
      msg == [code |-> Code[h.responder], with |-> h.initiator]
  IN
  /\ h.at = "matched"
  /\ wire' = [n \in Nodes |-> IF n = Node[c] \/ n \in stopped THEN wire[n]
                              ELSE Append(wire[n], msg)]
  /\ handler' = [handler EXCEPT ![c].at = "halfway"]
  /\ UNCHANGED <<local, redis, overdue, expiring, stopped, sent, told>>

\* The initiator's half: sent on its connection here, or published to the
\* other servers, all of them.
SendInitiator(c) ==
  LET h == handler[c]
      msg == [code |-> Code[h.responder], with |-> h.responder]
  IN
  /\ h.at = "matched"
  /\ IF Home(h.initiator) = Node[c]
     THEN /\ Tell(h.initiator, Matched("initiator", h.responder))
          /\ UNCHANGED wire
     ELSE /\ wire' = [n \in Nodes |->
                        IF n = Node[c] \/ n \in stopped THEN wire[n]
                        ELSE Append(wire[n], msg)]
          /\ UNCHANGED told
  /\ handler' = [handler EXCEPT ![c].at = "halfway"]
  /\ UNCHANGED <<local, redis, overdue, expiring, stopped, sent>>

\* The responder's half, on the connection of this goroutine.
SendResponder(c) ==
  LET h == handler[c] IN
  /\ h.at = "halfway"
  /\ Tell(h.responder, Matched("responder", h.initiator))
  /\ Goto(c, At("reading"))
  /\ UNCHANGED <<local, redis, wire, overdue, expiring, stopped, sent>>

\* handleRemotePairMatched tells whoever waits here under the code.
RemotePairMatched(n) ==
  LET msg == Head(wire[n])
      k == local[n][msg.code]
  IN
  /\ wire[n] # <<>>
  /\ wire' = [wire EXCEPT ![n] = Tail(@)]
  /\ IF k = NoCall THEN UNCHANGED <<local, overdue, told>>
     ELSE /\ SetLocal(n, msg.code, NoCall)
          /\ overdue' = overdue \ {k}
          /\ Tell(k, Matched("initiator", msg.with))
  /\ UNCHANGED <<redis, expiring, handler, stopped, sent>>

\* A message does not arrive, or was never published.
Lose(n) ==
  /\ wire[n] # <<>>
  /\ wire' = [wire EXCEPT ![n] = Tail(@)]
  /\ UNCHANGED <<local, redis, overdue, expiring, handler, stopped, sent, told>>

-----------------------------------------------------------------------------
(* Disconnection, expiry, and the end of a server *)

\* The read loop ends.
CloseConn(c) ==
  /\ Reading(c)
  /\ Goto(c, At("closing"))
  /\ UNCHANGED <<local, redis, wire, overdue, expiring, stopped, sent, told>>

CodesOf(c) ==
  {p \in PairingIds : local[Node[c]][p] # NoCall
                      /\ Caller[local[Node[c]][p]] = c}

\* Mutant of RemovePairingsByConn: the key goes and the local entry stays.
RemoveKeysByConn(c) ==
  /\ handler[c].at = "closing"
  /\ Goto(c, IF CodesOf(c) = {} THEN At("closed")
             ELSE [at |-> "clearing", codes |-> CodesOf(c)])
  /\ UNCHANGED <<local, redis, wire, overdue, expiring, stopped, sent, told>>

\* RemovePairingsByConn: the local entries of the connection ...
RemovePairingsByConn(c) ==
  LET n == Node[c] IN
  /\ handler[c].at = "closing"
  /\ local' = [local EXCEPT ![n] = [p \in PairingIds |->
                 IF p \in CodesOf(c) THEN NoCall ELSE @[p]]]
  /\ overdue' = overdue \ {local[n][p] : p \in CodesOf(c)}
  /\ Goto(c, IF CodesOf(c) = {} THEN At("closed")
             ELSE [at |-> "clearing", codes |-> CodesOf(c)])
  /\ UNCHANGED <<redis, wire, expiring, stopped, sent, told>>

\* ... and then the keys of that name.
ClearKeys(c) ==
  LET h == handler[c] IN
  /\ h.at = "clearing"
  /\ redis' \in {redis, [p \in PairingIds |-> IF p \in h.codes THEN NoCall
                                              ELSE redis[p]]}
  /\ Goto(c, At("closed"))
  /\ UNCHANGED <<local, wire, overdue, expiring, stopped, sent, told>>

\* PairingTTL passes for a local entry.
Age(k) ==
  /\ k \in Waiting \ overdue
  /\ overdue' = overdue \cup {k}
  /\ UNCHANGED <<local, redis, wire, expiring, handler, stopped, sent, told>>

\* A tick of cleanupLoop.  The keys are left to their own time to live.
CleanupPairings(n) ==
  LET late == {local[n][p] : p \in PairingIds} \cap overdue IN
  /\ expiring[n] = {} /\ late # {}
  /\ expiring' = [expiring EXCEPT ![n] = late]
  /\ overdue' = overdue \ late
  /\ local' = [local EXCEPT ![n] = [p \in PairingIds |->
                 IF @[p] \in late THEN NoCall ELSE @[p]]]
  /\ UNCHANGED <<redis, wire, handler, stopped, sent, told>>

SendExpired(n, k) ==
  /\ k \in expiring[n]
  /\ expiring' = [expiring EXCEPT ![n] = @ \ {k}]
  /\ Tell(k, [is |-> "expired"])
  /\ UNCHANGED <<local, redis, wire, overdue, handler, stopped, sent>>

\* The time to live of a key, ten minutes, runs out.
KeyExpires(p) ==
  /\ redis[p] # NoCall
  /\ redis' = [redis EXCEPT ![p] = NoCall]
  /\ UNCHANGED <<local, wire, overdue, expiring, handler, stopped, sent, told>>

\* A server stops: its connections and its memory go, its keys stay.
Stop(n) ==
  /\ n \notin stopped
  /\ stopped' = stopped \cup {n}
  /\ overdue' = {k \in overdue : Home(k) # n}
  /\ local' = [local EXCEPT ![n] = [p \in PairingIds |-> NoCall]]
  /\ wire' = [wire EXCEPT ![n] = <<>>]
  /\ expiring' = [expiring EXCEPT ![n] = {}]
  /\ handler' = [c \in Conns |-> IF Node[c] = n THEN At("closed")
                                 ELSE handler[c]]
  /\ UNCHANGED <<redis, sent, told>>

-----------------------------------------------------------------------------
Next ==
  \/ \E k \in Calls : \/ PairRefused(k) \/ MatchLocal(k) \/ StoreLocal(k)
                      \/ Age(k)
  \/ \E c \in Conns : \/ SetGet(c) \/ SetGetFails(c) \/ Del(c) \/ DropLocal(c)
                      \/ SendInitiator(c) \/ SendResponder(c)
                      \/ CloseConn(c) \/ RemovePairingsByConn(c) \/ ClearKeys(c)
  \/ \E n \in Nodes : \/ RemotePairMatched(n) \/ Lose(n) \/ CleanupPairings(n)
                      \/ Stop(n)
                      \/ \E k \in Calls : SendExpired(n, k)
  \/ \E p \in PairingIds : KeyExpires(p)

Spec == Init /\ [][Next]_vars

-----------------------------------------------------------------------------
(* Properties *)

\* Every variable has the shape of the Go value it stands for; a local entry
\* is on the server of its connection, under its own code.
TypeOK ==
  /\ local \in [Nodes -> [PairingIds -> Calls \cup {NoCall}]]
  /\ \A n \in Nodes, p \in PairingIds :
       local[n][p] # NoCall => Home(local[n][p]) = n /\ Code[local[n][p]] = p
  /\ redis \in [PairingIds -> Calls \cup {NoCall}]
  /\ wire \in [Nodes -> Seq([code : PairingIds, with : Calls])]
  /\ overdue \subseteq Waiting
  /\ expiring \in [Nodes -> SUBSET Calls]
  /\ handler \in [Conns -> Handler]
  /\ stopped \subseteq Nodes
  /\ sent \subseteq Calls
  /\ told \in [Calls -> SUBSET Message]

\* However the servers interleave, and whatever fails, Redis hands the data
\* of a waiting call to one server only: no two calls on other servers are
\* both introduced to it.
HandedOutOnce ==
  \A i, j, k \in Calls :
    /\ i # j /\ Matched("responder", k) \in told[i] \cap told[j]
    => Home(k) \in {Home(i), Home(j)}

\* A call that has been told it is the initiator towards j really has a
\* partner that knows of a match: j was told, is about to be told, or its
\* server stopped.
InitiatorsHaveAMatch ==
  \A j, k \in Calls :
    Matched("initiator", j) \in told[k] =>
      \/ \E i \in Calls : Matched("responder", i) \in told[j]
      \/ handler[Caller[j]].at = "halfway" /\ handler[Caller[j]].responder = j
      \/ Home(j) \in stopped

\* A connection that is gone leaves no local entry behind.
ClosedLeavesNoEntry ==
  \A k \in Waiting : handler[Caller[k]].at \notin {"clearing", "closed"}

\* Who holds call k and will yet say something about it.
Held(k) ==
  \/ k \in Waiting \/ k \in expiring[Home(k)]
  \/ \E c \in Conns :
       \/ handler[c].at = "storing" /\ handler[c].call = k
       \/ /\ handler[c].at \in {"deleting", "taken", "dropping", "matched",
                                "halfway"}
          /\ \/ handler[c].responder = k
             \/ handler[c].initiator = k /\ Home(k) = Node[c]

\* A request without an answer whose connection is served has been lost when
\* no goroutine and no table of its server has it any more.
Lost(k) ==
  /\ k \in sent /\ told[k] = {} /\ ~Held(k)
  /\ handler[Caller[k]].at \notin {"clearing", "closed"}

\* A request that is the only one under its code on its server is never lost,
\* whatever the other servers do.
LoneRequestsAreHeld ==
  \A k \in Calls :
    Lost(k) => \E j \in Calls \ {k} : Home(j) = Home(k) /\ Code[j] = Code[k]
=============================================================================
