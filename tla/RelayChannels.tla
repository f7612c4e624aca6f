---------------------------- MODULE RelayChannels ----------------------------
(***************************************************************************)
(* The channel table of one Latch Relay server with the memory backend     *)
(* (server/internal/relay/bridge.go, handler.go).                          *)
(*                                                                         *)
(* One action is one critical section.  Every handler and every timer      *)
(* looks the channel up under Bridge.mu, takes Channel.mu before it drops  *)
(* Bridge.mu, and works under Channel.mu alone: such a section is atomic   *)
(* with respect to all others on that channel.  What runs after            *)
(* Channel.mu is released is an action of its own: the second look-up that *)
(* deletes an emptied channel (FinishLeave, DeferredDelete), the notice of *)
(* handleVerifyRejected (SendRejected), and the two halves of              *)
(* UnregisterConn.                                                         *)
(*                                                                         *)
(* Timers are not timed: once started a timer may fire at any moment, so   *)
(* the model has every order of timeouts, messages and disconnections.     *)
(***************************************************************************)
EXTENDS Naturals, FiniteSets

CONSTANTS
  Conns,             \* WebSocket connections; none is used twice
  NoConn,            \* the nil *ChannelMember
  ChIds,             \* channel identifiers
  Ids,               \* the ids clients report
  NoId,
  IdOf,              \* the id each connection joins with (an SDK has one id)
  MaxChannelsTotal,  \* BridgeConfig.MaxChannelsTotal
  RandMayFail,       \* whether crypto/rand.Read may return an error
  MaxJoins,          \* bound: joins each connection gets through
  MaxChallengeTimers, \* bounds: timers still running when a join starts more
  MaxWaitTimers

ASSUME ConnsAssumption == NoConn \notin Conns
ASSUME IdsAssumption == NoId \notin Ids /\ IdOf \in [Conns -> Ids]
ASSUME LimitsAssumption ==
  /\ MaxChannelsTotal \in Nat /\ MaxJoins \in [Conns -> Nat]
  /\ MaxChallengeTimers \in Nat /\ MaxWaitTimers \in Nat
ASSUME RandAssumption == RandMayFail \in BOOLEAN

VARIABLES
  channels,        \* Bridge.channels: the Channel under each identifier
  connChannels,    \* Connection.Channels
  handler,         \* where the goroutine of each connection stands
  challengeTimers, \* running challengeTimeout goroutines, per conn and channel
  waitTimers,      \* running waitPeerTimeout goroutines
  deletes,         \* timers between ch.mu.Unlock and the final b.mu.Lock
  reads,           \* calls of rand.Read so far; the last one's nonce
  joins,           \* joins each connection has got through
  view,            \* the last notice on each channel that a client got
  relayed          \* the data message the latest step forwarded, if any

vars == <<channels, connChannels, handler, challengeTimers, waitTimers,
          deletes, reads, joins, view, relayed>>

-----------------------------------------------------------------------------
(* Data.  A nonce is the number of the rand.Read call that made it (0 is    *)
(* nil); obj tells apart the Channel objects one identifier has had.        *)

Slot == {0, 1}
Nonce == Nat
State == {"NONE", "WAIT_PEER", "CHALLENGING", "ACTIVE"}

ChannelMember == [conn : Conns, nonce : Nonce, answered : BOOLEAN]

NoPeer == [conn |-> NoConn, nonce |-> 0, answered |-> FALSE]

Peer == ChannelMember \cup {NoPeer}

Channel ==
  [state : State, waitGen : Nat, peers : [Slot -> Peer], obj : Nat]

NoPeers == [s \in Slot |-> NoPeer]

\* What channels[ch] is when the map has no entry for ch.
NoChannel == [state |-> "NONE", waitGen |-> 0, peers |-> NoPeers, obj |-> 0]

Notice ==
  [type : {"out", "challenge", "verify_peer", "peer_left",
           "verify_rejected", "dropped"},
   nonce : Nonce, peer : Ids \cup {NoId}]

\* A client is "out" before it joins, once it has left, and after the errors
\* replaced and challenge_timeout.
Note(type)    == [type |-> type, nonce |-> 0, peer |-> NoId]
Challenge(n)  == [type |-> "challenge", nonce |-> n, peer |-> NoId]
VerifyPeer(m) == [type |-> "verify_peer", nonce |-> 0, peer |-> IdOf[m.conn]]

NoRelay == [ch |-> "none"]
Delete == [ch : ChIds, obj : Nat]
WaitTimer == [ch : ChIds, gen : Nat, obj : Nat]

\* The read loop of HandleConnect is sequential: a connection serves its next
\* message, or its end, only when "reading".
Handler ==
       [at : {"new", "reading", "closed"}]
  \cup [at : {"leaving"}, ch : ChIds, obj : Nat]
  \cup [at : {"rejecting"}, ch : ChIds, to : Conns]
  \cup [at : {"closing"}, chs : SUBSET ChIds]

At(loc) == [at |-> loc]

Reading(c) == handler[c].at = "reading"
\* A write to the socket still reaches the client.
Open(c) == handler[c].at \in {"reading", "leaving", "rejecting"}

Mapped(ch) == channels[ch].state # "NONE"
Members(k) == {s \in Slot : k.peers[s].conn # NoConn}
SlotsOf(k, c) == {s \in Slot : k.peers[s].conn = c}
\* The first slot of c, where it has one.
SlotOf(k, c) == IF k.peers[0].conn = c THEN 0 ELSE 1
\* Mutant of OtherSlot: a peer is shown its own answer.
SameSlot(k, c) == SlotOf(k, c)
OtherSlot(k, c) == 1 - SlotOf(k, c)
ConnsOf(k) == {k.peers[s].conn : s \in Members(k)}

\* ch.State = StateWaitPeer; ch.WaitGen++
BackToWait(k, peers) ==
  [state |-> "WAIT_PEER", waitGen |-> k.waitGen + 1, peers |-> peers,
   obj |-> k.obj]

\* Mutants of Without: the counter runs down; the state is not reset.
WithoutCountsDown(k, s) ==
  LET rest == Members(k) \ {s} IN
  IF rest = {} THEN [k EXCEPT !.peers[s] = NoPeer]
  ELSE [k EXCEPT !.state = "WAIT_PEER", !.waitGen = @ - 1,
                 !.peers[s] = NoPeer]
WithoutKeepsState(k, s) ==
  [k EXCEPT !.waitGen = @ + 1, !.peers[s] = NoPeer]

\* Takes slot s out of k.  A remaining peer drops back to WAIT_PEER and its
\* challenge data is discarded.
Without(k, s) ==
  LET rest == Members(k) \ {s} IN
  IF rest = {}
  THEN [k EXCEPT !.peers[s] = NoPeer]
  ELSE BackToWait(k, [t \in Slot |->
                        IF t \in rest
                        THEN [conn |-> k.peers[t].conn, nonce |-> 0,
                              answered |-> FALSE]
                        ELSE NoPeer])

\* Mutant of WaitTimerOf: gen is read before the increment.
WaitTimerOfLastGen(ch, k) ==
  IF Members(k) = {} THEN {}
  ELSE {[ch |-> ch, gen |-> k.waitGen - 1, obj |-> k.obj]}

\* The timer a channel gets when it is back in WAIT_PEER with a member.
WaitTimerOf(ch, k) ==
  IF Members(k) = {} THEN {}
  ELSE {[ch |-> ch, gen |-> k.waitGen, obj |-> k.obj]}

\* sendMsg is fire-and-forget: what is written to a closed socket is lost.
Tell(ch, notices) ==
  view' = [c \in Conns |->
             IF c \in DOMAIN notices /\ Open(c)
             THEN [view[c] EXCEPT ![ch] = notices[c]]
             ELSE view[c]]

Unindex(cs, ch) ==
  connChannels' = [c \in Conns |-> IF c \in cs THEN connChannels[c] \ {ch}
                                   ELSE connChannels[c]]

-----------------------------------------------------------------------------
Init ==
  /\ channels = [ch \in ChIds |-> NoChannel]
  /\ connChannels = [c \in Conns |-> {}]
  /\ handler = [c \in Conns |-> At("new")]
  /\ challengeTimers = [c \in Conns |-> [ch \in ChIds |-> 0]]
  /\ waitTimers = {}
  /\ deletes = {}
  /\ reads = 0
  /\ joins = [c \in Conns |-> 0]
  /\ view = [c \in Conns |-> [ch \in ChIds |-> Note("out")]]
  /\ relayed = NoRelay

\* HandleConnect accepts a WebSocket and registers it.
RegisterConn(c) ==
  /\ handler[c].at = "new"
  /\ handler' = [handler EXCEPT ![c] = At("reading")]
  /\ relayed' = NoRelay
  /\ UNCHANGED <<channels, connChannels, challengeTimers, waitTimers, deletes,
                 reads, joins, view>>

-----------------------------------------------------------------------------
(* join *)

\* The Channel a join works on: the mapped one or a new one.
Opened(ch) ==
  IF Mapped(ch) THEN channels[ch]
  ELSE [state |-> "WAIT_PEER", waitGen |-> 0, peers |-> NoPeers,
        obj |-> reads + 1]

\* Mutant of Replaced: ids are not compared.
ReplacedNobody(c, k) == {}

\* The connections under the joining id lose their slots...
Replaced(c, k) == {d \in ConnsOf(k) : IdOf[d] = IdOf[c]}

\* ... and this is the channel they leave behind.
AfterReplacement(c, k) ==
  [k EXCEPT !.peers = [s \in Slot |->
                         IF k.peers[s].conn \in Replaced(c, k) THEN NoPeer
                         ELSE k.peers[s]]]

FreeSlot(k) == IF k.peers[0].conn = NoConn THEN 0 ELSE 1

\* Mutant of Seat: a seated peer keeps its old nonce.
SeatKeepsNonce(k, s, c, n) ==
  [k EXCEPT !.peers[s] =
     [conn |-> c, nonce |-> IF k.peers[s].conn = c THEN k.peers[s].nonce
                            ELSE n, answered |-> FALSE]]

Seat(k, s, c, n) ==
  [k EXCEPT !.peers[s] = [conn |-> c, nonce |-> n, answered |-> FALSE]]

\* Mutant of Index: the replaced connections are dropped last.
IndexDropsLast(c, ch, old) ==
  connChannels' = [d \in Conns |-> IF d \in old THEN connChannels[d] \ {ch}
                                   ELSE IF d = c
                                   THEN connChannels[d] \cup {ch}
                                   ELSE connChannels[d]]

\* conn.Channels after c joined ch in place of the connections in old.
Index(c, ch, old) ==
  connChannels' = [d \in Conns |-> IF d = c THEN connChannels[d] \cup {ch}
                                   ELSE IF d \in old
                                   THEN connChannels[d] \ {ch}
                                   ELSE connChannels[d]]

JoinAllowed(c, ch) ==
  /\ Reading(c) /\ joins[c] < MaxJoins[c]
  /\ challengeTimers[c][ch] < MaxChallengeTimers
  /\ Cardinality(waitTimers) < MaxWaitTimers
  /\ \/ Mapped(ch)
     \/ Cardinality({x \in ChIds : Mapped(x)}) < MaxChannelsTotal

\* A join calls rand.Read n times.
Draw(c, n) == reads' = reads + n /\ joins' = [joins EXCEPT ![c] = @ + 1]

\* The first peer: WAIT_PEER, challenged at once, with both timers.
JoinFirst(c, ch) ==
  LET k == AfterReplacement(c, Opened(ch))
      old == Replaced(c, Opened(ch))
      seated == BackToWait(k, Seat(k, 0, c, reads + 1).peers)
  IN
  /\ JoinAllowed(c, ch)
  /\ Members(k) = {}
  /\ Draw(c, 1)
  /\ channels' = [channels EXCEPT ![ch] = seated]
  /\ Index(c, ch, old)
  /\ waitTimers' = waitTimers \cup WaitTimerOf(ch, seated)
  /\ challengeTimers' = [challengeTimers EXCEPT ![c][ch] = @ + 1]
  /\ Tell(ch, [d \in old \cup {c} |->
                 IF d = c THEN Challenge(reads + 1) ELSE Note("out")])
  /\ relayed' = NoRelay
  /\ UNCHANGED <<handler, deletes>>

\* The second peer: both are challenged with fresh nonces; only the joining
\* one gets a challenge timer.
JoinSecond(c, ch) ==
  LET k == AfterReplacement(c, Opened(ch))
      old == Replaced(c, Opened(ch))
      s == FreeSlot(k)
      peer == k.peers[1 - s].conn
  IN
  /\ JoinAllowed(c, ch)
  /\ Members(k) = {1 - s}
  /\ Draw(c, 2)
  /\ channels' = [channels EXCEPT ![ch] =
       [Seat(Seat(k, s, c, reads + 1), 1 - s, peer, reads + 2)
          EXCEPT !.state = "CHALLENGING"]]
  /\ Index(c, ch, old)
  /\ challengeTimers' = [challengeTimers EXCEPT ![c][ch] = @ + 1]
  /\ Tell(ch, [d \in old \cup {c, peer} |->
                 CASE d = c    -> Challenge(reads + 1)
                   [] d = peer -> Challenge(reads + 2)
                   [] OTHER    -> Note("out")])
  /\ relayed' = NoRelay
  /\ UNCHANGED <<handler, waitTimers, deletes>>

\* The first rand.Read fails: the join stops after the replacement, and a
\* channel it had just created stays in the map, empty.
JoinNonceFails(c, ch) ==
  LET k == AfterReplacement(c, Opened(ch))
      old == Replaced(c, Opened(ch))
  IN
  /\ RandMayFail
  /\ JoinAllowed(c, ch)
  /\ Members(k) # Slot
  /\ Draw(c, 1)
  /\ channels' = [channels EXCEPT ![ch] = k]
  /\ Unindex(old, ch)
  /\ Tell(ch, [d \in old |-> Note("out")])
  /\ relayed' = NoRelay
  /\ UNCHANGED <<handler, challengeTimers, waitTimers, deletes>>

\* The nonce of the remaining peer's new challenge fails: the join is undone
\* and the channel waits again.
JoinSecondNonceFails(c, ch) ==
  LET k == AfterReplacement(c, Opened(ch))
      old == Replaced(c, Opened(ch))
      waiting == BackToWait(k, k.peers)
  IN
  /\ RandMayFail
  /\ JoinAllowed(c, ch)
  /\ Members(k) = {1 - FreeSlot(k)}
  /\ Draw(c, 2)
  /\ channels' = [channels EXCEPT ![ch] = waiting]
  /\ Unindex(old \cup {c}, ch)
  /\ waitTimers' = waitTimers \cup WaitTimerOf(ch, waiting)
  /\ Tell(ch, [d \in old |-> Note("out")])
  /\ relayed' = NoRelay
  /\ UNCHANGED <<handler, challengeTimers, deletes>>

HandleJoin(c, ch) ==
  \/ JoinFirst(c, ch)
  \/ JoinSecond(c, ch)
  \/ JoinNonceFails(c, ch)
  \/ JoinSecondNonceFails(c, ch)

-----------------------------------------------------------------------------
(* response, message *)

\* Mutant of Completes: the check runs before the answer is stored.
CompletesTooEarly(k, s) == \A t \in Slot : k.peers[t].answered

\* Whether both members have answered once slot s has.
Completes(k, s) == \A t \in Slot \ {s} : k.peers[t].answered

Answered(k, s) == [k EXCEPT !.peers[s].answered = TRUE]

\* Both are shown to each other and the challenge data is cleared.
Activated(k) ==
  [k EXCEPT !.state = "ACTIVE",
            !.peers = [t \in Slot |-> [conn |-> k.peers[t].conn, nonce |-> 0,
                                       answered |-> FALSE]]]

\* A member answers its challenge.  The server cannot check the answer, nor
\* tell which challenge it answers, nor that one is pending.
HandleResponse(c, ch) ==
  /\ Reading(c) /\ Mapped(ch)
  /\ \E s \in SlotsOf(channels[ch], c) :
       LET k == channels[ch] IN
       \/ /\ ~Completes(k, s)
          /\ channels' = [channels EXCEPT ![ch] = Answered(k, s)]
          /\ UNCHANGED view
       \/ /\ Completes(k, s)
          /\ channels' = [channels EXCEPT ![ch] = Activated(k)]
          /\ Tell(ch, [d \in ConnsOf(k) |->
                         VerifyPeer(k.peers[OtherSlot(k, d)])])
  /\ relayed' = NoRelay
  /\ UNCHANGED <<connChannels, handler, challengeTimers, waitTimers, deletes,
                 reads, joins>>

\* Mutant of HandleRelay: the state of the channel is not checked.
HandleRelayUnchecked(c, ch) ==
  /\ Reading(c)
  /\ \E s \in SlotsOf(channels[ch], c) :
       LET to == channels[ch].peers[1 - s].conn IN
       /\ to # NoConn
       /\ relayed' = [ch |-> ch, from |-> c, to |-> to]
  /\ UNCHANGED <<channels, connChannels, handler, challengeTimers, waitTimers,
                 deletes, reads, joins, view>>

\* A member's data message goes to the other member of an ACTIVE channel.
HandleRelay(c, ch) ==
  /\ Reading(c) /\ channels[ch].state = "ACTIVE"
  /\ \E s \in SlotsOf(channels[ch], c) :
       LET to == channels[ch].peers[1 - s].conn IN
       /\ to # NoConn
       /\ relayed' = [ch |-> ch, from |-> c, to |-> to]
  /\ UNCHANGED <<channels, connChannels, handler, challengeTimers, waitTimers,
                 deletes, reads, joins, view>>

-----------------------------------------------------------------------------
(* leave, error verify_rejected, disconnection *)

\* A member leaves.  With a peer remaining the rest of the handler touches
\* only the leaver's own Channels and belongs to this step; an emptied
\* channel is deleted later, by FinishLeave.
LeaveMember(c, ch) ==
  \E s \in SlotsOf(channels[ch], c) :
    LET k == Without(channels[ch], s)
        rest == ConnsOf(k)
    IN
    /\ channels' = [channels EXCEPT ![ch] = k]
    /\ waitTimers' = waitTimers \cup WaitTimerOf(ch, k)
    /\ Tell(ch, [d \in rest \cup {c} |->
                   Note(IF d = c THEN "out" ELSE "peer_left")])
    /\ IF rest = {}
       THEN /\ handler' = [handler EXCEPT ![c] =
                 [at |-> "leaving", ch |-> ch, obj |-> k.obj]]
            /\ UNCHANGED connChannels
       ELSE Unindex({c}, ch) /\ UNCHANGED handler

\* A connection without a slot in the channel only drops the identifier.
LeaveStranger(c, ch) ==
  /\ SlotsOf(channels[ch], c) = {}
  /\ Unindex({c}, ch)
  /\ Tell(ch, [d \in {c} |-> Note("out")])
  /\ UNCHANGED <<channels, handler, waitTimers>>

HandleLeave(c, ch) ==
  /\ Reading(c) /\ Mapped(ch)
  /\ LeaveMember(c, ch) \/ LeaveStranger(c, ch)
  /\ relayed' = NoRelay
  /\ UNCHANGED <<challengeTimers, deletes, reads, joins>>

\* Mutant of DeleteIfSame: the comparison is inverted.
DeleteIfOther(ch, obj) ==
  channels' = IF channels[ch].obj # obj
              THEN [channels EXCEPT ![ch] = NoChannel]
              ELSE channels

\* if b.channels[id] == ch { delete(b.channels, id) }
DeleteIfSame(ch, obj) ==
  channels' = IF channels[ch].obj = obj
              THEN [channels EXCEPT ![ch] = NoChannel]
              ELSE channels

FinishLeave(c) ==
  LET h == handler[c] IN
  /\ h.at = "leaving"
  /\ DeleteIfSame(h.ch, h.obj)
  /\ Unindex({c}, h.ch)
  /\ handler' = [handler EXCEPT ![c] = At("reading")]
  /\ relayed' = NoRelay
  /\ UNCHANGED <<challengeTimers, waitTimers, deletes, reads, joins, view>>

\* Whoever sends it, the channel goes; the last member that is not the
\* sender is notified after the locks are released (SendRejected).  A second
\* one, when the sender was no member, is "dropped": it hears nothing.
HandleVerifyRejected(c, ch) ==
  LET k == channels[ch]
      others == {s \in Members(k) : k.peers[s].conn # c}
      last == IF 1 \in others THEN 1 ELSE 0
  IN
  /\ Reading(c) /\ Mapped(ch)
  /\ channels' = [channels EXCEPT ![ch] = NoChannel]
  /\ Unindex(ConnsOf(k), ch)
  /\ handler' = [handler EXCEPT ![c] =
       IF others = {} THEN At("reading")
       ELSE [at |-> "rejecting", ch |-> ch, to |-> k.peers[last].conn]]
  /\ Tell(ch, [d \in {c} \cup {k.peers[s].conn : s \in others \ {last}} |->
                 Note(IF d = c THEN "out" ELSE "dropped")])
  /\ relayed' = NoRelay
  /\ UNCHANGED <<challengeTimers, waitTimers, deletes, reads, joins>>

SendRejected(c) ==
  LET h == handler[c] IN
  /\ h.at = "rejecting"
  /\ Tell(h.ch, [d \in {h.to} |-> Note("verify_rejected")])
  /\ handler' = [handler EXCEPT ![c] = At("reading")]
  /\ relayed' = NoRelay
  /\ UNCHANGED <<channels, connChannels, challengeTimers, waitTimers, deletes,
                 reads, joins>>

\* The read loop ends: the socket is closed and UnregisterConn copies
\* conn.Channels before it takes any other lock.
CloseConn(c) ==
  /\ Reading(c)
  /\ handler' = [handler EXCEPT ![c] =
       [at |-> "closing", chs |-> connChannels[c]]]
  /\ view' = [view EXCEPT ![c] = [ch \in ChIds |-> Note("out")]]
  /\ relayed' = NoRelay
  /\ UNCHANGED <<channels, connChannels, challengeTimers, waitTimers, deletes,
                 reads, joins>>

\* The rest of UnregisterConn, under Bridge.mu: the copied channels lose the
\* connection, and those it leaves empty are deleted on the spot.
Cut(c, ch) ==
  IF SlotsOf(channels[ch], c) = {} THEN channels[ch]
  ELSE LET k == Without(channels[ch], SlotOf(channels[ch], c))
       IN IF Members(k) = {} THEN NoChannel ELSE k

UnregisterConn(c) ==
  LET h == handler[c]
      cut == {ch \in h.chs : SlotsOf(channels[ch], c) # {}}
  IN
  /\ h.at = "closing"
  /\ channels' = [ch \in ChIds |-> IF ch \in cut THEN Cut(c, ch)
                                   ELSE channels[ch]]
  /\ waitTimers' = waitTimers \cup
       UNION {WaitTimerOf(ch, Cut(c, ch)) : ch \in cut}
  /\ view' = [d \in Conns |-> [ch \in ChIds |->
       IF ch \in cut /\ d \in ConnsOf(channels[ch]) \ {c} /\ Open(d)
       THEN Note("peer_left") ELSE view[d][ch]]]
  /\ connChannels' = [connChannels EXCEPT ![c] = {}]
  /\ handler' = [handler EXCEPT ![c] = At("closed")]
  /\ relayed' = NoRelay
  /\ UNCHANGED <<challengeTimers, deletes, reads, joins>>

-----------------------------------------------------------------------------
(* timers *)

\* Mutant of Expire: the evicted connection is not told.
ExpireSilently(c, ch, s) ==
  LET k == channels[ch]
      rest == Without(k, s)
  IN
  /\ channels' = [channels EXCEPT ![ch] = rest]
  /\ waitTimers' = waitTimers \cup WaitTimerOf(ch, rest)
  /\ Unindex({c}, ch)
  /\ deletes' = IF Members(rest) = {}
                THEN deletes \cup {[ch |-> ch, obj |-> k.obj]}
                ELSE deletes
  /\ UNCHANGED view

\* c loses slot s and is told; the remaining peer is told nothing.
Expire(c, ch, s) ==
  LET k == channels[ch]
      rest == Without(k, s)
  IN
  /\ channels' = [channels EXCEPT ![ch] = rest]
  /\ waitTimers' = waitTimers \cup WaitTimerOf(ch, rest)
  /\ Unindex({c}, ch)
  /\ Tell(ch, [d \in {c} |-> Note("out")])
  /\ deletes' = IF Members(rest) = {}
                THEN deletes \cup {[ch |-> ch, obj |-> k.obj]}
                ELSE deletes

\* The timer of a join removes the connection from the channel if it is a
\* member without an answer, whatever has happened to the channel since.
ChallengeTimeout(c, ch) ==
  LET expired == {s \in SlotsOf(channels[ch], c) :
                    ~channels[ch].peers[s].answered}
  IN
  /\ challengeTimers[c][ch] > 0
  /\ challengeTimers' = [challengeTimers EXCEPT ![c][ch] = @ - 1]
  /\ \/ /\ expired = {}
        /\ UNCHANGED <<channels, connChannels, waitTimers, deletes, view>>
     \/ \E s \in expired : Expire(c, ch, s)
  /\ relayed' = NoRelay
  /\ UNCHANGED <<handler, reads, joins>>

\* A timer of another generation does nothing; otherwise all members go.
WaitPeerTimeout(t) ==
  LET k == channels[t.ch] IN
  /\ t \in waitTimers
  /\ waitTimers' = waitTimers \ {t}
  /\ IF k.state = "WAIT_PEER" /\ k.waitGen = t.gen
     THEN /\ channels' = [channels EXCEPT ![t.ch].peers = NoPeers]
          /\ Unindex(ConnsOf(k), t.ch)
          /\ Tell(t.ch, [d \in ConnsOf(k) |-> Note("out")])
          /\ deletes' = deletes \cup {[ch |-> t.ch, obj |-> k.obj]}
     ELSE UNCHANGED <<channels, connChannels, deletes, view>>
  /\ relayed' = NoRelay
  /\ UNCHANGED <<handler, challengeTimers, reads, joins>>

\* The end of challengeTimeout and waitPeerTimeout for an emptied channel.
DeferredDelete(d) ==
  /\ d \in deletes
  /\ deletes' = deletes \ {d}
  /\ DeleteIfSame(d.ch, d.obj)
  /\ relayed' = NoRelay
  /\ UNCHANGED <<connChannels, handler, challengeTimers, waitTimers, reads, joins,
                 view>>

-----------------------------------------------------------------------------
Serve(c) ==
  \/ RegisterConn(c)
  \/ \E ch \in ChIds : \/ HandleJoin(c, ch)
                       \/ HandleResponse(c, ch)
                       \/ HandleRelay(c, ch)
                       \/ HandleLeave(c, ch)
                       \/ HandleVerifyRejected(c, ch)
  \/ FinishLeave(c)
  \/ SendRejected(c)
  \/ CloseConn(c)
  \/ UnregisterConn(c)

FireChallenge == \E c \in Conns, ch \in ChIds : ChallengeTimeout(c, ch)
FireWait == \E t \in waitTimers : WaitPeerTimeout(t)
FinishDelete == \E d \in deletes : DeferredDelete(d)

Next ==
  \/ \E c \in Conns : Serve(c)
  \/ FireChallenge
  \/ FireWait
  \/ FinishDelete

Spec == Init /\ [][Next]_vars

\* A started goroutine runs on, and a started timer goes off (there are only
\* finitely many, so all of them do).  Nothing makes a client act.
Fairness ==
  /\ WF_vars(FireChallenge)
  /\ WF_vars(FireWait)
  /\ WF_vars(FinishDelete)
  /\ \A c \in Conns : /\ WF_vars(FinishLeave(c))
                      /\ WF_vars(SendRejected(c))
                      /\ WF_vars(UnregisterConn(c))

FairSpec == Spec /\ Fairness

-----------------------------------------------------------------------------
(* Properties *)

\* Every variable has the shape of the Go value it stands for.
TypeOK ==
  /\ channels \in [ChIds -> Channel]
  /\ connChannels \in [Conns -> SUBSET ChIds]
  /\ handler \in [Conns -> Handler]
  /\ challengeTimers \in [Conns -> [ChIds -> Nat]]
  /\ waitTimers \subseteq WaitTimer
  /\ deletes \subseteq Delete
  /\ reads \in Nat
  /\ joins \in [Conns -> Nat]
  /\ view \in [Conns -> [ChIds -> Notice]]
  /\ relayed \in {NoRelay} \cup [ch : ChIds, from : Conns, to : Conns]

\* CHALLENGING and ACTIVE mean two members, WAIT_PEER at most one: no order
\* of joins, leaves, replacements and timeouts leaves a half-empty channel
\* that relays, or a full one that waits for a peer.
StateMatchesMembers ==
  \A ch \in ChIds :
    LET k == channels[ch] IN
    /\ k.state \in {"CHALLENGING", "ACTIVE"} => Members(k) = Slot
    /\ k.state \in {"NONE", "WAIT_PEER"} => Members(k) # Slot

\* The two members of a channel joined under different ids: a reconnecting
\* client takes its own old slot and never meets itself (bridge.go:382).
DistinctMembers ==
  \A ch \in ChIds : \A s, t \in Members(channels[ch]) :
    s # t => IdOf[channels[ch].peers[s].conn] # IdOf[channels[ch].peers[t].conn]

\* As soon as both members have answered they are shown to each other: a
\* CHALLENGING channel always still misses an answer.
NoMissedVerification ==
  \A ch \in ChIds :
    channels[ch].state = "CHALLENGING"
      => \E s \in Slot : ~channels[ch].peers[s].answered

\* The disconnection of c will find ch.
Indexed(c, ch) ==
  \/ handler[c].at \in {"reading", "leaving", "rejecting"}
     /\ ch \in connChannels[c]
  \/ handler[c].at = "closing" /\ ch \in handler[c].chs

\* Each member of a mapped channel has the channel in its conn.Channels, and
\* in the copy of it that UnregisterConn works on: a disconnection cannot
\* leave a member behind that no read loop serves.
MembersIndexed ==
  \A ch \in ChIds : \A c \in ConnsOf(channels[ch]) : Indexed(c, ch)

\* A channel in WAIT_PEER always has a way out: the timer of its current
\* generation is running, or a goroutine that emptied it is about to delete
\* it.
WaitIsTimed ==
  \A ch \in ChIds :
    LET k == channels[ch] IN
    k.state = "WAIT_PEER" =>
      \/ [ch |-> ch, gen |-> k.waitGen, obj |-> k.obj] \in waitTimers
      \/ [ch |-> ch, obj |-> k.obj] \in deletes
      \/ \E c \in Conns : handler[c] = [at |-> "leaving", ch |-> ch,
                                        obj |-> k.obj]

\* An emptied channel is about to be deleted by the goroutine that emptied it.
EmptyIsDeleted ==
  \A ch \in ChIds :
    LET k == channels[ch] IN
    Mapped(ch) /\ Members(k) = {} =>
      \/ [ch |-> ch, obj |-> k.obj] \in deletes
      \/ \E c \in Conns : handler[c] = [at |-> "leaving", ch |-> ch,
                                        obj |-> k.obj]

\* The nonce a CHALLENGING channel holds for a member is the one that member
\* was challenged with last, so its answer can be checked against it.  (The
\* notice of a verify_rejected is sent outside the locks and may overtake a
\* new challenge.)
ChallengeIsCurrent ==
  \A ch \in ChIds : \A s \in Members(channels[ch]) :
    LET m == channels[ch].peers[s] IN
    channels[ch].state = "CHALLENGING" /\ Open(m.conn) =>
      view[m.conn][ch] \in {Challenge(m.nonce), Note("verify_rejected")}

\* A member of an ACTIVE channel was shown its present peer and has heard
\* nothing on the channel since: a reconnection, an eviction or a new
\* challenge in between always takes the channel out of ACTIVE.
ActiveMeansVerified ==
  \A ch \in ChIds : \A s \in Members(channels[ch]) :
    LET c == channels[ch].peers[s].conn
        d == channels[ch].peers[1 - s].conn
    IN
    channels[ch].state = "ACTIVE" /\ Open(c) =>
      \/ view[c][ch].type = "verify_peer" /\ view[c][ch].peer = IdOf[d]
      \/ view[c][ch].type = "verify_rejected"

\* A client whose last word on a channel is a challenge, a verify_peer or a
\* peer_left is still counted in by its connection (Connection.Channels): it is
\* struck off there only with a notice, or with one on its way.  (The seat
\* itself may go with an emptied Channel that is deleted after the join.)
EvictedAreTold ==
  \A c \in Conns, ch \in ChIds :
    Open(c) /\ view[c][ch].type \in {"challenge", "verify_peer", "peer_left"}
      => \/ ch \in connChannels[c]
         \/ \E d \in Conns : handler[d] = [at |-> "rejecting", ch |-> ch,
                                           to |-> c]

\* Data is forwarded only between connections that were shown to each other
\* and have heard nothing since: none crosses a reconnection of either side.
RelayReachesVerified ==
  relayed # NoRelay =>
    \A p \in {<<relayed.from, relayed.to>>, <<relayed.to, relayed.from>>} :
      Open(p[1]) =>
        \/ /\ view[p[1]][relayed.ch].type = "verify_peer"
           /\ view[p[1]][relayed.ch].peer = IdOf[p[2]]
        \/ view[p[1]][relayed.ch].type = "verify_rejected"

\* WAIT_PEER ends: a peer comes, or the channel is deleted.  (A client that
\* keeps rejoining keeps it alive; MaxJoins ends that.)
LoneWaitEnds ==
  \A ch \in ChIds :
    channels[ch].state = "WAIT_PEER" ~> channels[ch].state # "WAIT_PEER"

-----------------------------------------------------------------------------
(* What the documentation says and the code does not do (see the findings). *)

\* README.md:343 and :461: challenge_timeout is for a peer that did not
\* answer; so an ACTIVE channel, both of whose members have answered, never
\* loses one to challengeTimeout.
TimeoutSparesAnswered ==
  [][\A c \in Conns, ch \in ChIds :
       /\ challengeTimers'[c][ch] < challengeTimers[c][ch]
       /\ channels[ch].state = "ACTIVE"
       => channels'[ch] = channels[ch]]_vars
=============================================================================
