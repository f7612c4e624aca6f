------------------------------ MODULE CrossNode ------------------------------
(***************************************************************************)
(* One channel whose clients are connected to several servers (nodes) that *)
(* share Redis: server/internal/relay/bridge.go with its handleRemote...   *)
(* handlers, remote.go, and the channel half of redis_backend.go.          *)
(*                                                                         *)
(* Each node has a Channel of its own under the identifier.  A member that *)
(* is connected elsewhere is in it as a stub.  The nodes tell each other   *)
(* by pub/sub, and Redis holds one registration for the channel, by which  *)
(* the first join on a node finds out that another node has it too.        *)
(*                                                                         *)
(* As in RelayChannels one critical section is one action and timers fire  *)
(* at any moment.  Nonces are left out: which challenge an answer answers  *)
(* is the matter of Session.  So are a failing rand.Read and the limit of  *)
(* the table, which RelayChannels has.                                     *)
(***************************************************************************)
EXTENDS Naturals, FiniteSets, Sequences

CONSTANTS
  Nodes,      \* servers
  Conns,      \* WebSocket connections; none is used twice
  NoConn,     \* the nil *Connection of a stub
  Ids,        \* the ids clients report
  NoId,
  Home,       \* the node of each connection
  IdOf,       \* the id each connection joins with
  MaxJoins,   \* bound: joins of each connection
  Before,     \* the connections that end before each one joins
  Unsteady,   \* bound: the connections that leave, reject or end
  MaxFaults,  \* bound: messages lost, registrations expired, nodes restarted
  MaxRelays,  \* bound: data messages under way to a node
  MaxLate     \* bound: answers to a challenge that is not the latest one

ASSUME NodesAssumption ==
  NoConn \notin Conns /\ NoId \notin Ids /\ IsFiniteSet(Conns)
ASSUME ClientsAssumption == Home \in [Conns -> Nodes] /\ IdOf \in [Conns -> Ids]
ASSUME BoundsAssumption ==
  /\ MaxJoins \in [Conns -> Nat] /\ Before \in [Conns -> SUBSET Conns]
  /\ Unsteady \subseteq Conns
  /\ MaxFaults \in Nat /\ MaxRelays \in Nat /\ MaxLate \in Nat

VARIABLES
  channel,         \* each node's Channel under the identifier
  registered,      \* whether Redis has the key latch:ch:...
  bus,             \* what Redis has yet to deliver to each node's Subscribe
  inChannel,       \* the connections whose Channels has the identifier
  handler,         \* where the goroutine of each connection stands
  challengeTimers, \* running challengeTimeout goroutines of each connection
  waitTimers,      \* running waitPeerTimeout goroutines
  deletes,         \* other goroutines that have emptied a Channel
  view,            \* the last notice each client got, or that it was dropped
                   \* without one
  counts           \* joins of each connection, late answers, faults;
                   \* cut: whether a registration went from under a member

vars == <<channel, registered, bus, inChannel, handler, challengeTimers,
          waitTimers, deletes, view, counts>>

-----------------------------------------------------------------------------
(* Data *)

Slot == {0, 1}

NoPeer == [id |-> NoId, conn |-> NoConn, answered |-> FALSE]

Peer == {NoPeer} \cup [id : Ids, conn : Conns \cup {NoConn}, answered : BOOLEAN]

Local(i, c) == [id |-> i, conn |-> c, answered |-> FALSE]
Stub(i) == Local(i, NoConn)

\* obj tells apart the Channel objects that are still in use on a node.
Channel == [state : {"NONE", "WAIT_PEER", "CHALLENGING", "ACTIVE"},
            waitGen : Nat, peers : [Slot -> Peer], obj : Nat]

NoChannel == [state |-> "NONE", waitGen |-> 0, peers |-> [s \in Slot |-> NoPeer],
              obj |-> 0]

Message == [type : {"join_notify", "response", "relay", "peer_left"},
            id : Ids, reply : BOOLEAN]
Remote(type, i) == [type |-> type, id |-> i, reply |-> FALSE]
Reply(i) == [Remote("join_notify", i) EXCEPT !.reply = TRUE]

Notice == [type : {"out", "challenge", "verify_peer", "peer_left",
                   "verify_rejected", "dropped"},
           peer : Ids \cup {NoId}]
Note(type) == [type |-> type, peer |-> NoId]

WaitTimer == [node : Nodes, gen : Nat]

\* sub tells the Subscribe goroutine, which serves no other message meanwhile.
Delete == [node : Nodes, obj : Nat, sub : BOOLEAN,
           next : {"delete", "unregister"}]

Handler ==
       [at : {"reading", "closed", "stuck"}]
  \cup [at : {"leaving"}, obj : Nat]
  \cup [at : {"closing"}, indexed : BOOLEAN]
  \cup [at : {"unregistering"}, as : {"leave", "reject", "close"},
        to : Conns \cup {NoConn}]
At(loc) == [at |-> loc]

Reading(c) == handler[c].at = "reading"
\* A write to the socket still reaches the client.
Open(c) == handler[c].at \notin {"closing", "closed", "stuck"}
           /\ ~(handler[c].at = "unregistering" /\ handler[c].as = "close")

\* A goroutine that panicked holds Bridge.mu and Channel.mu for good.
Serving(n) == \A c \in Conns : Home[c] = n => handler[c].at # "stuck"

Members(k) == {s \in Slot : k.peers[s].id # NoId}
Locals(k) == {s \in Slot : k.peers[s].conn # NoConn}
Stubs(k) == Members(k) \ Locals(k)
SlotsOf(k, c) == {s \in Slot : k.peers[s].conn = c}
Named(k, i) == {s \in Slot : k.peers[s].id = i}
ConnsOf(k) == {k.peers[s].conn : s \in Locals(k)}
First(slots) == IF 0 \in slots THEN 0 ELSE 1

Mapped(n) == channel[n].state # "NONE"

\* A Channel object no goroutine of the node works on.
Fresh(n) ==
  LET used == {d.obj : d \in {e \in deletes : e.node = n}} \cup
              {handler[c].obj : c \in {d \in Conns : handler[d].at = "leaving"}}
  IN CHOOSE o \in 1..(Cardinality(used) + 1) : o \notin used

\* The Channel a join or a join_notify works on: the mapped one or a new one.
Opened(n) == IF Mapped(n) THEN channel[n]
             ELSE [NoChannel EXCEPT !.state = "WAIT_PEER", !.obj = Fresh(n)]

\* ch.State = StateWaitPeer; ch.WaitGen++
BackToWait(k) ==
  [state |-> "WAIT_PEER", waitGen |-> k.waitGen + 1, peers |-> k.peers,
   obj |-> k.obj]

\* Mutant of WaitTimerOf: the generation before it was advanced.
WaitTimerOfLastGen(n, k) ==
  IF k.state = "WAIT_PEER" /\ Members(k) # {}
  THEN {[node |-> n, gen |-> k.waitGen - 1]} ELSE {}

WaitTimerOf(n, k) ==
  IF k.state = "WAIT_PEER" /\ Members(k) # {} THEN {[node |-> n, gen |-> k.waitGen]}
  ELSE {}

Unanswered(k) ==
  [k EXCEPT !.peers = [s \in Slot |-> [k.peers[s] EXCEPT !.answered = FALSE]]]

\* Mutant of Without: the generation goes down.
WithoutCountsDown(k, s) ==
  LET rest == [k EXCEPT !.peers[s] = NoPeer] IN
  IF Members(rest) = {} THEN rest
  ELSE Unanswered([rest EXCEPT !.state = "WAIT_PEER", !.waitGen = @ - 1])

\* Takes slot s out of k.  A remaining peer drops back to WAIT_PEER and its
\* challenge data is discarded.
Without(k, s) ==
  LET rest == [k EXCEPT !.peers[s] = NoPeer] IN
  IF Members(rest) = {} THEN rest ELSE Unanswered(BackToWait(rest))

\* What a node publishes goes to all others; box is bus, or bus without the
\* message that the step takes from it.
Publish(n, box, msgs) ==
  bus' = [m \in Nodes |-> IF m = n THEN box[m] ELSE box[m] \o msgs]

Tell(notices) ==
  view' = [c \in Conns |-> IF c \in DOMAIN notices /\ Open(c) THEN notices[c]
                           ELSE view[c]]

\* Mutant of TellOut: the client hears nothing.
TellNobody(conns) == UNCHANGED view

\* challenge_timeout
TellOut(conns) == Tell([d \in conns |-> Note("out")])

SetChannel(n, k) == channel' = [channel EXCEPT ![n] = k]

Goto(c, h) == handler' = [handler EXCEPT ![c] = h]

-----------------------------------------------------------------------------
Init ==
  /\ channel = [n \in Nodes |-> NoChannel]
  /\ registered = FALSE
  /\ bus = [n \in Nodes |-> << >>]
  /\ inChannel = {}
  /\ handler = [c \in Conns |-> At("reading")]
  /\ challengeTimers = [c \in Conns |-> 0]
  /\ waitTimers = {}
  /\ deletes = {}
  /\ view = [c \in Conns |-> Note("out")]
  /\ counts = [joins |-> [c \in Conns |-> 0], late |-> 0,
               faults |-> 0, cut |-> FALSE]

-----------------------------------------------------------------------------
(* join *)

\* The members under the joining id lose their slots.  A connection is told
\* so, a stub goes without a word to its node.
AfterReplacement(k, i) ==
  [k EXCEPT !.peers = [s \in Slot |-> IF s \in Named(k, i) THEN NoPeer
                                      ELSE k.peers[s]]]

Replaced(k, i) == {d \in ConnsOf(k) : IdOf[d] = i}

Joining(c) ==
  /\ Reading(c) /\ Serving(Home[c])
  /\ counts.joins[c] < MaxJoins[c]
  /\ \A d \in Before[c] : ~Open(d)
  /\ counts' = [counts EXCEPT !.joins[c] = @ + 1]
  /\ challengeTimers' = [challengeTimers EXCEPT ![c] = @ + 1]
  /\ inChannel' = (inChannel \ Replaced(Opened(Home[c]), IdOf[c])) \cup {c}
  /\ UNCHANGED <<handler, deletes>>

\* Mutant of RegisterChannelPeer: SET, which tells nothing.
RegisterAnyway(c) == registered' = TRUE /\ UNCHANGED bus

\* RegisterChannelPeer: SETNX tells whether there is a registration already.
\* An error counts as none.
RegisterChannelPeer(c) ==
  \/ /\ registered
     /\ Publish(Home[c], bus, <<Remote("join_notify", IdOf[c])>>)
     /\ UNCHANGED registered
  \/ /\ ~registered
     /\ registered' = TRUE
     /\ UNCHANGED bus

\* The first peer on this node.
JoinFirst(c) ==
  LET n == Home[c]
      k == AfterReplacement(Opened(n), IdOf[c])
      seated == [BackToWait(k) EXCEPT !.peers[0] = Local(IdOf[c], c)]
      old == Replaced(Opened(n), IdOf[c])
  IN
  /\ Joining(c)
  /\ Members(k) = {}
  /\ SetChannel(n, seated)
  /\ waitTimers' = waitTimers \cup WaitTimerOf(n, seated)
  /\ RegisterChannelPeer(c)
  /\ Tell([d \in old \cup {c} |-> IF d = c THEN Note("challenge") ELSE Note("out")])

\* The second peer: both are challenged, a stub through its node.
JoinSecond(c) ==
  LET n == Home[c]
      k == AfterReplacement(Opened(n), IdOf[c])
      s == First(Slot \ Members(k))
      seated == [Unanswered(k) EXCEPT !.state = "CHALLENGING",
                                      !.peers[s] = Local(IdOf[c], c)]
      old == Replaced(Opened(n), IdOf[c])
  IN
  /\ Joining(c)
  /\ Cardinality(Members(k)) = 1
  /\ SetChannel(n, seated)
  /\ Publish(n, bus, IF Stubs(k) = {} THEN << >>
                     ELSE <<Remote("join_notify", IdOf[c])>>)
  /\ Tell([d \in old \cup ConnsOf(seated) |->
             IF d \in ConnsOf(seated) THEN Note("challenge") ELSE Note("out")])
  /\ UNCHANGED <<registered, waitTimers>>

-----------------------------------------------------------------------------
(* response, message *)

\* Mutant of Verified: one answer is enough.
VerifiedByOne(k) == \E s \in Slot : k.peers[s].answered

\* Once both members have answered, the connections among them are shown the
\* other and the challenge data is cleared.
Verified(k) == \A s \in Slot : k.peers[s].answered

Answer(n, k) ==
  \/ /\ ~Verified(k)
     /\ SetChannel(n, k)
     /\ UNCHANGED view
  \/ /\ Verified(k)
     /\ SetChannel(n, [Unanswered(k) EXCEPT !.state = "ACTIVE"])
     /\ Tell([d \in ConnsOf(k) |->
          [type |-> "verify_peer",
           peer |-> k.peers[1 - First(SlotsOf(k, d))].id]])

\* A client owes its node an answer to the latest challenge; what it sends
\* besides is late.
Answering(c, s) ==
  \/ /\ view[c].type = "challenge" /\ ~channel[Home[c]].peers[s].answered
     /\ UNCHANGED counts
  \/ /\ counts.late < MaxLate
     /\ counts' = [counts EXCEPT !.late = @ + 1]

\* Mutant of Forwarded: not if the exchange is complete here.
ForwardedUnlessLast(k, s) ==
  IF 1 - s \in Stubs(k) /\ ~k.peers[1 - s].answered
  THEN <<Remote("response", k.peers[s].id)>> ELSE << >>

\* The answer of the member in slot s is for the other node, too.
Forwarded(k, s) ==
  IF 1 - s \in Stubs(k) THEN <<Remote("response", k.peers[s].id)>> ELSE << >>

HandleResponse(c) ==
  LET n == Home[c]
      k == channel[n]
  IN
  /\ Reading(c) /\ Serving(n)
  /\ \E s \in SlotsOf(k, c) :
       /\ Answering(c, s)
       /\ Answer(n, [k EXCEPT !.peers[s].answered = TRUE])
       /\ Publish(n, bus, Forwarded(k, s))
  /\ UNCHANGED <<registered, inChannel, handler, challengeTimers, waitTimers,
                 deletes>>

RelaysTo(n) == {i \in DOMAIN bus[n] : bus[n][i].type = "relay"}

HandleRelay(c) ==
  LET n == Home[c]
      k == channel[n]
  IN
  /\ Reading(c) /\ Serving(n) /\ k.state = "ACTIVE"
  /\ \A m \in Nodes : Cardinality(RelaysTo(m)) < MaxRelays
  /\ \E s \in SlotsOf(k, c) :
       Publish(n, bus, IF 1 - s \in Stubs(k)
                       THEN <<Remote("relay", k.peers[s].id)>> ELSE << >>)
  /\ UNCHANGED <<channel, registered, inChannel, handler, challengeTimers,
                 waitTimers, deletes, view, counts>>

-----------------------------------------------------------------------------
(* leave, error verify_rejected, disconnection *)

\* removePeerFromChannelLocked: the remaining peer is told, a stub through its
\* node; nobody is told when none remains, not even the other nodes.  (Who has
\* left is out by its own account.)
Removal(n, k, s) ==
  LET rest == Without(k, s) IN
  /\ waitTimers' = waitTimers \cup WaitTimerOf(n, rest)
  /\ Publish(n, bus, IF Stubs(rest) = {} THEN << >>
                     ELSE <<Remote("peer_left", k.peers[s].id)>>)
  /\ Tell([d \in ConnsOf(k) |->
             Note(IF d = k.peers[s].conn THEN "out" ELSE "peer_left")])

LeaveMember(c) ==
  LET n == Home[c]
      k == channel[n]
  IN
  \E s \in SlotsOf(k, c) :
    /\ Removal(n, k, s)
    /\ SetChannel(n, Without(k, s))
    /\ IF Members(Without(k, s)) = {}
       THEN Goto(c, [at |-> "leaving", obj |-> k.obj]) /\ UNCHANGED inChannel
       ELSE inChannel' = inChannel \ {c} /\ UNCHANGED handler

LeaveStranger(c) ==
  /\ SlotsOf(channel[Home[c]], c) = {}
  /\ inChannel' = inChannel \ {c}
  /\ TellOut({c})
  /\ UNCHANGED <<channel, bus, handler, waitTimers>>

HandleLeave(c) ==
  /\ Reading(c) /\ Serving(Home[c]) /\ Mapped(Home[c])
  /\ c \in Unsteady /\ view[c].type # "out"
  /\ LeaveMember(c) \/ LeaveStranger(c)
  /\ UNCHANGED <<registered, challengeTimers, deletes, counts>>

\* if b.channels[id] == ch { delete(b.channels, id) }
\* Whether the Channel is still empty is not looked at: a connection that took
\* a seat in it meanwhile goes with it.  Nothing is sent to it; `view` notes
\* that it was dropped.
DeleteIfSame(n, obj) ==
  LET seated == IF channel[n].obj = obj THEN ConnsOf(channel[n]) ELSE {} IN
  /\ SetChannel(n, IF channel[n].obj = obj THEN NoChannel ELSE channel[n])
  /\ Tell([d \in seated |-> Note("dropped")])

FinishLeave(c) ==
  /\ handler[c].at = "leaving" /\ Serving(Home[c])
  /\ DeleteIfSame(Home[c], handler[c].obj)
  /\ Goto(c, [at |-> "unregistering", as |-> "leave", to |-> NoConn])
  /\ UNCHANGED <<registered, bus, inChannel, challengeTimers, waitTimers,
                 deletes, counts>>

\* The key goes, whichever node set it.
UnregisterChannelPeer(tally) ==
  /\ registered' = FALSE
  /\ counts' = [tally EXCEPT !.cut = @ \/ \E n \in Nodes : Locals(channel[n]) # {}]

\* UnregisterChannelPeer, and what its caller does then.
Unregister(c) ==
  LET h == handler[c] IN
  /\ h.at = "unregistering"
  /\ UnregisterChannelPeer(counts)
  /\ inChannel' = IF h.as = "leave" THEN inChannel \ {c} ELSE inChannel
  /\ Tell([d \in {h.to} \ {NoConn} |-> Note("verify_rejected")])
  /\ Goto(c, At(IF h.as = "close" THEN "closed" ELSE "reading"))
  /\ UNCHANGED <<channel, bus, challengeTimers, waitTimers, deletes>>

\* Without stubs: the channel goes, and the last member that is not the sender
\* is notified after the registration has been removed.
Reject(c) ==
  LET n == Home[c]
      k == channel[n]
      others == {s \in Members(k) : k.peers[s].conn # c}
      last == IF 1 \in others THEN 1 ELSE 0
  IN
  /\ Stubs(k) = {}
  /\ SetChannel(n, NoChannel)
  /\ inChannel' = inChannel \ ConnsOf(k)
  /\ Goto(c, [at |-> "unregistering", as |-> "reject",
              to |-> IF others = {} THEN NoConn ELSE k.peers[last].conn])
  /\ Tell([d \in {c} \cup {k.peers[s].conn : s \in others \ {last}} |->
             Note(IF d = c THEN "out" ELSE "dropped")])

\* peer.Conn.mu.Lock() on the nil Conn of a stub: the goroutine panics with
\* both locks held.  net/http recovers; the deferred UnregisterConn waits for
\* Bridge.mu for good.
RejectStub(c) ==
  LET k == channel[Home[c]] IN
  /\ Stubs(k) # {}
  /\ inChannel' = inChannel \ (IF 0 \in Stubs(k) THEN {} ELSE {k.peers[0].conn})
  /\ Goto(c, At("stuck"))
  /\ UNCHANGED <<channel, view>>

HandleVerifyRejected(c) ==
  /\ Reading(c) /\ Serving(Home[c]) /\ Mapped(Home[c])
  /\ c \in Unsteady /\ view[c].type # "out"
  /\ Reject(c) \/ RejectStub(c)
  /\ UNCHANGED <<registered, bus, challengeTimers, waitTimers, deletes, counts>>

\* The read loop ends; UnregisterConn copies conn.Channels.
CloseConn(c) ==
  /\ Reading(c) /\ c \in Unsteady
  /\ Goto(c, [at |-> "closing", indexed |-> c \in inChannel])
  /\ view' = [view EXCEPT ![c] = Note("out")]
  /\ UNCHANGED <<channel, registered, bus, inChannel, challengeTimers,
                 waitTimers, deletes, counts>>

\* The rest of it; an emptied Channel is deleted on the spot and the
\* registration removed afterwards.  (The timers of a connection that is no
\* member any more have nothing left to do.)
UnregisterConn(c) ==
  LET n == Home[c]
      k == channel[n]
      cut == handler[c].indexed /\ SlotsOf(k, c) # {}
      rest == Without(k, First(SlotsOf(k, c)))
  IN
  /\ handler[c].at = "closing" /\ Serving(n)
  /\ IF cut
     THEN /\ Removal(n, k, First(SlotsOf(k, c)))
          /\ SetChannel(n, IF Members(rest) = {} THEN NoChannel ELSE rest)
     ELSE UNCHANGED <<channel, bus, waitTimers, view>>
  /\ Goto(c, IF cut /\ Members(rest) = {}
             THEN [at |-> "unregistering", as |-> "close", to |-> NoConn]
             ELSE At("closed"))
  /\ inChannel' = inChannel \ {c}
  /\ challengeTimers' = [challengeTimers EXCEPT ![c] = 0]
  /\ UNCHANGED <<registered, deletes, counts>>

-----------------------------------------------------------------------------
(* timers *)

Emptied(n, k, sub) ==
  deletes' = IF Members(k) # {} THEN deletes
             ELSE deletes \cup
                    {[node |-> n, obj |-> k.obj, sub |-> sub, next |-> "delete"]}

\* The evicted client is told; the remaining peer is not, nor its node.  (A
\* timer that finds nothing to do is the absence of a step.)
ChallengeTimeout(c) ==
  LET n == Home[c]
      k == channel[n]
  IN
  /\ challengeTimers[c] > 0 /\ Serving(n)
  /\ challengeTimers' = [challengeTimers EXCEPT ![c] = @ - 1]
  /\ \E s \in SlotsOf(k, c) :
       /\ ~k.peers[s].answered
       /\ SetChannel(n, Without(k, s))
       /\ waitTimers' = waitTimers \cup WaitTimerOf(n, Without(k, s))
       /\ Emptied(n, Without(k, s), FALSE)
  /\ inChannel' = inChannel \ {c}
  /\ TellOut({c})
  /\ UNCHANGED <<registered, bus, handler, counts>>

WaitPeerTimeout(t) ==
  LET k == channel[t.node]
      empty == [k EXCEPT !.peers = NoChannel.peers]
  IN
  /\ t \in waitTimers /\ Serving(t.node)
  /\ waitTimers' = waitTimers \ {t}
  /\ k.state = "WAIT_PEER" /\ k.waitGen = t.gen
  /\ SetChannel(t.node, empty)
  /\ Emptied(t.node, empty, FALSE)
  /\ inChannel' = inChannel \ ConnsOf(k)
  /\ TellOut(ConnsOf(k))
  /\ UNCHANGED <<registered, bus, handler, challengeTimers, counts>>

DeferredDelete(d) ==
  /\ d \in deletes /\ d.next = "delete" /\ Serving(d.node)
  /\ DeleteIfSame(d.node, d.obj)
  /\ deletes' = (deletes \ {d}) \cup {[d EXCEPT !.next = "unregister"]}
  /\ UNCHANGED <<registered, bus, inChannel, handler, challengeTimers,
                 waitTimers, counts>>

DeferredUnregister(d) ==
  /\ d \in deletes /\ d.next = "unregister"
  /\ UnregisterChannelPeer(counts)
  /\ deletes' = deletes \ {d}
  /\ UNCHANGED <<channel, bus, inChannel, handler, challengeTimers, waitTimers,
                 view>>

-----------------------------------------------------------------------------
(* Messages of other nodes, served one after the other *)

Receives(n, type) ==
  /\ Serving(n) /\ ~ \E d \in deletes : d.node = n /\ d.sub
  /\ bus[n] # << >> /\ Head(bus[n]).type = type
  /\ UNCHANGED <<registered, handler, challengeTimers, counts>>

Popped(n) == [bus EXCEPT ![n] = Tail(@)]
From(n) == Head(bus[n]).id

\* Mutant of Rechallenged: an ACTIVE channel stays ACTIVE.
RechallengedActive(k, i) ==
  [k EXCEPT !.state = IF @ = "ACTIVE" THEN @ ELSE "CHALLENGING",
            !.peers = [s \in Slot |-> [k.peers[s] EXCEPT
                         !.answered = @ /\ s \notin Locals(k) \cup Named(k, i)]]]

Rechallenged(k, i) ==
  [k EXCEPT !.state = "CHALLENGING",
            !.peers = [s \in Slot |-> [k.peers[s] EXCEPT
                         !.answered = @ /\ s \notin Locals(k) \cup Named(k, i)]]]

\* A new id takes a free slot as a stub, if there is one.  In any case the
\* local members are challenged, and the sender is told of them if this is no
\* reply.
HandleRemoteJoinNotify(n) ==
  LET k == Opened(n)
      free == Slot \ Members(k)
      noted == IF Named(k, From(n)) # {} \/ free = {} THEN k
               ELSE [k EXCEPT !.peers[First(free)] = Stub(From(n))]
      replies == [s \in Slot |-> IF s \in Locals(k) THEN <<Reply(k.peers[s].id)>>
                                 ELSE << >>]
  IN
  /\ Receives(n, "join_notify")
  /\ SetChannel(n, Rechallenged(noted, From(n)))
  /\ Publish(n, Popped(n), IF Head(bus[n]).reply THEN << >>
                           ELSE replies[0] \o replies[1])
  /\ Tell([d \in ConnsOf(k) |-> Note("challenge")])
  /\ UNCHANGED <<inChannel, waitTimers, deletes>>

\* The answer is stored for the first member under that id.
HandleRemoteResponse(n) ==
  LET k == channel[n]
      named == Named(k, From(n))
  IN
  /\ Receives(n, "response")
  /\ Publish(n, Popped(n), << >>)
  /\ IF Mapped(n)
     THEN Answer(n, IF named = {} THEN k
                    ELSE [k EXCEPT !.peers[First(named)].answered = TRUE])
     ELSE UNCHANGED <<channel, view>>
  /\ UNCHANGED <<inChannel, waitTimers, deletes>>

\* Delivered to the first local member, whatever the state; no state changes.
HandleRemoteRelay(n) ==
  /\ Receives(n, "relay")
  /\ Publish(n, Popped(n), << >>)
  /\ UNCHANGED <<channel, inChannel, waitTimers, deletes, view>>

\* The challenge data of the remaining peer is not discarded.
HandleRemotePeerLeft(n) ==
  LET k == channel[n]
      gone == Stubs(k) \cap Named(k, From(n))
      rest == [k EXCEPT !.peers[First(gone)] = NoPeer]
  IN
  /\ Receives(n, "peer_left")
  /\ Publish(n, Popped(n), << >>)
  /\ IF gone = {}
     THEN UNCHANGED <<channel, waitTimers, deletes, view>>
     ELSE /\ SetChannel(n, IF Locals(rest) = {} THEN rest ELSE BackToWait(rest))
          /\ waitTimers' = IF Locals(rest) = {} THEN waitTimers
                           ELSE waitTimers \cup WaitTimerOf(n, BackToWait(rest))
          /\ Tell([d \in ConnsOf(rest) |-> Note("peer_left")])
          /\ Emptied(n, rest, TRUE)
  /\ UNCHANGED inChannel

Receive(n) ==
  \/ HandleRemoteJoinNotify(n)
  \/ HandleRemoteResponse(n)
  \/ HandleRemoteRelay(n)
  \/ HandleRemotePeerLeft(n)

-----------------------------------------------------------------------------
(* Faults *)

Fault ==
  /\ counts.faults < MaxFaults
  /\ counts' = [counts EXCEPT !.faults = @ + 1]

\* A message does not reach a node: Publish failed, or the subscription broke.
Lose(n) ==
  /\ Fault
  /\ bus[n] # << >>
  /\ bus' = Popped(n)
  /\ UNCHANGED <<channel, registered, inChannel, handler, challengeTimers,
                 waitTimers, deletes, view>>

\* The registration lives for 30 minutes and is never refreshed.
KeyExpires ==
  /\ Fault
  /\ registered
  /\ registered' = FALSE
  /\ UNCHANGED <<channel, bus, inChannel, handler, challengeTimers, waitTimers,
                 deletes, view>>

\* A node stops and starts again: what it had in memory is gone, its
\* connections are closed, and what Redis has stays.
Restart(n) ==
  LET here == {c \in Conns : Home[c] = n} IN
  /\ Fault
  /\ SetChannel(n, NoChannel)
  /\ bus' = [bus EXCEPT ![n] = << >>]
  /\ inChannel' = inChannel \ here
  /\ handler' = [c \in Conns |-> IF c \in here /\ counts.joins[c] > 0
                                 THEN At("closed") ELSE handler[c]]
  /\ challengeTimers' = [c \in Conns |-> IF c \in here THEN 0
                                         ELSE challengeTimers[c]]
  /\ waitTimers' = {t \in waitTimers : t.node # n}
  /\ deletes' = {d \in deletes : d.node # n}
  /\ view' = [c \in Conns |-> IF c \in here THEN Note("out") ELSE view[c]]
  /\ UNCHANGED registered

-----------------------------------------------------------------------------
Serve(c) ==
  \/ JoinFirst(c) \/ JoinSecond(c)
  \/ HandleResponse(c) \/ HandleRelay(c)
  \/ HandleLeave(c) \/ FinishLeave(c)
  \/ HandleVerifyRejected(c)
  \/ CloseConn(c) \/ UnregisterConn(c)
  \/ Unregister(c)
  \/ ChallengeTimeout(c)

Background ==
  \/ \E t \in waitTimers : WaitPeerTimeout(t)
  \/ \E d \in deletes : DeferredDelete(d) \/ DeferredUnregister(d)

Next ==
  \/ \E c \in Conns : Serve(c)
  \/ Background
  \/ \E n \in Nodes : Receive(n) \/ Lose(n) \/ Restart(n)
  \/ KeyExpires

Spec == Init /\ [][Next]_vars

-----------------------------------------------------------------------------
(* Properties *)

\* Every variable has the shape of what it stands for.
TypeOK ==
  /\ channel \in [Nodes -> Channel]
  /\ registered \in BOOLEAN
  /\ bus \in [Nodes -> Seq(Message)]
  /\ inChannel \subseteq Conns
  /\ handler \in [Conns -> Handler]
  /\ challengeTimers \in [Conns -> Nat]
  /\ waitTimers \subseteq WaitTimer
  /\ deletes \subseteq Delete
  /\ view \in [Conns -> Notice]
  /\ counts \in [joins : [Conns -> Nat], late : Nat, faults : Nat,
                 cut : BOOLEAN]

\* A node's state fits its members, connections and stubs alike: WAIT_PEER at
\* most one, ACTIVE two under different ids if the node has a client of its own
\* in the channel (a node that has none may be left ACTIVE with one stub).
\* Whatever order the other nodes' messages and the joins, evictions and
\* timers here come in, handleRelay and the handlers of remote messages find
\* what they look for.
StateFitsMembers ==
  \A n \in Nodes :
    LET k == channel[n] IN
    /\ k.state \in {"NONE", "WAIT_PEER"} => Members(k) # Slot
    /\ k.state = "ACTIVE" /\ Locals(k) # {} => Members(k) = Slot
    /\ Members(k) = Slot => k.peers[0].id # k.peers[1].id

\* In an ACTIVE channel each member connected here was last shown the id of
\* the present other member: a stub that has gone, come anew or been replaced
\* is never taken for the one that was verified.  (A verify_rejected about an
\* earlier channel, sent without a lock, may be what it heard last.)
ActiveMeansVerified ==
  \A n \in Nodes : \A s \in Locals(channel[n]) :
    LET k == channel[n] IN
    k.state = "ACTIVE" /\ Open(k.peers[s].conn) =>
      view[k.peers[s].conn] \in {[type |-> "verify_peer", peer |-> k.peers[1 - s].id],
                                 Note("verify_rejected")}

\* A node's WAIT_PEER has a timer of its generation or a deletion under way,
\* also when it was a peer_left that brought it about and when only a stub is
\* left to wait: no channel stays there for ever.
WaitIsTimed ==
  \A n \in Nodes :
    LET k == channel[n] IN
    k.state = "WAIT_PEER" =>
      \/ [node |-> n, gen |-> k.waitGen] \in waitTimers
      \/ \E d \in deletes : d.node = n /\ d.obj = k.obj
      \/ \E c \in Conns : handler[c].at = "leaving" /\ Home[c] = n
                          /\ handler[c].obj = k.obj

\* On a node that has not been blocked, a client that believes in its seat has
\* it: unless a rejection is about to be sent to it, the Channel in the node's
\* table has its connection as a member, also when its peer, the registration or
\* the messages about them are on other nodes.  There are two ways, and no
\* third, to lose a seat unheard (`view` is "dropped"): to take it in an emptied
\* Channel that is then deleted by pointer, and to be the first of two members
\* beside a rejecting stranger.
EvictedAreTold ==
  \A c \in Conns :
    Open(c) /\ Serving(Home[c])
      /\ view[c].type \in {"challenge", "verify_peer", "peer_left"}
    => \/ c \in ConnsOf(channel[Home[c]])
       \/ \E d \in Conns : handler[d].at = "unregistering" /\ handler[d].to = c

\* Every message has been served, no goroutine is under way and nobody owes
\* an answer.
AtRest ==
  /\ \A n \in Nodes : bus[n] = << >> /\ Serving(n)
  /\ deletes = {}
  /\ \A c \in Conns : handler[c].at \in {"reading", "closed"}
  /\ \A n \in Nodes : \A s \in Locals(channel[n]) :
       view[channel[n].peers[s].conn].type = "challenge" =>
         channel[n].peers[s].answered

Knows(n) == Locals(channel[n]) # {} /\ Stubs(channel[n]) # {}

\* Two clients, each of which comes back to the node it was on.
Settled ==
  /\ \A c, d \in Conns : IdOf[c] = IdOf[d] => Home[c] = Home[d]
  /\ \A c, d, e \in Conns :
       IdOf[c] = IdOf[d] \/ IdOf[d] = IdOf[e] \/ IdOf[c] = IdOf[e]

\* If no message was lost, no node restarted, and no registration removed from
\* under a member, then at rest two nodes that have members of their own know
\* of each other's: SETNX, join_notify, the reply to it and peer_left, crossing
\* in any order, make the peers meet, as long as both keep to their nodes.
MeetAtRest ==
  Settled /\ AtRest /\ counts.faults = 0 /\ ~counts.cut =>
    \A m, n \in Nodes :
      m # n /\ Locals(channel[m]) # {} /\ Locals(channel[n]) # {} => Knows(m)

\* If no message was lost and no node restarted, then at rest two nodes that
\* know of each other agree whether the channel is ACTIVE: though each counts
\* answers on its own, over challenges the other has not seen, neither goes
\* ACTIVE alone.  (But a verify_rejected about an earlier channel, sent without
\* a lock, may have come between a client and its challenge.)
AgreeAtRest ==
  Settled /\ AtRest /\ counts.faults = 0 =>
    \A m, n \in Nodes :
      Knows(m) /\ Knows(n) /\ channel[m].state = "ACTIVE" =>
        \/ channel[n].state = "ACTIVE"
        \/ \E c \in ConnsOf(channel[n]) : view[c].type = "verify_rejected"

-----------------------------------------------------------------------------
(* What the documentation says and the code does not do (see the findings). *)

\* README.md:356: on verify_rejected from either side the channel is deleted.
\* So whoever has sent it has no channel on its node after that step.
RejectionDeletes ==
  [][\A c \in Conns : HandleVerifyRejected(c) => channel'[Home[c]] = NoChannel]_vars
=============================================================================
