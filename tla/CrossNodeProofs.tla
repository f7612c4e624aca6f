--------------------------- MODULE CrossNodeProofs ---------------------------
(***************************************************************************)
(* For any number of nodes and connections, whatever messages are lost and *)
(* whichever nodes restart: each node's state of the channel fits its      *)
(* members and what its clients were told, its waits end, and an evicted   *)
(* client is told.  And while nothing is lost and each of two clients      *)
(* comes back to its own node: once all messages are served the two nodes  *)
(* know of each other, and both are ACTIVE or neither is.                  *)
(***************************************************************************)
EXTENDS CrossNode, FiniteSetTheorems, TLAPS

-----------------------------------------------------------------------------
(* The inductive invariant: one statement on each node                      *)

\* A slot is free, or holds a stub or a connection of the node under its id.
PeerOK(n, p) ==
  \/ p = NoPeer
  \/ /\ p \in [id : Ids, conn : Conns \cup {NoConn}, answered : BOOLEAN]
     /\ p.conn # NoConn => Home[p.conn] = n /\ IdOf[p.conn] = p.id

ChannelOK(n, k) ==
  /\ k \in Channel
  /\ k.state = "NONE" => k = NoChannel
  /\ k.state # "NONE" => k.obj # 0
  /\ \A s \in Slot : PeerOK(n, k.peers[s])
  /\ k.state = "WAIT_PEER" => Members(k) # Slot
  /\ k.state = "ACTIVE" /\ Locals(k) # {} => Members(k) = Slot
  /\ Members(k) = Slot => k.peers[0].id # k.peers[1].id

\* The conjunct of ActiveMeansVerified for n.
ShownAt(n) ==
  \A s \in Locals(channel[n]) :
    channel[n].state = "ACTIVE" /\ Open(channel[n].peers[s].conn) =>
      view[channel[n].peers[s].conn]
        \in {[type |-> "verify_peer", peer |-> channel[n].peers[1 - s].id],
             Note("verify_rejected")}

\* WaitIsTimed for n, by a deletion that is yet to come; one that is through
\* has not left its object behind.
TimedAt(n) ==
  /\ channel[n].state = "WAIT_PEER" =>
       \/ [node |-> n, gen |-> channel[n].waitGen] \in waitTimers
       \/ \E d \in deletes :
            d.node = n /\ d.obj = channel[n].obj /\ d.next = "delete"
       \/ \E c \in Conns : handler[c].at = "leaving" /\ Home[c] = n
                           /\ handler[c].obj = channel[n].obj
  /\ \A d \in deletes :
       d.node = n =>
         d.obj # 0 /\ (d.next = "unregister" => d.obj # channel[n].obj)

\* A connection that is not, or no more, in the channel.
Away(c) ==
  \/ handler[c].at \in {"leaving", "unregistering", "closed"}
  \/ handler[c].at = "closing" /\ ~handler[c].indexed

\* Until a goroutine is stuck, every member is counted in, and none is away.
IndexedAt(n) ==
  Serving(n) =>
    \A c \in ConnsOf(channel[n]) : c \in inChannel /\ ~Away(c)

Believing == {"challenge", "verify_peer", "peer_left"}

\* The rejection that c is about to be told of.
Announced(c) ==
  \E d \in Conns : handler[d].at = "unregistering" /\ handler[d].to = c

\* EvictedAreTold for n.  A rejection is for a client of the same node.
ToldAt(n) ==
  \A c \in Conns :
    Home[c] = n =>
      /\ Open(c) /\ Serving(n) /\ view[c].type \in Believing =>
           c \in ConnsOf(channel[n]) \/ Announced(c)
      /\ handler[c].at = "unregistering" /\ handler[c].to # NoConn =>
           Home[handler[c].to] = n

NodeOK(n) ==
  /\ ChannelOK(n, channel[n])
  /\ ShownAt(n) /\ TimedAt(n) /\ IndexedAt(n) /\ ToldAt(n)

CInv == TypeOK /\ IsFiniteSet(deletes) /\ \A n \in Nodes : NodeOK(n)

-----------------------------------------------------------------------------
(* Slots and members                                                        *)

LEMMA Nil ==
  /\ NoConn \notin Conns /\ NoId \notin Ids
  /\ \A c \in Conns : Home[c] \in Nodes /\ IdOf[c] \in Ids
  /\ NoPeer.id = NoId /\ NoPeer.conn = NoConn /\ NoPeer.answered = FALSE
  /\ NoPeer \in Peer /\ NoChannel \in Channel /\ NoChannel.state = "NONE"
  /\ NoChannel.obj = 0 /\ \A s \in Slot : NoChannel.peers[s] = NoPeer
BY NodesAssumption, ClientsAssumption DEF NoPeer, Peer, NoChannel, Channel, Slot

\* A slot by what is in it.
LEMMA SlotIs ==
  ASSUME NEW n, NEW k, ChannelOK(n, k), NEW s \in Slot
  PROVE  /\ s \in Members(k) <=> k.peers[s] # NoPeer
         /\ s \in Members(k) =>
              /\ k.peers[s] \in [id : Ids, conn : Conns \cup {NoConn}, answered : BOOLEAN]
              /\ k.peers[s].id \in Ids
         /\ s \in Locals(k) <=> s \in Members(k) /\ k.peers[s].conn \in Conns
         /\ s \in Locals(k) =>
              Home[k.peers[s].conn] = n /\ IdOf[k.peers[s].conn] = k.peers[s].id
         /\ k.peers[s].answered => s \in Members(k)
         /\ k.peers[s] \in Peer
BY Nil DEF ChannelOK, PeerOK, Members, Locals, Peer

\* No connection has two slots.
LEMMA OneSlot ==
  ASSUME NEW n, NEW k, ChannelOK(n, k), NEW c \in Conns
  PROVE  /\ c \in ConnsOf(k) <=> SlotsOf(k, c) # {}
         /\ \A s, r \in SlotsOf(k, c) : s = r
         /\ \A s \in SlotsOf(k, c) : s \in Locals(k) /\ s \in Members(k) /\ s \in Slot
         /\ SlotsOf(k, c) # {} => First(SlotsOf(k, c)) \in SlotsOf(k, c)
<1>1. \A s \in SlotsOf(k, c) : s \in Slot /\ s \in Locals(k) /\ k.peers[s].conn = c
  BY Nil DEF SlotsOf, Locals
<1>2. \A s \in SlotsOf(k, c) : s \in Members(k) /\ k.peers[s].id = IdOf[c]
  BY <1>1, SlotIs
<1>3. \A s, r \in SlotsOf(k, c) : s = r
  <2> SUFFICES ASSUME NEW s \in SlotsOf(k, c), NEW r \in SlotsOf(k, c), s # r
               PROVE  FALSE
    OBVIOUS
  <2>1. Members(k) = Slot /\ k.peers[0].id = k.peers[1].id
    BY <1>1, <1>2 DEF Slot, Members
  <2> QED BY <2>1 DEF ChannelOK
<1>4. c \in ConnsOf(k) <=> SlotsOf(k, c) # {}
  BY Nil DEF ConnsOf, SlotsOf, Locals
<1>5. SlotsOf(k, c) # {} => First(SlotsOf(k, c)) \in SlotsOf(k, c)
  BY <1>1 DEF First, Slot
<1> QED BY <1>1, <1>2, <1>3, <1>4, <1>5

LEMMA ConnsAre ==
  ASSUME NEW n, NEW k, ChannelOK(n, k), NEW c \in ConnsOf(k)
  PROVE  /\ c \in Conns /\ Home[c] = n
         /\ \E s \in Locals(k) : s \in Slot /\ k.peers[s].conn = c
BY SlotIs DEF ConnsOf, Locals

LEMMA EmptyOK ==
  ASSUME NEW n
  PROVE  /\ ChannelOK(n, NoChannel) /\ Members(NoChannel) = {}
         /\ Locals(NoChannel) = {} /\ ConnsOf(NoChannel) = {}
BY Nil DEF ChannelOK, PeerOK, Members, Locals, ConnsOf, Slot

LEMMA BackIs ==
  ASSUME NEW k \in Channel
  PROVE  /\ BackToWait(k) \in Channel /\ BackToWait(k).state = "WAIT_PEER"
         /\ BackToWait(k).waitGen = k.waitGen + 1 /\ BackToWait(k).obj = k.obj
         /\ BackToWait(k).peers = k.peers
BY DEF BackToWait, Channel

LEMMA ErasedIs ==
  ASSUME NEW n, NEW p, PeerOK(n, p)
  PROVE  LET q == [p EXCEPT !.answered = FALSE] IN
         /\ q \in Peer /\ PeerOK(n, q) /\ q.id = p.id /\ q.conn = p.conn
         /\ q.answered = FALSE
<1>1. CASE p = NoPeer
  <2> DEFINE None == [id : {NoId}, conn : {NoConn}, answered : {FALSE}]
             q == [p EXCEPT !.answered = FALSE]
  <2>1. p \in None
    BY <1>1 DEF NoPeer
  <2>2. q \in None
    BY <2>1
  <2> HIDE DEF q
  <2>3. q = [id |-> q.id, conn |-> q.conn, answered |-> q.answered]
    BY <2>2
  <2>4. q = NoPeer
    BY <2>2, <2>3 DEF NoPeer
  <2> QED BY <1>1, <2>4, Nil DEF PeerOK, q
<1>2. CASE p # NoPeer
  BY <1>2 DEF PeerOK, Peer
<1> QED BY <1>1, <1>2

LEMMA UnansweredIs ==
  ASSUME NEW n, NEW k \in Channel, \A s \in Slot : PeerOK(n, k.peers[s])
  PROVE  LET u == Unanswered(k) IN
         /\ u \in Channel /\ u.state = k.state /\ u.waitGen = k.waitGen /\ u.obj = k.obj
         /\ \A s \in Slot : /\ PeerOK(n, u.peers[s]) /\ u.peers[s].answered = FALSE
                            /\ u.peers[s].id = k.peers[s].id
                            /\ u.peers[s].conn = k.peers[s].conn
         /\ Members(u) = Members(k) /\ Locals(u) = Locals(k) /\ ConnsOf(u) = ConnsOf(k)
<1> DEFINE u == Unanswered(k)
           f == [s \in Slot |-> [k.peers[s] EXCEPT !.answered = FALSE]]
<1>1. \A s \in Slot : /\ f[s] \in Peer /\ PeerOK(n, f[s]) /\ f[s].answered = FALSE
                      /\ f[s].id = k.peers[s].id /\ f[s].conn = k.peers[s].conn
  BY ErasedIs
<1>2. f \in [Slot -> Peer]
  BY <1>1
<1>3. u = [k EXCEPT !.peers = f]
  BY DEF Unanswered
<1> HIDE DEF f
<1>4. /\ u \in Channel /\ u.state = k.state /\ u.waitGen = k.waitGen /\ u.obj = k.obj
      /\ u.peers = f
  BY <1>2, <1>3 DEF Channel
<1> HIDE DEF u
<1>5. Members(u) = Members(k) /\ Locals(u) = Locals(k)
  BY <1>1, <1>4 DEF Members, Locals
<1>6. ConnsOf(u) = ConnsOf(k)
  BY <1>1, <1>4, <1>5 DEF ConnsOf, Locals
<1> QED BY <1>1, <1>4, <1>5, <1>6 DEF u

\* removePeerFromChannelLocked, on the channel alone.
LEMMA WithoutOK ==
  ASSUME NEW n, NEW k, ChannelOK(n, k), NEW s \in Members(k), s \in Slot
  PROVE  LET w == Without(k, s) IN
         /\ ChannelOK(n, w) /\ w.obj = k.obj /\ k.state # "NONE"
         /\ Members(w) = Members(k) \ {s} /\ Locals(w) = Locals(k) \ {s}
         /\ \A r \in Locals(w) : w.peers[r].conn = k.peers[r].conn
         /\ \/ Members(w) = {} /\ w.state = k.state /\ w.waitGen = k.waitGen
            \/ Members(w) # {} /\ w.state = "WAIT_PEER" /\ w.waitGen = k.waitGen + 1
<1> DEFINE rest == [k EXCEPT !.peers[s] = NoPeer]
           b == BackToWait(rest)
           back == Unanswered(b)
<1>1. /\ rest \in Channel /\ rest.state = k.state /\ rest.waitGen = k.waitGen
      /\ rest.obj = k.obj
      /\ rest.peers = [k.peers EXCEPT ![s] = NoPeer]
  BY Nil DEF ChannelOK, Channel
<1>2. \A r \in Slot : rest.peers[r] = IF r = s THEN NoPeer ELSE k.peers[r]
  BY <1>1 DEF ChannelOK, Channel
<1>3. Members(rest) = Members(k) \ {s} /\ Locals(rest) = Locals(k) \ {s}
  BY <1>2, Nil DEF Members, Locals
<1>4. k.state # "NONE"
  BY EmptyOK DEF ChannelOK
<1>5. Members(rest) # Slot
  BY <1>3
<1>6. CASE Members(rest) = {}
  <2>1. Without(k, s) = rest
    BY <1>6 DEF Without
  <2>2. ChannelOK(n, rest)
    <3>1. \A r \in Slot : PeerOK(n, rest.peers[r])
      BY <1>2 DEF ChannelOK, PeerOK
    <3>2. Locals(rest) = {}
      BY <1>2, <1>6, Nil, SlotIs DEF Locals, Members
    <3> QED BY <1>1, <1>4, <1>5, <3>1, <3>2 DEF ChannelOK
  <2> QED BY <1>1, <1>2, <1>3, <1>4, <1>6, <2>1, <2>2 DEF Locals
<1>7. CASE Members(rest) # {}
  <2>1. Without(k, s) = back
    BY <1>7 DEF Without
  <2>2. /\ b \in Channel /\ b.state = "WAIT_PEER" /\ b.waitGen = k.waitGen + 1
        /\ b.obj = k.obj /\ b.peers = rest.peers
    BY <1>1, BackIs
  <2>9. \A r \in Slot : PeerOK(n, rest.peers[r])
    BY <1>2 DEF ChannelOK, PeerOK
  <2> HIDE DEF rest, b
  <2>3. \A r \in Slot : PeerOK(n, b.peers[r])
    BY <2>2, <2>9
  <2>4. /\ back \in Channel /\ back.state = "WAIT_PEER" /\ back.obj = k.obj
        /\ back.waitGen = k.waitGen + 1
    BY <2>2, <2>3, UnansweredIs
  <2>10. \A r \in Slot : PeerOK(n, back.peers[r]) /\ back.peers[r].id = b.peers[r].id
                         /\ back.peers[r].conn = b.peers[r].conn
    BY <2>2, <2>3, UnansweredIs
  <2>5. \A r \in Slot : PeerOK(n, back.peers[r]) /\ back.peers[r].id = rest.peers[r].id
                        /\ back.peers[r].conn = rest.peers[r].conn
    BY <2>2, <2>10
  <2> HIDE DEF back
  <2>6. Members(back) = Members(rest) /\ Locals(back) = Locals(rest)
    BY <2>5 DEF Members, Locals
  <2>7. ChannelOK(n, back)
    BY <1>4, <1>5, <2>4, <2>5, <2>6 DEF ChannelOK
  <2>8. \A r \in Locals(back) : back.peers[r].conn = k.peers[r].conn
    BY <1>2, <1>3, <2>5, <2>6 DEF Locals
  <2> QED BY <1>3, <1>4, <1>7, <2>1, <2>4, <2>6, <2>7, <2>8
<1> QED BY <1>6, <1>7

-----------------------------------------------------------------------------
(* The Channel a join works on                                              *)

\* An object id that no goroutine of the node holds can be chosen, as they
\* are finitely many.
LEMMA FreshIs ==
  ASSUME TypeOK, IsFiniteSet(deletes), NEW n \in Nodes
  PROVE  /\ Fresh(n) \in Nat \ {0}
         /\ \A d \in deletes : d.node = n => d.obj # Fresh(n)
<1> DEFINE D == {e \in deletes : e.node = n}
           DO == {d.obj : d \in D}
           H == {d \in Conns : handler[d].at = "leaving"}
           HO == {handler[c].obj : c \in H}
           used == DO \cup HO
           size == Cardinality(used)
<1>1. IsFiniteSet(DO)
  <2>1. D \in SUBSET deletes
    OBVIOUS
  <2>2. IsFiniteSet(D)
    BY <2>1, FS_Subset
  <2>3. [d \in D |-> d.obj] \in Surjection(D, DO)
    BY DEF Surjection
  <2> QED BY <2>2, <2>3, FS_Surjection
<1>2. IsFiniteSet(HO)
  <2>1. H \in SUBSET Conns
    OBVIOUS
  <2>2. IsFiniteSet(H)
    BY <2>1, FS_Subset, NodesAssumption
  <2>3. [c \in H |-> handler[c].obj] \in Surjection(H, HO)
    BY DEF Surjection
  <2> QED BY <2>2, <2>3, FS_Surjection
<1>3. IsFiniteSet(used)
  BY <1>1, <1>2, FS_Union
<1> DEFINE ids == 1..(size + 1)
<1>4. \E o \in ids : o \notin used
  <2> SUFFICES ASSUME ids \subseteq used PROVE FALSE
    OBVIOUS
  <2>1. size \in Nat
    BY <1>3, FS_CardinalityType
  <2> HIDE DEF used
  <2>2. IsFiniteSet(ids) /\ Cardinality(ids) <= size
    BY <1>3, FS_Subset
  <2> HIDE DEF size
  <2>3. Cardinality(ids) = size + 1
    BY <2>1, FS_Interval
  <2> QED BY <2>1, <2>2, <2>3
<1>5. Fresh(n) \in ids /\ Fresh(n) \notin used
  BY <1>4 DEF Fresh
<1>6. size \in Nat
  BY <1>3, FS_CardinalityType
<1> QED BY <1>5, <1>6

LEMMA OpenedOK ==
  ASSUME CInv, NEW n \in Nodes
  PROVE  /\ ChannelOK(n, Opened(n)) /\ Opened(n).state # "NONE"
         /\ ConnsOf(Opened(n)) = ConnsOf(channel[n])
         /\ Locals(Opened(n)) = Locals(channel[n])
         /\ \A d \in deletes :
              d.node = n /\ d.next = "unregister" => d.obj # Opened(n).obj
<1>1. ChannelOK(n, channel[n]) /\ TimedAt(n)
  BY DEF CInv, NodeOK
<1>2. CASE Mapped(n)
  BY <1>1, <1>2 DEF Opened, Mapped, TimedAt
<1>3. CASE ~Mapped(n)
  <2> DEFINE o == Opened(n)
  <2>1. o = [NoChannel EXCEPT !.state = "WAIT_PEER", !.obj = Fresh(n)]
    BY <1>3 DEF Opened
  <2>2. /\ Fresh(n) \in Nat /\ Fresh(n) # 0
        /\ \A d \in deletes : d.node = n => d.obj # Fresh(n)
    BY FreshIs DEF CInv
  <2>3. /\ o \in Channel /\ o.state = "WAIT_PEER" /\ o.obj = Fresh(n)
        /\ o.peers = NoChannel.peers
    BY <2>1, <2>2, Nil DEF Channel
  <2> HIDE DEF o
  <2>4. \A s \in Slot : o.peers[s] = NoPeer
    BY <2>3, Nil
  <2>5. Members(o) = {} /\ Locals(o) = {} /\ ConnsOf(o) = {}
    BY <2>4, Nil DEF Members, Locals, ConnsOf
  <2>6. ChannelOK(n, o)
    BY <2>2, <2>3, <2>4, <2>5 DEF ChannelOK, PeerOK, Slot
  <2>7. channel[n] = NoChannel
    BY <1>1, <1>3 DEF ChannelOK, Mapped
  <2> QED BY <2>2, <2>3, <2>5, <2>6, <2>7, EmptyOK DEF o
<1> QED BY <1>2, <1>3

LEMMA AfterReplacementIs ==
  ASSUME NEW n, NEW k, ChannelOK(n, k), NEW i \in Ids
  PROVE  LET a == AfterReplacement(k, i) IN
         /\ a \in Channel /\ a.state = k.state /\ a.waitGen = k.waitGen /\ a.obj = k.obj
         /\ \A s \in Slot : PeerOK(n, a.peers[s]) /\ a.peers[s].id # i
         /\ Members(a) = Members(k) \ Named(k, i)
         /\ Members(a) = Slot => a.peers[0].id # a.peers[1].id
         /\ ConnsOf(a) = ConnsOf(k) \ Replaced(k, i)
<1> DEFINE a == AfterReplacement(k, i)
           f == [s \in Slot |-> IF s \in Named(k, i) THEN NoPeer ELSE k.peers[s]]
<1>1. \A s \in Slot : /\ f[s] \in Peer /\ PeerOK(n, f[s]) /\ f[s].id # i
                      /\ f[s] = IF s \in Named(k, i) THEN NoPeer ELSE k.peers[s]
  BY Nil, SlotIs DEF ChannelOK, PeerOK, Named
<1>2. f \in [Slot -> Peer]
  BY <1>1
<1>3. a = [k EXCEPT !.peers = f]
  BY DEF AfterReplacement
<1> HIDE DEF f
<1>4. /\ a \in Channel /\ a.state = k.state /\ a.waitGen = k.waitGen /\ a.obj = k.obj
      /\ a.peers = f
  BY <1>2, <1>3 DEF Channel, ChannelOK
<1> HIDE DEF a
<1>5. /\ Members(a) = Members(k) \ Named(k, i)
      /\ Locals(a) = Locals(k) \ Named(k, i)
  BY <1>1, <1>4, Nil DEF Members, Locals
<1>6. Members(a) = Slot => a.peers[0].id # a.peers[1].id
  BY <1>1, <1>4, <1>5 DEF ChannelOK, Slot, Members
<1>7. ConnsOf(a) = ConnsOf(k) \ Replaced(k, i)
  <2>1. \A s \in Locals(k) : k.peers[s].conn \in Replaced(k, i) <=> s \in Named(k, i)
    BY SlotIs DEF Replaced, ConnsOf, Named, Locals
  <2>2. \A s \in Locals(a) : a.peers[s].conn = k.peers[s].conn
    BY <1>1, <1>4, <1>5 DEF Locals
  <2> QED BY <1>5, <2>1, <2>2 DEF ConnsOf
<1> QED BY <1>1, <1>4, <1>5, <1>6, <1>7 DEF a

\* What JoinFirst makes of an empty Channel.
LEMMA FirstOK ==
  ASSUME NEW c \in Conns, NEW a \in Channel, Members(a) = {}, a.obj # 0,
         \A s \in Slot : PeerOK(Home[c], a.peers[s])
  PROVE  LET k == [BackToWait(a) EXCEPT !.peers[0] = Local(IdOf[c], c)] IN
         /\ ChannelOK(Home[c], k) /\ k.state = "WAIT_PEER" /\ k.obj = a.obj
         /\ ConnsOf(k) = {c} /\ Members(k) # {}
<1> DEFINE b == BackToWait(a)
           p == Local(IdOf[c], c)
           k == [b EXCEPT !.peers[0] = p]
<1>1. /\ b \in Channel /\ b.state = "WAIT_PEER" /\ b.obj = a.obj /\ b.peers = a.peers
  BY BackIs
<1>2. /\ p \in Peer /\ PeerOK(Home[c], p) /\ p.id = IdOf[c] /\ p.conn = c
      /\ p.id \in Ids /\ p.conn \in Conns
  BY Nil DEF Local, Peer, PeerOK
<1> HIDE DEF b, p
<1>3. /\ k \in Channel /\ k.state = "WAIT_PEER" /\ k.obj = a.obj
      /\ k.peers = [a.peers EXCEPT ![0] = p]
  BY <1>1, <1>2 DEF Channel
<1> HIDE DEF k
<1>4. \A s \in Slot : k.peers[s] = IF s = 0 THEN p ELSE a.peers[s]
  BY <1>3 DEF Channel, Slot
<1>5. a.peers[1].id = NoId /\ a.peers[1] = NoPeer
  BY Nil DEF Members, PeerOK, Slot
<1>6. Members(k) = {0} /\ Locals(k) = {0}
  BY <1>2, <1>4, <1>5, Nil DEF Members, Locals, Slot
<1>7. ConnsOf(k) = {c}
  BY <1>2, <1>4, <1>6 DEF ConnsOf, Slot
<1>8. ChannelOK(Home[c], k)
  <2>1. \A s \in Slot : PeerOK(Home[c], k.peers[s])
    BY <1>2, <1>4
  <2>2. Members(k) # Slot
    BY <1>6 DEF Slot
  <2> QED BY <1>3, <2>1, <2>2 DEF ChannelOK
<1> QED BY <1>3, <1>6, <1>7, <1>8 DEF k, b, p

\* What JoinSecond makes of a Channel with one member.
LEMMA SecondOK ==
  ASSUME NEW c \in Conns, NEW a \in Channel, Cardinality(Members(a)) = 1, a.obj # 0,
         \A s \in Slot : PeerOK(Home[c], a.peers[s]) /\ a.peers[s].id # IdOf[c]
  PROVE  LET k == [Unanswered(a) EXCEPT !.state = "CHALLENGING",
                     !.peers[First(Slot \ Members(a))] = Local(IdOf[c], c)] IN
         /\ ChannelOK(Home[c], k) /\ k.state = "CHALLENGING" /\ k.obj = a.obj
         /\ ConnsOf(k) = ConnsOf(a) \cup {c}
<1> DEFINE u == Unanswered(a)
           p == Local(IdOf[c], c)
           s == First(Slot \ Members(a))
           k == [u EXCEPT !.state = "CHALLENGING", !.peers[s] = p]
<1>1. PICK m \in Slot : Members(a) = {m}
  <2>1. Members(a) \in SUBSET (0..1)
    BY DEF Members, Slot
  <2>2. IsFiniteSet(Members(a))
    BY <2>1, FS_Interval, FS_Subset
  <2>3. \E x : Members(a) = {x}
    BY <2>2, FS_Singleton
  <2> QED BY <2>3 DEF Members
<1>2. s = 1 - m /\ s \in Slot /\ m = 1 - s
  BY <1>1 DEF First, Slot
<1>3. /\ u \in Channel /\ u.obj = a.obj
      /\ \A r \in Slot : /\ PeerOK(Home[c], u.peers[r])
                         /\ u.peers[r].id = a.peers[r].id
                         /\ u.peers[r].conn = a.peers[r].conn
  BY UnansweredIs
<1>4. /\ p \in Peer /\ PeerOK(Home[c], p) /\ p.id = IdOf[c] /\ p.conn = c
      /\ p.id \in Ids /\ p.conn \in Conns
  BY Nil DEF Local, Peer, PeerOK
<1> HIDE DEF u, p, s
<1>5. /\ k \in Channel /\ k.state = "CHALLENGING" /\ k.obj = a.obj
      /\ k.peers = [u.peers EXCEPT ![s] = p]
  BY <1>2, <1>3, <1>4 DEF Channel
<1> HIDE DEF k
<1>6. k.peers[s] = p /\ k.peers[m] = u.peers[m]
  <2>1. u.peers \in [Slot -> Peer] /\ s # m
    BY <1>2, <1>3 DEF Channel, Slot
  <2> QED BY <1>2, <1>5, <2>1
<1>7. \A r \in Slot : r = s \/ r = m
  BY <1>2 DEF Slot
<1>8. a.peers[s].conn = NoConn /\ a.peers[m].id # NoId
  BY <1>1, <1>2, Nil DEF Members, PeerOK, Slot
<1>9. ConnsOf(k) = ConnsOf(a) \cup {c}
  <2>1. ConnsOf(a) = {a.peers[m].conn} \ {NoConn}
    BY <1>7, <1>8 DEF ConnsOf, Locals
  <2>2. ConnsOf(k) = ({a.peers[m].conn} \ {NoConn}) \cup {c}
    BY <1>2, <1>3, <1>4, <1>6, <1>7, Nil DEF ConnsOf, Locals
  <2> QED BY <2>1, <2>2
<1>10. ChannelOK(Home[c], k)
  <2>1. \A r \in Slot : PeerOK(Home[c], k.peers[r])
    BY <1>3, <1>4, <1>6, <1>7
  <2>2. k.peers[0].id # k.peers[1].id
    BY <1>2, <1>3, <1>4, <1>6 DEF Slot
  <2> QED BY <1>5, <2>1, <2>2 DEF ChannelOK
<1> QED BY <1>5, <1>9, <1>10 DEF k, u, p, s

LEMMA WaitTimerOfIs ==
  ASSUME NEW n, NEW k
  PROVE  /\ WaitTimerOf(n, k) \subseteq {[node |-> n, gen |-> k.waitGen]}
         /\ k.state = "WAIT_PEER" /\ Members(k) # {} =>
              [node |-> n, gen |-> k.waitGen] \in WaitTimerOf(n, k)
BY DEF WaitTimerOf

-----------------------------------------------------------------------------
(* Answers, and the messages of other nodes, on the channel alone           *)

\* A member's answer is noted.
LEMMA NotedOK ==
  ASSUME NEW n, NEW k, ChannelOK(n, k), NEW s \in Members(k), s \in Slot
  PROVE  LET a == [k EXCEPT !.peers[s].answered = TRUE] IN
         /\ ChannelOK(n, a) /\ a.state = k.state /\ a.waitGen = k.waitGen
         /\ a.obj = k.obj /\ a.state # "NONE"
         /\ \A r \in Slot : /\ a.peers[r].id = k.peers[r].id
                            /\ a.peers[r].conn = k.peers[r].conn
         /\ Members(a) = Members(k) /\ Locals(a) = Locals(k) /\ ConnsOf(a) = ConnsOf(k)
<1> DEFINE p == [k.peers[s] EXCEPT !.answered = TRUE]
           a == [k EXCEPT !.peers[s] = p]
<1>0. a = [k EXCEPT !.peers[s].answered = TRUE]
  BY DEF ChannelOK, Channel
<1>1. /\ p \in [id : Ids, conn : Conns \cup {NoConn}, answered : BOOLEAN]
      /\ p.id = k.peers[s].id /\ p.conn = k.peers[s].conn
  <2>1. k.peers[s] \in [id : Ids, conn : Conns \cup {NoConn}, answered : BOOLEAN]
    BY SlotIs
  <2> QED BY <2>1
<1>2. p \in Peer /\ PeerOK(n, p)
  BY <1>1, SlotIs, Nil DEF Peer, PeerOK, Locals
<1> HIDE DEF p
<1>3. /\ a \in Channel /\ a.state = k.state /\ a.waitGen = k.waitGen /\ a.obj = k.obj
      /\ a.peers = [k.peers EXCEPT ![s] = p]
  BY <1>2 DEF ChannelOK, Channel
<1> HIDE DEF a
<1>4. \A r \in Slot : a.peers[r] = IF r = s THEN p ELSE k.peers[r]
  BY <1>3 DEF ChannelOK, Channel
<1>5. \A r \in Slot : a.peers[r].id = k.peers[r].id /\ a.peers[r].conn = k.peers[r].conn
  BY <1>1, <1>4
<1>6. Members(a) = Members(k) /\ Locals(a) = Locals(k)
  BY <1>5 DEF Members, Locals
<1>7. ConnsOf(a) = ConnsOf(k)
  BY <1>5, <1>6 DEF ConnsOf, Locals
<1>8. k.state # "NONE"
  BY EmptyOK DEF ChannelOK
<1>9. ChannelOK(n, a)
  <2>1. \A r \in Slot : PeerOK(n, a.peers[r])
    BY <1>2, <1>4 DEF ChannelOK
  <2>2. Members(a) = Slot => a.peers[0].id # a.peers[1].id
    BY <1>5, <1>6 DEF ChannelOK, Slot
  <2> QED BY <1>3, <1>6, <1>8, <2>1, <2>2 DEF ChannelOK
<1> QED BY <1>0, <1>3, <1>5, <1>6, <1>7, <1>8, <1>9 DEF a

\* Both have answered: ACTIVE.
LEMMA VerifiedOK ==
  ASSUME NEW n, NEW k, ChannelOK(n, k), Verified(k)
  PROVE  LET a == [Unanswered(k) EXCEPT !.state = "ACTIVE"] IN
         /\ ChannelOK(n, a) /\ a.state = "ACTIVE" /\ a.obj = k.obj
         /\ \A r \in Slot : /\ a.peers[r].id = k.peers[r].id
                            /\ a.peers[r].conn = k.peers[r].conn
         /\ Members(a) = Slot /\ Locals(a) = Locals(k) /\ ConnsOf(a) = ConnsOf(k)
         /\ k.state # "NONE"
<1> DEFINE u == Unanswered(k)
           a == [u EXCEPT !.state = "ACTIVE"]
<1>1. Members(k) = Slot
  BY SlotIs DEF Verified, Members
<1>2. /\ u \in Channel /\ u.obj = k.obj
      /\ \A s \in Slot : /\ PeerOK(n, u.peers[s])
                         /\ u.peers[s].id = k.peers[s].id
                         /\ u.peers[s].conn = k.peers[s].conn
  BY UnansweredIs DEF ChannelOK
<1> HIDE DEF u
<1>3. a \in Channel /\ a.state = "ACTIVE" /\ a.obj = k.obj /\ a.peers = u.peers
  BY <1>2 DEF Channel
<1> HIDE DEF a
<1>4. Members(a) = Slot /\ Locals(a) = Locals(k)
  BY <1>1, <1>2, <1>3 DEF Members, Locals
<1>5. ConnsOf(a) = ConnsOf(k)
  BY <1>2, <1>3, <1>4 DEF ConnsOf, Locals
<1>6. k.state # "NONE"
  BY <1>1, EmptyOK DEF ChannelOK, Slot
<1>7. ChannelOK(n, a)
  <2>1. k.obj # 0 /\ k.peers[0].id # k.peers[1].id
    BY <1>1, <1>6 DEF ChannelOK
  <2>2. a.peers[0].id # a.peers[1].id
    BY <1>2, <1>3, <2>1 DEF Slot
  <2> QED BY <1>2, <1>3, <1>4, <2>1, <2>2 DEF ChannelOK
<1> QED BY <1>2, <1>3, <1>4, <1>5, <1>6, <1>7 DEF a, u

\* What a join_notify leaves of the answers.
LEMMA KeptIs ==
  ASSUME NEW n, NEW p, PeerOK(n, p), NEW v \in BOOLEAN
  PROVE  LET q == [p EXCEPT !.answered = @ /\ v] IN
         q \in Peer /\ PeerOK(n, q) /\ q.id = p.id /\ q.conn = p.conn
<1> DEFINE q == [p EXCEPT !.answered = @ /\ v]
<1>1. CASE p = NoPeer
  <2> DEFINE None == [id : {NoId}, conn : {NoConn}, answered : {FALSE}]
  <2>1. p \in None
    BY <1>1 DEF NoPeer
  <2>2. q \in None
    BY <2>1
  <2> HIDE DEF q
  <2>3. q = [id |-> q.id, conn |-> q.conn, answered |-> q.answered]
    BY <2>2
  <2>4. q = NoPeer
    BY <2>2, <2>3 DEF NoPeer
  <2> QED BY <1>1, <2>4, Nil DEF PeerOK, q
<1>2. CASE p # NoPeer
  <2>1. p \in [id : Ids, conn : Conns \cup {NoConn}, answered : BOOLEAN]
    BY <1>2 DEF PeerOK
  <2>2. q \in [id : Ids, conn : Conns \cup {NoConn}, answered : BOOLEAN]
        /\ q.id = p.id /\ q.conn = p.conn
    BY <2>1
  <2> QED BY <1>2, <2>2 DEF PeerOK, Peer
<1> QED BY <1>1, <1>2

LEMMA RechallengedOK ==
  ASSUME NEW n, NEW k \in Channel, k.obj # 0, NEW i \in Ids,
         \A s \in Slot : PeerOK(n, k.peers[s]),
         Members(k) = Slot => k.peers[0].id # k.peers[1].id
  PROVE  LET r == Rechallenged(k, i) IN
         /\ ChannelOK(n, r) /\ r.state = "CHALLENGING" /\ r.obj = k.obj
         /\ ConnsOf(r) = ConnsOf(k)
<1> DEFINE r == Rechallenged(k, i)
           kept(s) == s \notin Locals(k) \cup Named(k, i)
           f == [s \in Slot |-> [k.peers[s] EXCEPT !.answered = @ /\ kept(s)]]
<1>1. \A s \in Slot : /\ f[s] \in Peer /\ PeerOK(n, f[s])
                      /\ f[s].id = k.peers[s].id /\ f[s].conn = k.peers[s].conn
  <2> TAKE s \in Slot
  <2>1. PeerOK(n, k.peers[s]) /\ kept(s) \in BOOLEAN
    OBVIOUS
  <2> DEFINE v == kept(s)
             q == [k.peers[s] EXCEPT !.answered = @ /\ v]
  <2>2. f[s] = q
    OBVIOUS
  <2> HIDE DEF kept, v, f
  <2>3. v \in BOOLEAN
    BY <2>1 DEF v
  <2>4. q \in Peer /\ PeerOK(n, q) /\ q.id = k.peers[s].id /\ q.conn = k.peers[s].conn
    BY <2>1, <2>3, KeptIs
  <2> QED BY <2>2, <2>4
<1>2. f \in [Slot -> Peer]
  BY <1>1
<1>3. r = [k EXCEPT !.state = "CHALLENGING", !.peers = f]
  BY DEF Rechallenged
<1> HIDE DEF f
<1>4. r \in Channel /\ r.state = "CHALLENGING" /\ r.obj = k.obj /\ r.peers = f
  BY <1>2, <1>3 DEF Channel
<1> HIDE DEF r
<1>5. Members(r) = Members(k) /\ Locals(r) = Locals(k)
  BY <1>1, <1>4 DEF Members, Locals
<1>6. ConnsOf(r) = ConnsOf(k)
  BY <1>1, <1>4, <1>5 DEF ConnsOf, Locals
<1>7. ChannelOK(n, r)
  <2>1. Members(r) = Slot => r.peers[0].id # r.peers[1].id
    BY <1>1, <1>4, <1>5 DEF Slot
  <2> QED BY <1>1, <1>4, <2>1 DEF ChannelOK
<1> QED BY <1>4, <1>6, <1>7 DEF r

\* A stub takes a free slot.
LEMMA StubOK ==
  ASSUME NEW n, NEW k, ChannelOK(n, k), k.state # "NONE", NEW i \in Ids
  PROVE  LET free == Slot \ Members(k)
             noted == IF Named(k, i) # {} \/ free = {} THEN k
                      ELSE [k EXCEPT !.peers[First(free)] = Stub(i)]
             r == Rechallenged(noted, i) IN
         /\ ChannelOK(n, r) /\ r.state = "CHALLENGING" /\ r.obj = k.obj
         /\ ConnsOf(r) = ConnsOf(k)
<1> DEFINE free == Slot \ Members(k)
           f == First(free)
           p == Stub(i)
           a == [k EXCEPT !.peers[f] = p]
<1>1. CASE Named(k, i) # {} \/ free = {}
  BY <1>1, RechallengedOK, ZenonT(30) DEF ChannelOK
<1>2. CASE ~(Named(k, i) # {} \/ free = {})
  <2>1. f \in Slot /\ f \in free
    BY <1>2 DEF First, Slot
  <2>2. /\ p \in Peer /\ PeerOK(n, p) /\ p.id = i /\ p.conn = NoConn
        /\ p.id # NoId
    BY Nil DEF Stub, Local, Peer, PeerOK
  <2> HIDE DEF p, f
  <2>3. /\ a \in Channel /\ a.state = k.state /\ a.obj = k.obj
        /\ a.peers = [k.peers EXCEPT ![f] = p]
    BY <2>1, <2>2 DEF Channel, ChannelOK
  <2> HIDE DEF a
  <2>4. \A s \in Slot : a.peers[s] = IF s = f THEN p ELSE k.peers[s]
    BY <2>3 DEF Channel, ChannelOK
  <2>5. \A s \in Slot : PeerOK(n, a.peers[s])
    BY <2>2, <2>4 DEF ChannelOK
  <2>6. a.peers[0].id # a.peers[1].id
    <3>1. \A s \in Slot : k.peers[s].id # i
      BY <1>2 DEF Named
    <3> QED BY <2>1, <2>2, <2>4, <3>1 DEF Slot
  <2>7. ConnsOf(a) = ConnsOf(k)
    <3>1. k.peers[f].conn = NoConn
      BY <2>1, SlotIs, Nil DEF Members
    <3>2. \A s \in Slot : a.peers[s].conn = k.peers[s].conn
      BY <2>2, <2>4, <3>1
    <3> QED BY <3>2 DEF ConnsOf, Locals
  <2>8. k.obj # 0
    BY DEF ChannelOK
  <2> DEFINE r == Rechallenged(a, i)
  <2>9. /\ ChannelOK(n, r) /\ r.state = "CHALLENGING" /\ r.obj = a.obj
        /\ ConnsOf(r) = ConnsOf(a)
    BY <2>3, <2>5, <2>6, <2>8, RechallengedOK, ZenonT(30)
  <2>10. (IF Named(k, i) # {} \/ free = {} THEN k
          ELSE [k EXCEPT !.peers[First(free)] = Stub(i)]) = a
    BY <1>2 DEF a, p, f
  <2> QED BY <2>3, <2>7, <2>9, <2>10
<1> QED BY <1>1, <1>2

\* What a peer_left makes of a Channel that has a stub under the id.
LEMMA StubGoneOK ==
  ASSUME NEW n, NEW k, ChannelOK(n, k), NEW i,
         Stubs(k) \cap Named(k, i) # {}
  PROVE  LET gone == Stubs(k) \cap Named(k, i)
             rest == [k EXCEPT !.peers[First(gone)] = NoPeer]
             back == BackToWait(rest)
         IN
         /\ k.state # "NONE" /\ ConnsOf(rest) = ConnsOf(k)
         /\ Locals(rest) = Locals(k) /\ Locals(k) \subseteq Members(rest)
         /\ rest.obj = k.obj /\ rest.state = k.state /\ rest.waitGen = k.waitGen
         /\ Locals(k) = {} => ChannelOK(n, rest)
         /\ ChannelOK(n, back) /\ back.state = "WAIT_PEER" /\ back.obj = k.obj
         /\ ConnsOf(back) = ConnsOf(k) /\ Members(back) = Members(rest)
<1> DEFINE g == First(Stubs(k) \cap Named(k, i))
           rest == [k EXCEPT !.peers[g] = NoPeer]
           back == BackToWait(rest)
<1>1. g \in Slot /\ g \in Members(k) /\ g \notin Locals(k)
  BY DEF First, Stubs, Named, Slot
<1> HIDE DEF g
<1>2. /\ rest \in Channel /\ rest.state = k.state /\ rest.waitGen = k.waitGen
      /\ rest.obj = k.obj /\ rest.peers = [k.peers EXCEPT ![g] = NoPeer]
  BY Nil DEF ChannelOK, Channel
<1> HIDE DEF rest
<1>3. \A r \in Slot : rest.peers[r] = IF r = g THEN NoPeer ELSE k.peers[r]
  BY <1>2 DEF ChannelOK, Channel
<1>4. Members(rest) = Members(k) \ {g} /\ Locals(rest) = Locals(k)
  BY <1>1, <1>3, Nil DEF Members, Locals
<1>5. ConnsOf(rest) = ConnsOf(k)
  BY <1>1, <1>3, <1>4 DEF ConnsOf, Locals
<1>6. k.state # "NONE" /\ k.obj # 0
  BY <1>1, EmptyOK DEF ChannelOK
<1>7. \A r \in Slot : PeerOK(n, rest.peers[r])
  BY <1>3 DEF ChannelOK, PeerOK
<1>8. Members(rest) # Slot
  BY <1>1, <1>4
<1>9. Locals(k) = {} => ChannelOK(n, rest)
  BY <1>2, <1>4, <1>6, <1>7, <1>8 DEF ChannelOK
<1>10. /\ back \in Channel /\ back.state = "WAIT_PEER" /\ back.obj = k.obj
       /\ back.peers = rest.peers
  BY <1>2, BackIs
<1> HIDE DEF back
<1>11. /\ Members(back) = Members(rest) /\ Locals(back) = Locals(rest)
       /\ ConnsOf(back) = ConnsOf(k)
  BY <1>5, <1>10 DEF Members, Locals, ConnsOf
<1>12. ChannelOK(n, back)
  BY <1>6, <1>7, <1>8, <1>10, <1>11 DEF ChannelOK
<1>13. Locals(k) \subseteq Members(rest)
  BY <1>1, <1>4, SlotIs DEF Locals
<1> QED BY <1>2, <1>4, <1>5, <1>6, <1>9, <1>10, <1>11, <1>12, <1>13 DEF back, rest, g

\* What waitPeerTimeout leaves.
LEMMA EmptiedOK ==
  ASSUME NEW n, NEW k, ChannelOK(n, k), k.state = "WAIT_PEER"
  PROVE  LET e == [k EXCEPT !.peers = NoChannel.peers] IN
         /\ ChannelOK(n, e) /\ e.state = "WAIT_PEER" /\ e.obj = k.obj
         /\ Members(e) = {} /\ ConnsOf(e) = {} /\ Locals(e) = {}
<1> DEFINE e == [k EXCEPT !.peers = NoChannel.peers]
<1>1. /\ e \in Channel /\ e.state = "WAIT_PEER" /\ e.obj = k.obj
      /\ e.peers = NoChannel.peers
  BY Nil DEF ChannelOK, Channel
<1> HIDE DEF e
<1>2. \A s \in Slot : e.peers[s] = NoPeer
  BY <1>1, Nil
<1>3. Members(e) = {} /\ ConnsOf(e) = {} /\ Locals(e) = {}
  BY <1>2, Nil DEF Members, Locals, ConnsOf
<1>4. k.obj # 0
  BY DEF ChannelOK
<1> QED BY <1>1, <1>2, <1>3, <1>4 DEF ChannelOK, PeerOK, e, Slot

-----------------------------------------------------------------------------
(* Steps                                                                    *)

\* A step of node n or of its connections leaves the other nodes as they are.
OnlyAt(n) ==
  /\ \A m \in Nodes : m # n => channel'[m] = channel[m]
  /\ \A c \in Conns :
       Home[c] # n => /\ handler'[c] = handler[c] /\ view'[c] = view[c]
                      /\ c \in inChannel' <=> c \in inChannel
  /\ \A t \in waitTimers : t.node # n => t \in waitTimers'
  /\ \A d \in deletes \cup deletes' :
       d.node # n => (d \in deletes <=> d \in deletes')

\* So what held of those holds of them.
LEMMA Elsewhere ==
  ASSUME CInv, NEW n, OnlyAt(n), NEW m \in Nodes, m # n
  PROVE  NodeOK(m)'
<1> USE m # n
<1>1. NodeOK(m) /\ TypeOK
  BY DEF CInv
<1>2. channel'[m] = channel[m] /\ ChannelOK(m, channel[m])
  BY <1>1 DEF OnlyAt, NodeOK
<1>3. \A c \in Conns : Home[c] = m =>
        /\ handler'[c] = handler[c] /\ view'[c] = view[c]
        /\ c \in inChannel' <=> c \in inChannel
        /\ Open(c)' <=> Open(c)
        /\ Away(c)' <=> Away(c)
  BY DEF OnlyAt, Open, Away
<1>4. Serving(m)' <=> Serving(m)
  BY <1>3 DEF Serving
<1>5. ShownAt(m)'
  <2> SUFFICES ASSUME NEW s \in Locals(channel[m]), channel[m].state = "ACTIVE",
                      Open(channel[m].peers[s].conn)'
               PROVE  (view[channel[m].peers[s].conn])'
                        \in {[type |-> "verify_peer",
                              peer |-> channel[m].peers[1 - s].id],
                             Note("verify_rejected")}
    BY <1>2 DEF ShownAt
  <2> DEFINE c == channel[m].peers[s].conn
  <2>1. c \in Conns /\ Home[c] = m
    BY <1>2, SlotIs DEF Locals
  <2>2. Open(c) /\ view'[c] = view[c]
    BY <1>2, <1>3, <2>1
  <2> QED BY <1>1, <1>2, <2>2 DEF NodeOK, ShownAt
<1>6. TimedAt(m)'
  <2>1. \A d : d.node = m => (d \in deletes <=> d \in deletes')
    BY DEF OnlyAt
  <2>2. \A t \in waitTimers : t.node = m => t \in waitTimers'
    BY DEF OnlyAt
  <2>3. TimedAt(m)
    BY <1>1 DEF NodeOK
  <2>4. channel[m].state = "WAIT_PEER" =>
          \/ [node |-> m, gen |-> channel[m].waitGen] \in waitTimers'
          \/ \E d \in deletes' :
               d.node = m /\ d.obj = channel[m].obj /\ d.next = "delete"
          \/ \E c \in Conns : handler'[c].at = "leaving" /\ Home[c] = m
                              /\ handler'[c].obj = channel[m].obj
    BY <1>3, <2>1, <2>2, <2>3 DEF TimedAt
  <2> QED BY <1>2, <2>1, <2>3, <2>4 DEF TimedAt
<1>7. IndexedAt(m)'
  BY <1>1, <1>2, <1>3, <1>4, ConnsAre DEF NodeOK, IndexedAt
<1>8. ToldAt(m)'
  <2> SUFFICES ASSUME NEW c \in Conns, Home[c] = m
               PROVE  /\ Open(c)' /\ Serving(m)' /\ view'[c].type \in Believing =>
                           c \in ConnsOf(channel'[m]) \/ Announced(c)'
                      /\ handler'[c].at = "unregistering" /\ handler'[c].to # NoConn =>
                           Home[handler'[c].to] = m
    BY DEF ToldAt
  <2>1. Announced(c) => Announced(c)'
    <3> SUFFICES ASSUME NEW d \in Conns, handler[d].at = "unregistering",
                        handler[d].to = c
                 PROVE  Announced(c)'
      BY DEF Announced
    <3>1. NodeOK(Home[d]) /\ Home[d] \in Nodes
      BY Nil DEF CInv
    <3>2. Home[d] = m
      BY <3>1, Nil DEF NodeOK, ToldAt
    <3> QED BY <1>3, <3>2 DEF Announced
  <2> QED BY <1>1, <1>2, <1>3, <1>4, <2>1 DEF NodeOK, ToldAt
<1> QED BY <1>2, <1>5, <1>6, <1>7, <1>8 DEF NodeOK

\* What may be said of a connection of n whose goroutine moves on.
Turned(n, c) ==
  /\ Open(c)' => Open(c)
  /\ handler[c].at = "unregistering" =>
       \A d \in Conns :
         handler[c].to = d => view'[d].type \notin Believing \/ ~Open(d)
  /\ handler'[c].at = "unregistering" /\ handler'[c].to # NoConn =>
       Home[handler'[c].to] = n

\* Who is told something that keeps it believing is a member, and who loses
\* its seat hears of it.
LEMMA ToldStep ==
  ASSUME CInv, NEW n \in Nodes, Serving(n)' => Serving(n),
         \A c \in Conns :
           Home[c] = n => handler'[c] = handler[c] \/ Turned(n, c),
         \A c \in Conns :
           Home[c] = n => \/ view'[c] = view[c]
                          \/ view'[c].type \notin Believing
                          \/ c \in ConnsOf(channel'[n]),
         \A c \in Conns :
           /\ Home[c] = n /\ Open(c) /\ Serving(n)'
           /\ c \in ConnsOf(channel[n]) /\ c \notin ConnsOf(channel'[n])
           => view'[c].type \notin Believing \/ Announced(c)'
  PROVE  ToldAt(n)'
<1> SUFFICES ASSUME NEW c \in Conns, Home[c] = n
             PROVE  /\ Open(c)' /\ Serving(n)' /\ view'[c].type \in Believing =>
                         c \in ConnsOf(channel'[n]) \/ Announced(c)'
                    /\ handler'[c].at = "unregistering" /\ handler'[c].to # NoConn =>
                         Home[handler'[c].to] = n
  BY DEF ToldAt
<1>1. \A e \in Conns : Home[e] \in Nodes /\ ToldAt(Home[e])
  BY Nil DEF CInv, NodeOK
<1>2. ASSUME Open(c)', Serving(n)', view'[c].type \in Believing,
             c \notin ConnsOf(channel'[n])
      PROVE  Announced(c)'
  <2>1. Open(c) /\ view'[c] = view[c]
    BY <1>2 DEF Open, Turned
  <2>2. c \in ConnsOf(channel[n]) \/ Announced(c)
    BY <1>1, <1>2, <2>1 DEF ToldAt
  <2>3. CASE c \in ConnsOf(channel[n])
    BY <1>2, <2>1, <2>3
  <2>4. ASSUME NEW d \in Conns, handler[d].at = "unregistering", handler[d].to = c
        PROVE  Announced(c)'
    <3>1. Home[d] = n
      BY <1>1, <2>4, Nil DEF ToldAt
    <3>2. ~Turned(n, d)
      BY <1>2, <2>1, <2>4 DEF Turned
    <3> QED BY <2>4, <3>1, <3>2 DEF Announced
  <2> QED BY <2>2, <2>3, <2>4 DEF Announced
<1>3. handler'[c].at = "unregistering" /\ handler'[c].to # NoConn =>
        Home[handler'[c].to] = n
  BY <1>1 DEF ToldAt, Turned
<1> QED BY <1>2, <1>3

LEMMA ShownStep ==
  ASSUME CInv, NEW n \in Nodes,
         \/ channel'[n].state # "ACTIVE"
         \/ Locals(channel'[n]) = {}
         \/ /\ channel'[n] = channel[n]
            /\ \A c \in ConnsOf(channel[n]) :
                 Open(c)' => Open(c) /\ view'[c] \in {view[c], Note("verify_rejected")}
  PROVE  ShownAt(n)'
<1>1. CASE channel'[n].state # "ACTIVE"
  BY <1>1 DEF ShownAt
<1>2. CASE Locals(channel'[n]) = {}
  BY <1>2 DEF ShownAt
<1>3. CASE /\ channel'[n] = channel[n]
           /\ \A c \in ConnsOf(channel[n]) :
                Open(c)' => Open(c) /\ view'[c] \in {view[c], Note("verify_rejected")}
  BY <1>3 DEF CInv, NodeOK, ShownAt, ConnsOf
<1> QED BY <1>1, <1>2, <1>3

\* A Channel comes to wait with a timer or a deletion, or goes on waiting.
LEMMA TimedStep ==
  ASSUME CInv, NEW n \in Nodes,
         \A d \in deletes : d.node = n => d \in deletes',
         \A d \in deletes' \ deletes :
           d.node = n => d.next = "delete" /\ d.obj # 0,
         \A c \in Conns :
           handler[c].at = "leaving" /\ Home[c] = n => handler'[c] = handler[c],
         channel'[n].state = "WAIT_PEER" =>
           \/ [node |-> n, gen |-> channel'[n].waitGen] \in waitTimers'
           \/ \E d \in deletes' : d.node = n /\ d.obj = channel'[n].obj /\ d.next = "delete"
           \/ /\ channel[n].state = "WAIT_PEER"
              /\ channel'[n].waitGen = channel[n].waitGen
              /\ channel'[n].obj = channel[n].obj
              /\ \A t \in waitTimers : t.node = n => t \in waitTimers',
         \A d \in deletes :
           d.node = n /\ d.next = "unregister" => d.obj # channel'[n].obj
  PROVE  TimedAt(n)'
<1>1. TimedAt(n)
  BY DEF CInv, NodeOK
<1>2. channel'[n].state = "WAIT_PEER" =>
        \/ [node |-> n, gen |-> channel'[n].waitGen] \in waitTimers'
        \/ \E d \in deletes' :
             d.node = n /\ d.obj = channel'[n].obj /\ d.next = "delete"
        \/ \E c \in Conns : handler'[c].at = "leaving" /\ Home[c] = n
                            /\ handler'[c].obj = channel'[n].obj
  BY <1>1 DEF TimedAt
<1>3. \A d \in deletes' :
        d.node = n =>
          d.obj # 0 /\ (d.next = "unregister" => d.obj # channel'[n].obj)
  BY <1>1 DEF TimedAt
<1> QED BY <1>2, <1>3 DEF TimedAt

LEMMA EveryNode ==
  ASSUME CInv, NEW n \in Nodes, OnlyAt(n), NodeOK(n)', TypeOK', IsFiniteSet(deletes')
  PROVE  CInv'
BY Elsewhere DEF CInv

-----------------------------------------------------------------------------
(* Types *)

LEMMA NoteIs ==
  ASSUME NEW t
  PROVE  /\ Note(t).type = t /\ Note(t).peer = NoId
         /\ t \in {"out", "challenge", "verify_peer", "peer_left", "verify_rejected",
                   "dropped"} => Note(t) \in Notice
BY DEF Note, Notice

LEMMA TellIs ==
  ASSUME NEW f, Tell(f), view \in [Conns -> Notice],
         \A c \in DOMAIN f : f[c] \in Notice
  PROVE  /\ view' \in [Conns -> Notice]
         /\ \A c \in Conns :
              view'[c] = IF c \in DOMAIN f /\ Open(c) THEN f[c] ELSE view[c]
BY DEF Tell

LEMMA PublishIs ==
  ASSUME NEW n, NEW box \in [Nodes -> Seq(Message)], NEW msgs \in Seq(Message),
         Publish(n, box, msgs)
  PROVE  bus' \in [Nodes -> Seq(Message)]
BY DEF Publish

LEMMA RemoteIs ==
  ASSUME NEW t \in {"join_notify", "response", "relay", "peer_left"}, NEW i \in Ids
  PROVE  Remote(t, i) \in Message /\ Reply(i) \in Message
BY DEF Remote, Reply, Message

LEMMA SetChannelIs ==
  ASSUME NEW n \in Nodes, NEW k \in Channel, SetChannel(n, k),
         channel \in [Nodes -> Channel]
  PROVE  /\ channel' \in [Nodes -> Channel] /\ channel'[n] = k
         /\ \A m \in Nodes : m # n => channel'[m] = channel[m]
BY DEF SetChannel

-----------------------------------------------------------------------------
(* join                                                                     *)

\* What JoinFirst and JoinSecond have in common: c comes in as a member, who
\* was replaced is told so.
LEMMA JoiningStep ==
  ASSUME CInv, NEW c \in Conns, Joining(c), TypeOK', ChannelOK(Home[c], channel'[Home[c]]),
         \A m \in Nodes : m # Home[c] => channel'[m] = channel[m],
         channel'[Home[c]].state \in {"WAIT_PEER", "CHALLENGING"},
         channel'[Home[c]].obj = Opened(Home[c]).obj,
         ConnsOf(channel'[Home[c]]) =
           (ConnsOf(Opened(Home[c])) \ Replaced(Opened(Home[c]), IdOf[c])) \cup {c},
         \A d \in Conns :
           LET old == Replaced(Opened(Home[c]), IdOf[c]) IN
           /\ d \notin old \cup ConnsOf(channel'[Home[c]]) => view'[d] = view[d]
           /\ d \in old \ {c} =>
                view'[d] = IF Open(d) THEN Note("out") ELSE view[d],
         waitTimers \subseteq waitTimers',
         channel'[Home[c]].state = "WAIT_PEER" =>
           [node |-> Home[c], gen |-> channel'[Home[c]].waitGen] \in waitTimers'
  PROVE  CInv'
<1> DEFINE n == Home[c]
           old == Replaced(Opened(n), IdOf[c])
<1>1. /\ n \in Nodes /\ NodeOK(n) /\ TypeOK /\ ChannelOK(n, channel[n])
      /\ c \in Conns /\ Reading(c) /\ Serving(n)
  BY Nil DEF CInv, NodeOK, Joining
<1>2. /\ ConnsOf(Opened(n)) = ConnsOf(channel[n])
      /\ \A d \in deletes :
           d.node = n /\ d.next = "unregister" => d.obj # Opened(n).obj
  BY <1>1, OpenedOK
<1>3. \A d \in ConnsOf(channel[n]) : d \in Conns /\ Home[d] = n
  BY <1>1, ConnsAre
<1>4. /\ inChannel' = (inChannel \ old) \cup {c}
      /\ handler' = handler /\ deletes' = deletes
  BY DEF Joining
<1>5. old \subseteq ConnsOf(channel[n])
  BY <1>2 DEF Replaced
<1>6. \A d \in ConnsOf(channel'[n]) :
        d = c \/ (d \in ConnsOf(channel[n]) /\ d \notin old)
  BY <1>2
<1>7. \A d \in Conns : Home[d] # n => view'[d] = view[d]
  BY <1>3, <1>5, <1>6
<1>8. OnlyAt(n)
  BY <1>3, <1>4, <1>5, <1>7 DEF OnlyAt
<1>9. IndexedAt(n)'
  <2> SUFFICES ASSUME NEW d \in ConnsOf(channel'[n])
               PROVE  d \in inChannel' /\ ~Away(d)'
    BY DEF IndexedAt
  <2>1. Away(d)' <=> Away(d)
    BY <1>4 DEF Away
  <2>2. CASE d = c
    BY <1>1, <1>4, <2>1, <2>2 DEF Away, Reading
  <2>3. CASE d \in ConnsOf(channel[n]) /\ d \notin old
    BY <1>1, <1>4, <2>1, <2>3 DEF NodeOK, IndexedAt
  <2> QED BY <1>6, <2>2, <2>3
<1>10. Serving(n)' /\ \A d \in Conns : Open(d)' <=> Open(d)
  BY <1>1, <1>4 DEF Serving, Open
<1>11. ToldAt(n)'
  <2>1. \A d \in Conns : \/ view'[d] = view[d]
                         \/ view'[d].type \notin Believing
                         \/ d \in ConnsOf(channel'[n])
    <3> TAKE d \in Conns
    <3>1. CASE d \in old \ {c} /\ Open(d)
      BY <3>1, NoteIs DEF Believing
    <3>2. CASE d \in old \ {c} /\ ~Open(d)
      BY <3>2
    <3>3. CASE d = c
      <4>1. c \in ConnsOf(channel'[n])
        OBVIOUS
      <4> QED BY <1>10, <3>3, <4>1
    <3>4. CASE d \notin old \cup {c}
      BY <1>10, <3>4
    <3> QED BY <3>1, <3>2, <3>3, <3>4
  <2>2. \A d \in Conns :
          d \in ConnsOf(channel[n]) /\ d \notin ConnsOf(channel'[n]) /\ Open(d) =>
            view'[d].type \notin Believing
    BY <1>2, NoteIs DEF Believing
  <2>3. \A d \in Conns : handler'[d] = handler[d]
    BY <1>4
  <2> QED BY <1>1, <2>1, <2>2, <2>3, ToldStep
<1>12. ShownAt(n)'
  BY <1>1, ShownStep
<1>13. TimedAt(n)'
  BY <1>1, <1>2, <1>4, TimedStep
<1>14. NodeOK(n)'
  BY <1>9, <1>11, <1>12, <1>13 DEF NodeOK
<1>15. IsFiniteSet(deletes')
  BY <1>4 DEF CInv
<1> QED BY <1>1, <1>8, <1>14, <1>15, EveryNode

LEMMA JoiningType ==
  ASSUME TypeOK, NEW c \in Conns, Joining(c)
  PROVE  /\ inChannel' \subseteq Conns /\ handler' \in [Conns -> Handler]
         /\ challengeTimers' \in [Conns -> Nat] /\ deletes' \subseteq Delete
         /\ counts' \in [joins : [Conns -> Nat], late : Nat, faults : Nat,
                         cut : BOOLEAN]
<1>1. challengeTimers' \in [Conns -> Nat]
  BY DEF TypeOK, Joining
<1>2. counts' \in [joins : [Conns -> Nat], late : Nat, faults : Nat, cut : BOOLEAN]
  <2> DEFINE joins == [counts.joins EXCEPT ![c] = @ + 1]
  <2>1. joins \in [Conns -> Nat]
    BY DEF TypeOK
  <2>2. counts' = [counts EXCEPT !.joins = joins]
    BY DEF Joining, TypeOK
  <2> HIDE DEF joins
  <2> QED BY <2>1, <2>2 DEF TypeOK
<1> QED BY <1>1, <1>2 DEF TypeOK, Joining

LEMMA StepJoinFirst ==
  ASSUME CInv, NEW c \in Conns, JoinFirst(c)
  PROVE  CInv'
<1> DEFINE n == Home[c]
           o == Opened(n)
           k == AfterReplacement(o, IdOf[c])
           seated == [BackToWait(k) EXCEPT !.peers[0] = Local(IdOf[c], c)]
           old == Replaced(o, IdOf[c])
           notices == [d \in old \cup {c} |-> IF d = c THEN Note("challenge")
                                              ELSE Note("out")]
<1>1. n \in Nodes /\ TypeOK /\ IdOf[c] \in Ids /\ Joining(c)
  BY Nil DEF CInv, JoinFirst
<1>2. ChannelOK(n, o) /\ o.state # "NONE" /\ o.obj # 0
  BY <1>1, OpenedOK DEF ChannelOK
<1> HIDE DEF o
<1>3. /\ k \in Channel /\ k.obj = o.obj
      /\ \A s \in Slot : PeerOK(n, k.peers[s])
      /\ ConnsOf(k) = ConnsOf(o) \ old
  BY <1>1, <1>2, AfterReplacementIs
<1>4. /\ Members(k) = {} /\ SetChannel(n, seated) /\ RegisterChannelPeer(c)
      /\ waitTimers' = waitTimers \cup WaitTimerOf(n, seated)
      /\ Tell(notices)
  BY DEF JoinFirst, o
<1> HIDE DEF k
<1>5. /\ ChannelOK(n, seated) /\ seated.state = "WAIT_PEER" /\ seated.obj = k.obj
      /\ ConnsOf(seated) = {c} /\ Members(seated) # {}
  BY <1>2, <1>3, <1>4, FirstOK
<1> HIDE DEF seated
<1>6. seated \in Channel /\ seated.waitGen \in Nat
  BY <1>5 DEF ChannelOK, Channel
<1>7. ConnsOf(k) = {}
  <2>1. \A s \in Slot : k.peers[s].conn = NoConn
    BY <1>3, <1>4, Nil DEF Members, PeerOK
  <2> QED BY <2>1 DEF ConnsOf, Locals
<1>8. /\ channel' \in [Nodes -> Channel] /\ channel'[n] = seated
      /\ \A m \in Nodes : m # n => channel'[m] = channel[m]
  BY <1>1, <1>4, <1>6, SetChannelIs DEF TypeOK
<1>9. /\ [node |-> n, gen |-> seated.waitGen] \in waitTimers'
      /\ waitTimers \subseteq waitTimers' /\ waitTimers' \subseteq WaitTimer
  BY <1>1, <1>4, <1>5, <1>6, WaitTimerOfIs DEF TypeOK, WaitTimer
<1>10. /\ view' \in [Conns -> Notice]
       /\ \A d \in Conns : view'[d] = IF d \in old \cup {c} /\ Open(d)
                                      THEN notices[d] ELSE view[d]
  <2>1. \A d \in DOMAIN notices : notices[d] \in Notice
    BY NoteIs
  <2>2. view \in [Conns -> Notice] /\ DOMAIN notices = old \cup {c}
    BY <1>1 DEF TypeOK
  <2> QED BY <1>4, <2>1, <2>2, TellIs
<1>11. bus' \in [Nodes -> Seq(Message)] /\ registered' \in BOOLEAN
  <2>1. Remote("join_notify", IdOf[c]) \in Message
    BY <1>1, RemoteIs
  <2>2. <<Remote("join_notify", IdOf[c])>> \in Seq(Message)
    BY <2>1
  <2> QED BY <1>1, <1>4, <2>2, PublishIs DEF RegisterChannelPeer, TypeOK
<1>12. TypeOK'
  BY <1>1, <1>8, <1>9, <1>10, <1>11, JoiningType DEF TypeOK
<1>13. /\ ConnsOf(channel'[n]) = (ConnsOf(o) \ old) \cup {c}
       /\ channel'[n].obj = o.obj
  BY <1>3, <1>5, <1>7, <1>8
<1>14. \A d \in Conns :
         /\ d \notin old \cup ConnsOf(channel'[n]) => view'[d] = view[d]
         /\ d \in old \ {c} => view'[d] = IF Open(d) THEN Note("out") ELSE view[d]
  BY <1>10, <1>13
<1> QED BY <1>1, <1>5, <1>8, <1>9, <1>12, <1>13, <1>14, JoiningStep DEF o

LEMMA StepJoinSecond ==
  ASSUME CInv, NEW c \in Conns, JoinSecond(c)
  PROVE  CInv'
<1> DEFINE n == Home[c]
           o == Opened(n)
           k == AfterReplacement(o, IdOf[c])
           s == First(Slot \ Members(k))
           seated == [Unanswered(k) EXCEPT !.state = "CHALLENGING",
                                           !.peers[s] = Local(IdOf[c], c)]
           old == Replaced(o, IdOf[c])
           notices == [d \in old \cup ConnsOf(seated) |->
                         IF d \in ConnsOf(seated) THEN Note("challenge") ELSE Note("out")]
           msgs == IF Stubs(k) = {} THEN << >> ELSE <<Remote("join_notify", IdOf[c])>>
<1>1. n \in Nodes /\ TypeOK /\ IdOf[c] \in Ids /\ Joining(c)
  BY Nil DEF CInv, JoinSecond
<1>2. ChannelOK(n, o) /\ o.state # "NONE" /\ o.obj # 0
  BY <1>1, OpenedOK DEF ChannelOK
<1> HIDE DEF o
<1>3. /\ k \in Channel /\ k.obj = o.obj
      /\ \A r \in Slot : PeerOK(n, k.peers[r]) /\ k.peers[r].id # IdOf[c]
      /\ ConnsOf(k) = ConnsOf(o) \ old
  BY <1>1, <1>2, AfterReplacementIs
<1>4. /\ Cardinality(Members(k)) = 1 /\ SetChannel(n, seated)
      /\ Publish(n, bus, msgs) /\ Tell(notices)
      /\ UNCHANGED <<registered, waitTimers>>
  BY DEF JoinSecond, o
<1> HIDE DEF k
<1>5. /\ ChannelOK(n, seated) /\ seated.state = "CHALLENGING" /\ seated.obj = k.obj
      /\ ConnsOf(seated) = ConnsOf(k) \cup {c}
  BY <1>2, <1>3, <1>4, SecondOK
<1> HIDE DEF seated
<1>6. seated \in Channel
  BY <1>5 DEF ChannelOK
<1>7. /\ channel' \in [Nodes -> Channel] /\ channel'[n] = seated
      /\ \A m \in Nodes : m # n => channel'[m] = channel[m]
  BY <1>1, <1>4, <1>6, SetChannelIs DEF TypeOK
<1>8. /\ view' \in [Conns -> Notice]
      /\ \A d \in Conns : view'[d] = IF d \in old \cup ConnsOf(seated) /\ Open(d)
                                     THEN notices[d] ELSE view[d]
  <2>1. \A d \in DOMAIN notices : notices[d] \in Notice
    BY NoteIs
  <2>2. view \in [Conns -> Notice] /\ DOMAIN notices = old \cup ConnsOf(seated)
    BY <1>1 DEF TypeOK
  <2> QED BY <1>4, <2>1, <2>2, TellIs
<1>9. bus' \in [Nodes -> Seq(Message)]
  <2>1. Remote("join_notify", IdOf[c]) \in Message
    BY <1>1, RemoteIs
  <2>2. msgs \in Seq(Message)
    BY <2>1
  <2> QED BY <1>1, <1>4, <2>2, PublishIs DEF TypeOK
<1>10. TypeOK'
  BY <1>1, <1>4, <1>7, <1>8, <1>9, JoiningType DEF TypeOK
<1>11. /\ ConnsOf(channel'[n]) = (ConnsOf(o) \ old) \cup {c}
       /\ channel'[n].obj = o.obj
  BY <1>3, <1>5, <1>7
<1>12. \A d \in Conns :
         /\ d \notin old \cup ConnsOf(channel'[n]) => view'[d] = view[d]
         /\ d \in old \ {c} => view'[d] = IF Open(d) THEN Note("out") ELSE view[d]
  BY <1>5, <1>3, <1>7, <1>8
<1> QED BY <1>1, <1>4, <1>5, <1>7, <1>10, <1>11, <1>12, JoiningStep DEF o

\* A step that only touches what the invariant does not speak of.
LEMMA QuietStep ==
  ASSUME CInv, TypeOK',
         UNCHANGED <<channel, inChannel, handler, waitTimers, deletes, view>>
  PROVE  CInv'
<1> SUFFICES ASSUME NEW m \in Nodes
             PROVE  NodeOK(m)'
  BY DEF CInv
<1>1. NodeOK(m)
  BY DEF CInv
<1>2. ShownAt(m)'
  BY <1>1 DEF NodeOK, ShownAt, Open
<1>3. TimedAt(m)'
  BY <1>1 DEF NodeOK, TimedAt
<1>4. IndexedAt(m)'
  BY <1>1 DEF NodeOK, IndexedAt, Away, Serving
<1>5. ToldAt(m)'
  BY <1>1 DEF NodeOK, ToldAt, Open, Serving, Announced
<1> QED BY <1>1, <1>2, <1>3, <1>4, <1>5 DEF NodeOK

-----------------------------------------------------------------------------
(* response, message *)

\* An answer that is stored, of a member here or of a stub, as k has it.
LEMMA AnswerStep ==
  ASSUME CInv, NEW n \in Nodes, Serving(n), NEW k, ChannelOK(n, k), Answer(n, k),
         k.state = channel[n].state, k.waitGen = channel[n].waitGen,
         k.obj = channel[n].obj,
         \A s \in Slot : /\ k.peers[s].id = channel[n].peers[s].id
                         /\ k.peers[s].conn = channel[n].peers[s].conn,
         UNCHANGED <<inChannel, handler, waitTimers, deletes>>
  PROVE  /\ channel' \in [Nodes -> Channel] /\ view' \in [Conns -> Notice]
         /\ TypeOK' => CInv'
<1> DEFINE a == [Unanswered(k) EXCEPT !.state = "ACTIVE"]
           notices == [d \in ConnsOf(k) |->
                         [type |-> "verify_peer",
                          peer |-> k.peers[1 - First(SlotsOf(k, d))].id]]
<1>1. NodeOK(n) /\ TypeOK /\ ChannelOK(n, channel[n]) /\ k \in Channel
  BY DEF CInv, NodeOK, ChannelOK
<1>2. Locals(k) = Locals(channel[n]) /\ ConnsOf(k) = ConnsOf(channel[n])
  BY DEF Locals, ConnsOf
<1>3. \A d \in ConnsOf(k) : d \in Conns /\ Home[d] = n
  BY ConnsAre
<1>4. CASE ~Verified(k)
  <2>1. SetChannel(n, k) /\ view' = view
    BY <1>4 DEF Answer
  <2>2. /\ channel' \in [Nodes -> Channel] /\ channel'[n] = k
        /\ \A m \in Nodes : m # n => channel'[m] = channel[m]
    BY <1>1, <2>1, SetChannelIs DEF TypeOK
  <2>3. OnlyAt(n)
    BY <2>1, <2>2 DEF OnlyAt
  <2>4. ShownAt(n)'
    <3> SUFFICES ASSUME NEW s \in Locals(k), k.state = "ACTIVE",
                        Open(k.peers[s].conn)'
                 PROVE  view[k.peers[s].conn]
                          \in {[type |-> "verify_peer", peer |-> k.peers[1 - s].id],
                               Note("verify_rejected")}
      BY <2>1, <2>2 DEF ShownAt
    <3>1. s \in Slot /\ 1 - s \in Slot
      BY DEF Locals, Slot
    <3>2. Open(k.peers[s].conn)
      BY DEF Open
    <3> QED BY <1>1, <1>2, <3>1, <3>2 DEF NodeOK, ShownAt
  <2>5. TimedAt(n)'
    BY <1>1, <2>2, TimedStep DEF NodeOK, TimedAt
  <2>6. IndexedAt(n)'
    BY <1>1, <1>2, <2>2 DEF NodeOK, IndexedAt, Away
  <2>7. ToldAt(n)'
    BY <1>2, <2>1, <2>2, ToldStep
  <2>8. NodeOK(n)'
    BY <2>2, <2>4, <2>5, <2>6, <2>7 DEF NodeOK
  <2> QED BY <1>1, <2>1, <2>2, <2>3, <2>8, EveryNode DEF CInv, TypeOK
<1>5. CASE Verified(k)
  <2>1. SetChannel(n, a) /\ Tell(notices)
    BY <1>5 DEF Answer
  <2>2. /\ ChannelOK(n, a) /\ a.state = "ACTIVE" /\ a.obj = k.obj
        /\ \A r \in Slot : /\ a.peers[r].id = k.peers[r].id
                           /\ a.peers[r].conn = k.peers[r].conn
        /\ Locals(a) = Locals(k) /\ ConnsOf(a) = ConnsOf(k)
    BY <1>5, VerifiedOK
  <2> HIDE DEF a
  <2>3. /\ channel' \in [Nodes -> Channel] /\ channel'[n] = a
        /\ \A m \in Nodes : m # n => channel'[m] = channel[m]
    BY <1>1, <2>1, <2>2, SetChannelIs DEF TypeOK, ChannelOK
  <2>4. /\ view' \in [Conns -> Notice]
        /\ \A d \in Conns : view'[d] = IF d \in ConnsOf(k) /\ Open(d)
                                       THEN notices[d] ELSE view[d]
    <3>1. \A d \in ConnsOf(k) : notices[d] \in Notice
      <4> TAKE d \in ConnsOf(k)
      <4>1. First(SlotsOf(k, d)) \in Slot
        BY DEF First, Slot
      <4>2. 1 - First(SlotsOf(k, d)) \in Slot
        BY <4>1 DEF Slot
      <4>3. k.peers[1 - First(SlotsOf(k, d))].id \in Ids \cup {NoId}
        BY <4>2, Nil, SlotIs DEF Peer
      <4> QED BY <4>3 DEF Notice
    <3>2. DOMAIN notices = ConnsOf(k)
      OBVIOUS
    <3>3. view \in [Conns -> Notice]
      BY <1>1 DEF TypeOK
    <3> HIDE DEF notices
    <3> QED BY <2>1, <3>1, <3>2, <3>3, TellIs
  <2>5. OnlyAt(n)
    BY <1>3, <2>3, <2>4 DEF OnlyAt
  <2>6. ShownAt(n)'
    <3> SUFFICES ASSUME NEW s \in Locals(a), Open(a.peers[s].conn)
                 PROVE  view'[a.peers[s].conn]
                          = [type |-> "verify_peer", peer |-> a.peers[1 - s].id]
      BY <2>3 DEF ShownAt, Open
    <3> DEFINE c == k.peers[s].conn
    <3>1. s \in Slot /\ 1 - s \in Slot /\ s \in Locals(k)
      BY <2>2 DEF Locals, Slot
    <3>2. c = a.peers[s].conn /\ c \in ConnsOf(k) /\ c \in Conns
      BY <1>3, <2>2, <3>1 DEF ConnsOf
    <3>3. s \in SlotsOf(k, c)
      BY <3>1 DEF SlotsOf
    <3> HIDE DEF c
    <3>4. First(SlotsOf(k, c)) = s
      BY <3>2, <3>3, OneSlot
    <3>5. view'[c] = [type |-> "verify_peer", peer |-> k.peers[1 - s].id]
      BY <2>4, <3>2, <3>4
    <3> QED BY <2>2, <3>1, <3>2, <3>5
  <2>7. TimedAt(n)'
    BY <1>1, <2>2, <2>3, TimedStep DEF NodeOK, TimedAt
  <2>8. IndexedAt(n)'
    BY <1>1, <1>2, <2>2, <2>3 DEF NodeOK, IndexedAt, Away
  <2>9. Serving(n)'
    BY DEF Serving
  <2>10. ToldAt(n)'
    BY <1>2, <2>2, <2>3, <2>4, <2>9, ToldStep
  <2>11. NodeOK(n)'
    BY <2>2, <2>3, <2>6, <2>7, <2>8, <2>10 DEF NodeOK
  <2> QED BY <2>3, <2>4, <2>5, <2>11, EveryNode DEF CInv
<1> QED BY <1>4, <1>5

LEMMA CountsIs ==
  ASSUME TypeOK, NEW b \in BOOLEAN,
         \/ counts' = [counts EXCEPT !.late = @ + 1]
         \/ counts' = [counts EXCEPT !.faults = @ + 1]
         \/ counts' = [counts EXCEPT !.cut = b]
         \/ counts' = counts
  PROVE  counts' \in [joins : [Conns -> Nat], late : Nat, faults : Nat,
                      cut : BOOLEAN]
<1>1. CASE counts' = [counts EXCEPT !.late = @ + 1]
  <2> DEFINE more == counts.late + 1
  <2>1. more \in Nat /\ counts' = [counts EXCEPT !.late = more]
    BY <1>1 DEF TypeOK
  <2> HIDE DEF more
  <2> QED BY <2>1 DEF TypeOK
<1>2. CASE counts' = [counts EXCEPT !.faults = @ + 1]
  <2> DEFINE more == counts.faults + 1
  <2>1. more \in Nat /\ counts' = [counts EXCEPT !.faults = more]
    BY <1>2 DEF TypeOK
  <2> HIDE DEF more
  <2> QED BY <2>1 DEF TypeOK
<1>3. CASE counts' = [counts EXCEPT !.cut = b]
  BY <1>3 DEF TypeOK
<1>4. CASE counts' = counts
  BY <1>4 DEF TypeOK
<1> QED BY <1>1, <1>2, <1>3, <1>4

LEMMA StepHandleResponse ==
  ASSUME CInv, NEW c \in Conns, HandleResponse(c)
  PROVE  CInv'
<1> DEFINE n == Home[c]
           k == channel[n]
<1>1. n \in Nodes /\ TypeOK /\ ChannelOK(n, k) /\ Serving(n)
  BY Nil DEF CInv, NodeOK, HandleResponse
<1>2. PICK s \in SlotsOf(k, c) :
        /\ Answering(c, s)
        /\ Answer(n, [k EXCEPT !.peers[s].answered = TRUE])
        /\ Publish(n, bus, Forwarded(k, s))
  BY DEF HandleResponse
<1>3. s \in Slot /\ s \in Members(k)
  BY <1>1, OneSlot
<1> DEFINE a == [k EXCEPT !.peers[s].answered = TRUE]
<1>4. /\ ChannelOK(n, a) /\ a.state = k.state /\ a.waitGen = k.waitGen
      /\ a.obj = k.obj
      /\ \A r \in Slot : /\ a.peers[r].id = k.peers[r].id
                         /\ a.peers[r].conn = k.peers[r].conn
  BY <1>1, <1>3, NotedOK
<1> HIDE DEF a
<1>5. UNCHANGED <<registered, inChannel, handler, challengeTimers, waitTimers, deletes>>
  BY DEF HandleResponse
<1>6. Answer(n, a)
  BY <1>2 DEF a
<1>7. /\ channel' \in [Nodes -> Channel] /\ view' \in [Conns -> Notice]
      /\ TypeOK' => CInv'
  BY <1>1, <1>4, <1>5, <1>6, AnswerStep
<1>8. bus' \in [Nodes -> Seq(Message)]
  <2>1. k.peers[s].id \in Ids
    BY <1>1, <1>3, SlotIs
  <2>2. Remote("response", k.peers[s].id) \in Message
    BY <2>1, RemoteIs
  <2>3. Forwarded(k, s) \in Seq(Message)
    BY <2>2 DEF Forwarded
  <2> QED BY <1>1, <1>2, <2>3, PublishIs DEF TypeOK
<1>9. counts' \in [joins : [Conns -> Nat], late : Nat, faults : Nat, cut : BOOLEAN]
  BY <1>1, <1>2, CountsIs DEF Answering
<1>10. TypeOK'
  BY <1>1, <1>5, <1>7, <1>8, <1>9 DEF TypeOK
<1> QED BY <1>7, <1>10

LEMMA StepHandleRelay ==
  ASSUME CInv, NEW c \in Conns, HandleRelay(c)
  PROVE  CInv'
<1> DEFINE n == Home[c]
           k == channel[n]
<1>1. n \in Nodes /\ TypeOK /\ ChannelOK(n, k)
  BY Nil DEF CInv, NodeOK
<1>2. PICK s \in SlotsOf(k, c) :
        Publish(n, bus, IF 1 - s \in Stubs(k)
                        THEN <<Remote("relay", k.peers[s].id)>> ELSE << >>)
  BY DEF HandleRelay
<1>3. bus' \in [Nodes -> Seq(Message)]
  <2>1. k.peers[s].id \in Ids
    BY <1>1, OneSlot, SlotIs
  <2>2. Remote("relay", k.peers[s].id) \in Message
    BY <2>1, RemoteIs
  <2>3. (IF 1 - s \in Stubs(k) THEN <<Remote("relay", k.peers[s].id)>> ELSE << >>)
          \in Seq(Message)
    BY <2>2
  <2> QED BY <1>1, <1>2, <2>3, PublishIs DEF TypeOK
<1> QED BY <1>1, <1>3, QuietStep DEF HandleRelay, TypeOK

-----------------------------------------------------------------------------
(* leave, disconnection *)

\* Who is left when c is taken out.
LEMMA CutIs ==
  ASSUME NEW n \in Nodes, NEW k, ChannelOK(n, k), NEW c \in Conns, NEW s \in SlotsOf(k, c)
  PROVE  LET w == Without(k, s) IN
         /\ ChannelOK(n, w) /\ w.obj = k.obj /\ k.state # "NONE" /\ k.obj # 0
         /\ Home[c] = n /\ c \in ConnsOf(k) /\ ConnsOf(w) = ConnsOf(k) \ {c}
         /\ w.state # "ACTIVE" \/ Locals(w) = {}
         /\ Members(w) = {} => ConnsOf(w) = {}
         /\ \/ Members(w) = {} /\ w.state = k.state /\ w.waitGen = k.waitGen
            \/ Members(w) # {} /\ w.state = "WAIT_PEER" /\ w.waitGen = k.waitGen + 1
<1> DEFINE w == Without(k, s)
<1>1. /\ s \in Slot /\ s \in Members(k) /\ s \in Locals(k) /\ c \in ConnsOf(k)
      /\ k.peers[s].conn = c
  BY OneSlot DEF SlotsOf
<1>2. /\ ChannelOK(n, w) /\ w.obj = k.obj /\ k.state # "NONE"
      /\ Locals(w) = Locals(k) \ {s} /\ Members(w) = Members(k) \ {s}
      /\ \A r \in Locals(w) : w.peers[r].conn = k.peers[r].conn
      /\ \/ Members(w) = {} /\ w.state = k.state /\ w.waitGen = k.waitGen
         \/ Members(w) # {} /\ w.state = "WAIT_PEER" /\ w.waitGen = k.waitGen + 1
  BY <1>1, WithoutOK
<1> HIDE DEF w
<1>3. ConnsOf(w) = ConnsOf(k) \ {c}
  <2>1. ASSUME NEW r \in Locals(k), r # s PROVE k.peers[r].conn # c
    <3>1. r \in Slot
      BY DEF Locals
    <3>2. r \notin SlotsOf(k, c)
      BY <2>1, OneSlot
    <3> QED BY <3>1, <3>2 DEF SlotsOf
  <2> QED BY <1>1, <1>2, <2>1 DEF ConnsOf
<1>4. Members(w) = {} => Locals(w) = {} /\ ConnsOf(w) = {}
  BY <1>2, SlotIs DEF Locals, ConnsOf
<1>5. Home[c] = n
  BY <1>1, ConnsAre
<1>6. k.obj # 0 /\ (w.state # "ACTIVE" \/ Locals(w) = {})
  BY <1>2, <1>4 DEF ChannelOK
<1> QED BY <1>1, <1>2, <1>3, <1>4, <1>5, <1>6 DEF w

LEMMA RemovalIs ==
  ASSUME CInv, NEW n \in Nodes, NEW c \in Conns, NEW s \in SlotsOf(channel[n], c),
         Removal(n, channel[n], s)
  PROVE  LET k == channel[n]
             w == Without(k, s)
         IN
         /\ ChannelOK(n, w) /\ w.obj = k.obj /\ k.state # "NONE" /\ Home[c] = n
         /\ ConnsOf(w) = ConnsOf(k) \ {c} /\ c \in ConnsOf(k)
         /\ w.state # "ACTIVE" \/ Locals(w) = {}
         /\ Members(w) = {} => ConnsOf(w) = {}
         /\ \/ w.state = k.state /\ w.waitGen = k.waitGen
            \/ [node |-> n, gen |-> w.waitGen] \in waitTimers'
         /\ waitTimers \subseteq waitTimers' /\ waitTimers' \subseteq WaitTimer
         /\ bus' \in [Nodes -> Seq(Message)] /\ view' \in [Conns -> Notice]
         /\ \A d \in Conns :
              view'[d] = IF d \in ConnsOf(k) /\ Open(d)
                         THEN Note(IF d = c THEN "out" ELSE "peer_left") ELSE view[d]
<1> DEFINE k == channel[n]
           w == Without(k, s)
           notices == [d \in ConnsOf(k) |->
                         Note(IF d = k.peers[s].conn THEN "out" ELSE "peer_left")]
           msgs == IF Stubs(w) = {} THEN << >>
                   ELSE <<Remote("peer_left", k.peers[s].id)>>
<1>1. ChannelOK(n, k) /\ TypeOK
  BY DEF CInv, NodeOK
<1>2. k.peers[s].conn = c /\ k.peers[s].id \in Ids
  <2>1. s \in Slot /\ s \in Members(k) /\ k.peers[s].conn = c
    BY <1>1, OneSlot DEF SlotsOf
  <2> QED BY <1>1, <2>1, SlotIs
<1>3. /\ ChannelOK(n, w) /\ w.obj = k.obj /\ k.state # "NONE" /\ Home[c] = n
      /\ ConnsOf(w) = ConnsOf(k) \ {c} /\ c \in ConnsOf(k)
      /\ w.state # "ACTIVE" \/ Locals(w) = {}
      /\ Members(w) = {} => ConnsOf(w) = {}
  BY <1>1, CutIs
<1>4. \/ Members(w) = {} /\ w.state = k.state /\ w.waitGen = k.waitGen
      \/ Members(w) # {} /\ w.state = "WAIT_PEER" /\ w.waitGen = k.waitGen + 1
  BY <1>1, CutIs
<1>5. /\ waitTimers' = waitTimers \cup WaitTimerOf(n, w)
      /\ Publish(n, bus, msgs) /\ Tell(notices)
  BY DEF Removal
<1> HIDE DEF w
<1>8. /\ w.waitGen \in Nat /\ waitTimers \subseteq WaitTimer
      /\ bus \in [Nodes -> Seq(Message)] /\ view \in [Conns -> Notice]
  BY <1>1, <1>3 DEF ChannelOK, Channel, TypeOK
<1>9. /\ waitTimers' \subseteq WaitTimer
      /\ \/ w.state = k.state /\ w.waitGen = k.waitGen
         \/ [node |-> n, gen |-> w.waitGen] \in waitTimers'
  BY <1>4, <1>5, <1>8, WaitTimerOfIs DEF WaitTimer
<1>10. bus' \in [Nodes -> Seq(Message)]
  <2>2. Remote("peer_left", k.peers[s].id) \in Message
    BY <1>2, RemoteIs
  <2>3. msgs \in Seq(Message)
    BY <2>2
  <2> QED BY <1>5, <1>8, <2>3, PublishIs
<1>11. /\ view' \in [Conns -> Notice]
       /\ \A d \in Conns : view'[d] = IF d \in ConnsOf(k) /\ Open(d)
                                      THEN notices[d] ELSE view[d]
  <2>1. \A d \in ConnsOf(k) : notices[d] \in Notice
    BY NoteIs
  <2>2. DOMAIN notices = ConnsOf(k)
    OBVIOUS
  <2> HIDE DEF notices
  <2> QED BY <1>5, <1>8, <2>1, <2>2, TellIs
<1>12. \A d \in Conns :
         view'[d] = IF d \in ConnsOf(k) /\ Open(d)
                    THEN Note(IF d = c THEN "out" ELSE "peer_left") ELSE view[d]
  BY <1>2, <1>11
<1>13. waitTimers \subseteq waitTimers'
  BY <1>5
<1> QED BY <1>3, <1>9, <1>10, <1>11, <1>12, <1>13 DEF w

\* A member is taken out; the Channel stays, or goes if it was the last one.
LEMMA RemovalStep ==
  ASSUME CInv, NEW c \in Conns, Serving(Home[c]),
         NEW s \in SlotsOf(channel[Home[c]], c), Removal(Home[c], channel[Home[c]], s),
         LET w == Without(channel[Home[c]], s) IN
           \/ channel'[Home[c]] = w
           \/ Members(w) = {} /\ channel'[Home[c]] = NoChannel,
         \A m \in Nodes : m # Home[c] => channel'[m] = channel[m],
         TypeOK', deletes' = deletes,
         \A d \in Conns : d # c => /\ handler'[d] = handler[d]
                                   /\ d \in inChannel' <=> d \in inChannel,
         handler'[c] = handler[c] \/ Turned(Home[c], c),
         handler[c].at # "leaving", handler'[c].at # "stuck"
  PROVE  CInv'
<1> DEFINE n == Home[c]
           k == channel[n]
           w == Without(k, s)
<1>1. n \in Nodes /\ TypeOK /\ NodeOK(n) /\ ChannelOK(n, k)
  BY Nil DEF CInv, NodeOK
<1>2. /\ ChannelOK(n, w) /\ w.obj = k.obj /\ k.state # "NONE"
      /\ ConnsOf(w) = ConnsOf(k) \ {c} /\ c \in ConnsOf(k)
      /\ w.state # "ACTIVE" \/ Locals(w) = {}
      /\ Members(w) = {} => ConnsOf(w) = {}
      /\ \/ w.state = k.state /\ w.waitGen = k.waitGen
         \/ [node |-> n, gen |-> w.waitGen] \in waitTimers'
      /\ waitTimers \subseteq waitTimers'
      /\ \A d \in Conns :
           view'[d] = IF d \in ConnsOf(k) /\ Open(d)
                      THEN Note(IF d = c THEN "out" ELSE "peer_left") ELSE view[d]
  <2>1. n \in Nodes /\ s \in SlotsOf(channel[n], c) /\ Removal(n, channel[n], s)
    BY <1>1
  <2> HIDE DEF n
  <2>2. ChannelOK(n, w)
    BY <2>1, RemovalIs
  <2>9. w.obj = k.obj
    <3>1. s \in Slot /\ s \in Members(k)
      BY <1>1, <2>1, OneSlot
    <3> QED BY <1>1, <3>1, WithoutOK
  <2>7. k.state # "NONE"
    BY <2>1, RemovalIs
  <2>8. c \in ConnsOf(k)
    BY <2>1, RemovalIs
  <2>6. ConnsOf(w) = ConnsOf(k) \ {c}
    BY <2>1, RemovalIs, ZenonT(30)
  <2>3. /\ w.state # "ACTIVE" \/ Locals(w) = {}
        /\ Members(w) = {} => ConnsOf(w) = {}
    BY <2>1, RemovalIs
  <2>4. /\ \/ w.state = k.state /\ w.waitGen = k.waitGen
           \/ [node |-> n, gen |-> w.waitGen] \in waitTimers'
        /\ waitTimers \subseteq waitTimers'
    BY <2>1, RemovalIs
  <2>5. \A d \in Conns :
          view'[d] = IF d \in ConnsOf(k) /\ Open(d)
                     THEN Note(IF d = c THEN "out" ELSE "peer_left") ELSE view[d]
    BY <2>1, RemovalIs
  <2> QED BY <2>2, <2>3, <2>4, <2>5, <2>6, <2>7, <2>8, <2>9
<1>3. channel'[n] = w \/ (Members(w) = {} /\ channel'[n] = NoChannel)
  OBVIOUS
<1> HIDE DEF w
<1>4. /\ ChannelOK(n, channel'[n]) /\ ConnsOf(channel'[n]) = ConnsOf(k) \ {c}
      /\ channel'[n].state # "ACTIVE" \/ Locals(channel'[n]) = {}
      /\ channel'[n].obj \in {k.obj, 0}
      /\ channel'[n].state = "WAIT_PEER" =>
           \/ channel'[n].state = k.state /\ channel'[n].waitGen = k.waitGen
              /\ channel'[n].obj = k.obj
           \/ [node |-> n, gen |-> channel'[n].waitGen] \in waitTimers'
  BY <1>2, <1>3, EmptyOK, Nil
<1>5. \A d \in ConnsOf(k) : d \in Conns /\ Home[d] = n
  BY <1>1, ConnsAre
<1>6. OnlyAt(n)
  BY <1>2, <1>5 DEF OnlyAt
<1>7. Serving(n)'
  BY DEF Serving
<1>8. IndexedAt(n)'
  BY <1>1, <1>4, <1>5 DEF NodeOK, IndexedAt, Away
<1>9. ShownAt(n)'
  BY <1>1, <1>4, ShownStep
<1>10. TimedAt(n)'
  <2>1. \A d \in deletes : d.node = n /\ d.next = "unregister" => d.obj # channel'[n].obj
    BY <1>1, <1>4 DEF NodeOK, TimedAt
  <2> QED BY <1>1, <1>2, <1>4, <2>1, TimedStep
<1>11. ToldAt(n)'
  <2>1. \A d \in Conns : \/ view'[d] = view[d]
                         \/ view'[d].type \notin Believing
                         \/ d \in ConnsOf(channel'[n])
    BY <1>2, <1>4, NoteIs DEF Believing
  <2>2. \A d \in Conns :
          d \in ConnsOf(k) /\ d \notin ConnsOf(channel'[n]) /\ Open(d) =>
            view'[d].type \notin Believing
    BY <1>2, <1>4, NoteIs DEF Believing
  <2>3. \A d \in Conns : handler'[d] = handler[d] \/ Turned(n, d)
    OBVIOUS
  <2> QED BY <1>1, <1>7, <2>1, <2>2, <2>3, ToldStep
<1>12. NodeOK(n)'
  BY <1>4, <1>8, <1>9, <1>10, <1>11 DEF NodeOK
<1> QED BY <1>1, <1>6, <1>12, EveryNode DEF CInv

LEMMA HandlerIs ==
  /\ \A l \in {"reading", "closed", "stuck"} : At(l) \in Handler /\ At(l).at = l
  /\ \A o \in Nat : [at |-> "leaving", obj |-> o] \in Handler
  /\ \A b \in BOOLEAN : [at |-> "closing", indexed |-> b] \in Handler
  /\ \A a \in {"leave", "reject", "close"} : \A t \in Conns \cup {NoConn} :
       [at |-> "unregistering", as |-> a, to |-> t] \in Handler
BY DEF Handler, At

LEMMA GotoIs ==
  ASSUME TypeOK, NEW c \in Conns, NEW h \in Handler, Goto(c, h)
  PROVE  /\ handler' \in [Conns -> Handler] /\ handler'[c] = h
         /\ \A d \in Conns : d # c => handler'[d] = handler[d]
BY DEF Goto, TypeOK

\* A connection moves on and the Channel stays as it is.
LEMMA OwnStep ==
  ASSUME CInv, NEW c \in Conns, TypeOK', UNCHANGED <<channel, waitTimers, deletes>>,
         \A d \in Conns : d # c => handler'[d] = handler[d],
         \A d \in Conns : Home[d] # Home[c] => (d \in inChannel' <=> d \in inChannel),
         \A d \in Conns : \/ view'[d] = view[d]
                          \/ Home[d] = Home[c] /\ view'[d].type \notin Believing,
         handler'[c] = handler[c] \/ Turned(Home[c], c),
         handler[c].at # "leaving",
         Serving(Home[c])' => Serving(Home[c]),
         \A d \in ConnsOf(channel[Home[c]]) :
           /\ Open(d)' => /\ Open(d)
                          /\ view'[d] \in {view[d], Note("verify_rejected")}
           /\ Serving(Home[c])' => d \in inChannel' /\ ~Away(d)'
  PROVE  CInv'
<1> DEFINE n == Home[c]
<1>1. n \in Nodes /\ NodeOK(n) /\ ChannelOK(n, channel[n]) /\ channel'[n] = channel[n]
  BY Nil DEF CInv, NodeOK
<1>2. OnlyAt(n)
  BY DEF OnlyAt
<1>3. IndexedAt(n)'
  BY <1>1 DEF IndexedAt
<1>4. ShownAt(n)'
  BY <1>1, ShownStep
<1>5. TimedAt(n)'
  <2>1. \A d \in deletes : d.node = n /\ d.next = "unregister" => d.obj # channel'[n].obj
    BY <1>1 DEF NodeOK, TimedAt
  <2>2. \A d \in Conns :
          handler[d].at = "leaving" /\ Home[d] = n => handler'[d] = handler[d]
    OBVIOUS
  <2>3. /\ \A d \in deletes : d.node = n => d \in deletes'
        /\ \A d \in deletes' \ deletes :
             d.node = n => d.next = "delete" /\ d.obj # 0
        /\ \A t \in waitTimers : t.node = n => t \in waitTimers'
    OBVIOUS
  <2> HIDE DEF n
  <2> QED BY <1>1, <2>1, <2>2, <2>3, TimedStep
<1>6. ToldAt(n)'
  <2>1. \A d \in Conns : handler'[d] = handler[d] \/ Turned(n, d)
    OBVIOUS
  <2>2. \A d \in Conns : view'[d] = view[d] \/ view'[d].type \notin Believing
    OBVIOUS
  <2> QED BY <1>1, <2>1, <2>2, ToldStep
<1>7. NodeOK(n)'
  BY <1>1, <1>3, <1>4, <1>5, <1>6 DEF NodeOK
<1> QED BY <1>1, <1>2, <1>7, EveryNode DEF CInv

LEMMA StepHandleLeave ==
  ASSUME CInv, NEW c \in Conns, HandleLeave(c)
  PROVE  CInv'
<1> DEFINE n == Home[c]
           k == channel[n]
<1>1. /\ n \in Nodes /\ TypeOK /\ ChannelOK(n, k) /\ NodeOK(n)
      /\ Reading(c) /\ Serving(n)
      /\ UNCHANGED <<registered, challengeTimers, deletes, counts>>
  BY Nil DEF CInv, NodeOK, HandleLeave
<1>2. Open(c) /\ handler[c].at = "reading"
  BY <1>1 DEF Open, Reading
<1>3. CASE LeaveStranger(c)
  <2>1. /\ SlotsOf(k, c) = {} /\ inChannel' = inChannel \ {c}
        /\ Tell([d \in {c} |-> Note("out")])
        /\ UNCHANGED <<channel, bus, handler, waitTimers>>
    BY <1>3 DEF LeaveStranger, TellOut
  <2>2. c \notin ConnsOf(k)
    BY <1>1, <2>1, OneSlot
  <2>3. /\ view' \in [Conns -> Notice]
        /\ \A d \in Conns : view'[d] = IF d = c THEN Note("out") ELSE view[d]
    <3> DEFINE f == [d \in {c} |-> Note("out")]
    <3>1. DOMAIN f = {c} /\ \A d \in {c} : f[d] = Note("out") /\ f[d] \in Notice
      BY NoteIs
    <3> HIDE DEF f
    <3>2. Tell(f)
      BY <2>1 DEF f
    <3> QED BY <1>1, <1>2, <3>1, <3>2, TellIs DEF TypeOK
  <2>4. TypeOK'
    BY <1>1, <2>1, <2>3 DEF TypeOK
  <2>5. Note("out").type \notin Believing
    BY NoteIs DEF Believing
  <2>6. \A d \in ConnsOf(k) : d \in Conns /\ d # c /\ d \in inChannel /\ ~Away(d)
    BY <1>1, <2>2, ConnsAre DEF NodeOK, IndexedAt
  <2>7. (Serving(n)' <=> Serving(n)) /\ \A d : Open(d)' <=> Open(d)
    BY <2>1 DEF Serving, Open
  <2>8. \A d \in ConnsOf(k) :
           /\ Open(d)' => /\ Open(d)
                          /\ view'[d] \in {view[d], Note("verify_rejected")}
           /\ d \in inChannel' /\ ~Away(d)'
    BY <2>1, <2>3, <2>6, <2>7 DEF Away
  <2> QED BY <1>1, <1>2, <2>1, <2>3, <2>4, <2>5, <2>7, <2>8, OwnStep
<1>4. CASE LeaveMember(c)
  <2>1. PICK s \in SlotsOf(k, c) :
          /\ Removal(n, k, s) /\ SetChannel(n, Without(k, s))
          /\ IF Members(Without(k, s)) = {}
             THEN Goto(c, [at |-> "leaving", obj |-> k.obj]) /\ UNCHANGED inChannel
             ELSE inChannel' = inChannel \ {c} /\ UNCHANGED handler
    BY <1>4 DEF LeaveMember
  <2> DEFINE w == Without(k, s)
  <2>2. ChannelOK(n, w) /\ c \in ConnsOf(k)
    BY <1>1, <2>1, RemovalIs
  <2>3. /\ waitTimers' \subseteq WaitTimer
        /\ bus' \in [Nodes -> Seq(Message)] /\ view' \in [Conns -> Notice]
    BY <1>1, <2>1, RemovalIs
  <2>4. view'[c] = Note("out")
    BY <1>1, <1>2, <2>1, <2>2, RemovalIs
  <2>5. /\ channel' \in [Nodes -> Channel] /\ channel'[n] = w
        /\ \A m \in Nodes : m # n => channel'[m] = channel[m]
    BY <1>1, <2>1, <2>2, SetChannelIs DEF ChannelOK, TypeOK
  <2>6. CASE Members(w) = {}
    <3> DEFINE h == [at |-> "leaving", obj |-> k.obj]
    <3>1. h \in Handler /\ h.at = "leaving"
      BY <1>1, HandlerIs DEF ChannelOK, Channel
    <3>2. Goto(c, h) /\ UNCHANGED inChannel
      BY <2>1, <2>6
    <3> HIDE DEF h
    <3>3. /\ handler' \in [Conns -> Handler] /\ handler'[c] = h
          /\ \A d \in Conns : d # c => handler'[d] = handler[d]
      BY <1>1, <3>1, <3>2, GotoIs
    <3>4. TypeOK'
      BY <1>1, <2>3, <2>5, <3>2, <3>3 DEF TypeOK
    <3>5. Turned(n, c)
      BY <1>2, <2>4, <3>1, <3>3, NoteIs DEF Turned, Believing
    <3> QED BY <1>1, <1>2, <2>1, <2>5, <3>1, <3>2, <3>3, <3>4, <3>5, RemovalStep
  <2>7. CASE Members(w) # {}
    <3>1. UNCHANGED handler /\ inChannel' = inChannel \ {c}
      BY <2>1, <2>7
    <3>2. TypeOK'
      BY <1>1, <2>3, <2>5, <3>1 DEF TypeOK
    <3> QED BY <1>1, <1>2, <2>1, <2>5, <3>1, <3>2, RemovalStep
  <2> QED BY <2>6, <2>7
<1> QED BY <1>3, <1>4 DEF HandleLeave

LEMMA StepCloseConn ==
  ASSUME CInv, NEW c \in Conns, CloseConn(c)
  PROVE  CInv'
<1> DEFINE n == Home[c]
           h == [at |-> "closing", indexed |-> c \in inChannel]
<1>1. /\ n \in Nodes /\ TypeOK /\ NodeOK(n) /\ ChannelOK(n, channel[n])
      /\ handler[c].at = "reading" /\ Goto(c, h)
      /\ view' = [view EXCEPT ![c] = Note("out")]
      /\ UNCHANGED <<channel, registered, bus, inChannel, challengeTimers,
                     waitTimers, deletes, counts>>
  BY Nil DEF CInv, NodeOK, CloseConn, Reading
<1>2. h \in Handler /\ h.at = "closing" /\ (c \in inChannel => h.indexed)
  <2> DEFINE b == c \in inChannel
  <2>1. b \in BOOLEAN /\ h = [at |-> "closing", indexed |-> b]
    OBVIOUS
  <2>2. c \in inChannel => b
    OBVIOUS
  <2> HIDE DEF b, h
  <2> QED BY <2>1, <2>2, HandlerIs
<1> HIDE DEF h
<1>3. /\ handler' \in [Conns -> Handler] /\ handler'[c] = h
      /\ \A d \in Conns : d # c => handler'[d] = handler[d]
  BY <1>1, <1>2, GotoIs
<1>4. /\ view' \in [Conns -> Notice] /\ view'[c] = Note("out")
      /\ \A d \in Conns : d # c => view'[d] = view[d]
      /\ Note("out").type \notin Believing
  BY <1>1, NoteIs DEF TypeOK, Believing
<1>5. TypeOK'
  BY <1>1, <1>3, <1>4 DEF TypeOK
<1>6. ~Open(c)' /\ Open(c)
  BY <1>1, <1>2, <1>3 DEF Open
<1>7. Serving(n)' => Serving(n)
  BY <1>1, <1>3 DEF Serving
<1>8. Turned(n, c)
  BY <1>1, <1>2, <1>3, <1>6 DEF Turned
<1>9. ASSUME NEW d \in ConnsOf(channel[n])
      PROVE  /\ Open(d)' => /\ Open(d)
                            /\ view'[d] \in {view[d], Note("verify_rejected")}
             /\ Serving(n)' => d \in inChannel' /\ ~Away(d)'
  <2>1. d \in Conns
    BY <1>1, ConnsAre
  <2>2. Serving(n)' => d \in inChannel /\ ~Away(d)
    BY <1>1, <1>7 DEF NodeOK, IndexedAt
  <2>3. CASE d = c
    BY <1>1, <1>2, <1>3, <1>6, <2>2, <2>3 DEF Away
  <2>4. CASE d # c
    BY <1>1, <1>3, <1>4, <2>1, <2>2, <2>4 DEF Away, Open
  <2> QED BY <2>3, <2>4
<1> QED BY <1>1, <1>3, <1>4, <1>5, <1>7, <1>8, <1>9, OwnStep

LEMMA StepUnregister ==
  ASSUME CInv, NEW c \in Conns, Unregister(c)
  PROVE  CInv'
<1> DEFINE n == Home[c]
           to == handler[c].to
           h == At(IF handler[c].as = "close" THEN "closed" ELSE "reading")
           f == [d \in {to} \ {NoConn} |-> Note("verify_rejected")]
<1>1. /\ n \in Nodes /\ TypeOK /\ NodeOK(n) /\ ChannelOK(n, channel[n])
      /\ handler[c].at = "unregistering" /\ Goto(c, h) /\ Tell(f)
      /\ registered' = FALSE
      /\ inChannel' = IF handler[c].as = "leave" THEN inChannel \ {c} ELSE inChannel
      /\ UNCHANGED <<channel, bus, challengeTimers, waitTimers, deletes>>
  BY Nil DEF CInv, NodeOK, Unregister, UnregisterChannelPeer
<1>2. counts' \in [joins : [Conns -> Nat], late : Nat, faults : Nat, cut : BOOLEAN]
  <2> DEFINE b == counts.cut \/ \E m \in Nodes : Locals(channel[m]) # {}
  <2>1. counts' = [counts EXCEPT !.cut = b]
    BY DEF Unregister, UnregisterChannelPeer
  <2>2. b \in BOOLEAN
    BY <1>1 DEF TypeOK
  <2> HIDE DEF b
  <2> QED BY <1>1, <2>1, <2>2, CountsIs
<1>3. /\ h \in Handler /\ h.at \in {"closed", "reading"}
      /\ handler[c].as = "close" => h.at = "closed"
  BY HandlerIs
<1> HIDE DEF h
<1>4. /\ handler' \in [Conns -> Handler] /\ handler'[c] = h
      /\ \A d \in Conns : d # c => handler'[d] = handler[d]
  BY <1>1, <1>3, GotoIs
<1>5. /\ view' \in [Conns -> Notice] /\ Note("verify_rejected").type \notin Believing
      /\ \A d \in Conns : view'[d] = IF d = to /\ Open(d) THEN Note("verify_rejected")
                                     ELSE view[d]
  <2>1. /\ DOMAIN f = {to} \ {NoConn}
        /\ \A d \in DOMAIN f : f[d] = Note("verify_rejected") /\ f[d] \in Notice
    BY NoteIs
  <2> HIDE DEF f, to
  <2>2. /\ view' \in [Conns -> Notice]
        /\ \A d \in Conns : view'[d] = IF d \in DOMAIN f /\ Open(d) THEN f[d] ELSE view[d]
    BY <1>1, <2>1, TellIs DEF TypeOK
  <2>3. Note("verify_rejected").type \notin Believing
    BY NoteIs DEF Believing
  <2> QED BY <2>1, <2>2, <2>3, Nil
<1>6. TypeOK'
  BY <1>1, <1>2, <1>4, <1>5 DEF TypeOK
<1>7. Open(c)' => Open(c)
  BY <1>1, <1>3, <1>4 DEF Open
<1>8. Serving(n)' => Serving(n)
  BY <1>1, <1>4 DEF Serving
<1>9. Turned(n, c)
  BY <1>3, <1>4, <1>5, <1>7 DEF Turned
<1>10. ASSUME NEW d \in ConnsOf(channel[n])
       PROVE  /\ Open(d)' => /\ Open(d)
                             /\ view'[d] \in {view[d], Note("verify_rejected")}
              /\ Serving(n)' => d \in inChannel' /\ ~Away(d)'
  <2>1. d \in Conns
    BY <1>1, ConnsAre
  <2>2. Serving(n)' => d \in inChannel /\ ~Away(d) /\ d # c
    BY <1>1, <1>8 DEF NodeOK, IndexedAt, Away
  <2>3. d # c => (Open(d)' <=> Open(d)) /\ (Away(d)' <=> Away(d))
    BY <1>4, <2>1 DEF Open, Away
  <2> QED BY <1>1, <1>5, <1>7, <2>1, <2>2, <2>3
<1>11. to \in Conns => Home[to] = n
  BY <1>1, Nil DEF NodeOK, ToldAt
<1>12. \A d \in Conns : \/ view'[d] = view[d]
                        \/ Home[d] = n /\ view'[d].type \notin Believing
  BY <1>5, <1>11
<1>13. \A d \in Conns : Home[d] # n => (d \in inChannel' <=> d \in inChannel)
  BY <1>1
<1> QED BY <1>1, <1>4, <1>6, <1>8, <1>9, <1>10, <1>12, <1>13, OwnStep

\* A Channel that is deleted takes its members with it, who are told nothing.
LEMMA DeletedIs ==
  ASSUME CInv, NEW n \in Nodes, NEW o, DeleteIfSame(n, o)
  PROVE  /\ channel' \in [Nodes -> Channel] /\ ChannelOK(n, channel'[n])
         /\ channel'[n] = IF channel[n].obj = o THEN NoChannel ELSE channel[n]
         /\ \A m \in Nodes : m # n => channel'[m] = channel[m]
         /\ view' \in [Conns -> Notice]
         /\ \A d \in Conns :
              \/ view'[d] = view[d]
              \/ /\ channel'[n] = NoChannel /\ Home[d] = n
                 /\ d \in ConnsOf(channel[n]) /\ view'[d] = Note("dropped")
         /\ \A d \in ConnsOf(channel[n]) :
              Open(d) /\ d \notin ConnsOf(channel'[n]) => view'[d] = Note("dropped")
<1> DEFINE k2 == IF channel[n].obj = o THEN NoChannel ELSE channel[n]
           seated == IF channel[n].obj = o THEN ConnsOf(channel[n]) ELSE {}
           f == [d \in seated |-> Note("dropped")]
<1>1. TypeOK /\ ChannelOK(n, channel[n]) /\ SetChannel(n, k2) /\ Tell(f)
  BY DEF CInv, NodeOK, DeleteIfSame
<1>2. ChannelOK(n, k2) /\ k2 \in Channel
  BY <1>1, EmptyOK DEF ChannelOK
<1>3. /\ channel' \in [Nodes -> Channel] /\ channel'[n] = k2
      /\ \A m \in Nodes : m # n => channel'[m] = channel[m]
  <2> HIDE DEF k2
  <2> QED BY <1>1, <1>2, SetChannelIs DEF TypeOK
<1>4. \A d \in ConnsOf(channel[n]) : d \in Conns /\ Home[d] = n
  BY <1>1, ConnsAre
<1>5. DOMAIN f = seated /\ \A d \in seated : f[d] = Note("dropped") /\ f[d] \in Notice
  BY NoteIs
<1>6. /\ view' \in [Conns -> Notice]
      /\ \A d \in Conns : view'[d] = IF d \in seated /\ Open(d) THEN Note("dropped")
                                     ELSE view[d]
  <2> HIDE DEF f, seated
  <2> QED BY <1>1, <1>5, TellIs DEF TypeOK
<1>7. \A d \in seated :
        k2 = NoChannel /\ d \in ConnsOf(channel[n]) /\ d \in Conns /\ Home[d] = n
  BY <1>4
<1>8. \A d \in ConnsOf(channel[n]) : d \notin ConnsOf(k2) => d \in seated
  OBVIOUS
<1>9. k2 = IF channel[n].obj = o THEN NoChannel ELSE channel[n]
  OBVIOUS
<1> HIDE DEF k2, seated, f
<1> QED BY <1>2, <1>3, <1>4, <1>6, <1>7, <1>8, <1>9

LEMMA StepFinishLeave ==
  ASSUME CInv, NEW c \in Conns, FinishLeave(c)
  PROVE  CInv'
<1> DEFINE n == Home[c]
           h == [at |-> "unregistering", as |-> "leave", to |-> NoConn]
           k2 == channel'[n]
<1>1. /\ n \in Nodes /\ TypeOK /\ NodeOK(n) /\ ChannelOK(n, channel[n])
      /\ handler[c].at = "leaving" /\ Serving(n) /\ Goto(c, h)
      /\ DeleteIfSame(n, handler[c].obj)
      /\ UNCHANGED <<registered, bus, inChannel, challengeTimers, waitTimers,
                     deletes, counts>>
  BY Nil DEF CInv, NodeOK, FinishLeave
<1>2. h \in Handler /\ h.at = "unregistering" /\ h.as = "leave" /\ h.to = NoConn
  BY HandlerIs
<1> HIDE DEF h
<1>3. /\ handler' \in [Conns -> Handler] /\ handler'[c] = h
      /\ \A d \in Conns : d # c => handler'[d] = handler[d]
  BY <1>1, <1>2, GotoIs
<1>4. /\ channel' \in [Nodes -> Channel] /\ ChannelOK(n, k2)
      /\ k2 = IF channel[n].obj = handler[c].obj THEN NoChannel ELSE channel[n]
      /\ \A m \in Nodes : m # n => channel'[m] = channel[m]
      /\ view' \in [Conns -> Notice]
      /\ \A d \in Conns :
           \/ view'[d] = view[d]
           \/ k2 = NoChannel /\ Home[d] = n /\ view'[d] = Note("dropped")
      /\ \A d \in ConnsOf(channel[n]) :
           Open(d) /\ d \notin ConnsOf(k2) => view'[d] = Note("dropped")
  BY <1>1, DeletedIs
<1>5. k2 = channel[n] => channel[n].obj # handler[c].obj \/ channel[n] = NoChannel
  BY <1>4
<1>6. k2 = channel[n] \/ k2 = NoChannel
  BY <1>4
<1>7. TypeOK'
  BY <1>1, <1>3, <1>4 DEF TypeOK
<1>8. OnlyAt(n)
  BY <1>1, <1>3, <1>4 DEF OnlyAt
<1>9. Open(c) /\ Open(c)' /\ (Serving(n)' <=> Serving(n))
  BY <1>1, <1>2, <1>3 DEF Open, Serving
<1>10. \A d \in ConnsOf(channel[n]) : d \in Conns /\ d \in inChannel /\ ~Away(d) /\ d # c
  BY <1>1, ConnsAre DEF NodeOK, IndexedAt, Away
<1>11. \A d \in ConnsOf(channel[n]) : (Open(d)' <=> Open(d)) /\ (Away(d)' <=> Away(d))
  BY <1>3, <1>10 DEF Open, Away
<1>12. IndexedAt(n)'
  BY <1>1, <1>6, <1>10, <1>11, EmptyOK DEF IndexedAt
<1>13. ShownAt(n)'
  <2>1. CASE k2 = NoChannel
    BY <1>1, <2>1, Nil, ShownStep
  <2>2. CASE k2 # NoChannel
    <3>1. k2 = channel[n] /\ \A d \in ConnsOf(channel[n]) : view'[d] = view[d]
      BY <1>4, <1>6, <1>10, <2>2
    <3> QED BY <1>1, <1>11, <3>1, ShownStep
  <2> QED BY <2>1, <2>2
<1>14. TimedAt(n)'
  <2>1. TimedAt(n)
    BY <1>1 DEF NodeOK
  <2>2. \A d \in deletes : d.node = n =>
          d.obj # 0 /\ (d.next = "unregister" => d.obj # k2.obj)
    BY <1>6, <2>1, Nil DEF TimedAt
  <2>3. k2.state = "WAIT_PEER" =>
          k2 = channel[n] /\ channel[n].obj # handler[c].obj
    BY <1>5, <1>6, Nil
  <2>4. k2.state = "WAIT_PEER" =>
          \/ [node |-> n, gen |-> k2.waitGen] \in waitTimers
          \/ \E d \in deletes : d.node = n /\ d.obj = k2.obj /\ d.next = "delete"
          \/ \E d \in Conns : handler'[d].at = "leaving" /\ Home[d] = n
                              /\ handler'[d].obj = k2.obj
    BY <1>3, <2>1, <2>3 DEF TimedAt
  <2> QED BY <1>1, <2>2, <2>4 DEF TimedAt
<1>15. ToldAt(n)'
  <2>1. Note("dropped").type \notin Believing
    BY NoteIs DEF Believing
  <2>2. Turned(n, c)
    BY <1>1, <1>2, <1>3, <1>9 DEF Turned
  <2> QED BY <1>1, <1>3, <1>4, <1>9, <2>1, <2>2, ToldStep
<1>16. NodeOK(n)'
  BY <1>4, <1>12, <1>13, <1>14, <1>15 DEF NodeOK
<1> QED BY <1>1, <1>7, <1>8, <1>16, EveryNode DEF CInv

-----------------------------------------------------------------------------
(* error verify_rejected *)

LEMMA StepReject ==
  ASSUME CInv, NEW c \in Conns, Reading(c), Serving(Home[c]), Reject(c),
         UNCHANGED <<registered, bus, challengeTimers, waitTimers, deletes, counts>>
  PROVE  CInv'
<1> DEFINE n == Home[c]
           k == channel[n]
           others == {s \in Members(k) : k.peers[s].conn # c}
           last == IF 1 \in others THEN 1 ELSE 0
           to == IF others = {} THEN NoConn ELSE k.peers[last].conn
           h == [at |-> "unregistering", as |-> "reject", to |-> to]
           told == {c} \cup {k.peers[s].conn : s \in others \ {last}}
           f == [d \in told |-> Note(IF d = c THEN "out" ELSE "dropped")]
<1>1. /\ n \in Nodes /\ TypeOK /\ NodeOK(n) /\ ChannelOK(n, k)
      /\ Stubs(k) = {} /\ SetChannel(n, NoChannel)
      /\ inChannel' = inChannel \ ConnsOf(k) /\ Goto(c, h) /\ Tell(f)
  BY Nil DEF CInv, NodeOK, Reject
<1>2. handler[c].at = "reading" /\ Open(c)
  BY DEF Reading, Open
<1>3. \A s \in others : /\ s \in Slot /\ s \in Locals(k)
                        /\ k.peers[s].conn \in ConnsOf(k)
                        /\ k.peers[s].conn \in Conns /\ Home[k.peers[s].conn] = n
  <2> TAKE s \in others
  <2>1. s \in Slot /\ s \in Locals(k)
    BY <1>1 DEF Stubs, Members
  <2>2. k.peers[s].conn \in Conns /\ Home[k.peers[s].conn] = n
    <3>1. ChannelOK(n, k)
      BY <1>1
    <3> HIDE DEF n, k, others
    <3> QED BY <2>1, <3>1, SlotIs
  <2>3. k.peers[s].conn \in ConnsOf(k)
    BY <2>1 DEF ConnsOf
  <2> QED BY <2>1, <2>2, <2>3
<1>4. others # {} => last \in others
  BY <1>3 DEF Slot
<1>5. /\ to \in Conns \cup {NoConn} /\ (to # NoConn => Home[to] = n)
      /\ \A s \in others : s = last => k.peers[s].conn = to
  BY <1>3, <1>4
<1>6. \A d \in told : d \in Conns /\ Home[d] = n
  BY <1>3
<1>7. \A d \in ConnsOf(k) : d \in Conns /\ (d = to \/ d \in told)
  <2> TAKE d \in ConnsOf(k)
  <2>1. PICK s \in Locals(k) : s \in Slot /\ k.peers[s].conn = d
    BY DEF ConnsOf, Locals
  <2>2. d = c \/ s \in others
    BY <1>1, <2>1, SlotIs
  <2>3. d \in Conns
    BY <1>1, ConnsAre
  <2> QED BY <1>5, <2>1, <2>2, <2>3
<1> HIDE DEF others, last, to, told
<1>8. h \in Handler /\ h.at = "unregistering" /\ h.as = "reject" /\ h.to = to
  BY <1>5, HandlerIs
<1> HIDE DEF h
<1>9. /\ handler' \in [Conns -> Handler] /\ handler'[c] = h
      /\ \A d \in Conns : d # c => handler'[d] = handler[d]
  BY <1>1, <1>8, GotoIs
<1>10. /\ view' \in [Conns -> Notice]
       /\ \A d \in Conns : IF d \in told /\ Open(d) THEN view'[d].type \notin Believing
                           ELSE view'[d] = view[d]
  <2>1. /\ DOMAIN f = told
        /\ \A d \in told : f[d] \in Notice /\ f[d].type \notin Believing
    BY NoteIs DEF Believing
  <2> HIDE DEF f
  <2>2. /\ view' \in [Conns -> Notice]
        /\ \A d \in Conns : view'[d] = IF d \in told /\ Open(d) THEN f[d] ELSE view[d]
    BY <1>1, <2>1, TellIs DEF TypeOK
  <2> QED BY <2>1, <2>2
<1>11. /\ channel' \in [Nodes -> Channel] /\ channel'[n] = NoChannel
       /\ \A m \in Nodes : m # n => channel'[m] = channel[m]
  BY <1>1, Nil, SetChannelIs DEF TypeOK
<1>12. TypeOK'
  BY <1>1, <1>9, <1>10, <1>11 DEF TypeOK
<1>13. OnlyAt(n)
  <2>1. \A d \in Conns : Home[d] # n => d \notin ConnsOf(k) /\ d \notin told /\ d # c
    BY <1>1, <1>6, ConnsAre
  <2> QED BY <1>1, <1>9, <1>10, <1>11, <2>1 DEF OnlyAt
<1>14. IndexedAt(n)'
  BY <1>11, EmptyOK DEF IndexedAt
<1>15. ShownAt(n)'
  BY <1>1, <1>11, EmptyOK, ShownStep
<1>16. TimedAt(n)'
  <2>1. \A d \in deletes : d.node = n /\ d.next = "unregister" => d.obj # channel'[n].obj
    BY <1>1, <1>11, Nil DEF NodeOK, TimedAt
  <2>2. \A d \in Conns :
          handler[d].at = "leaving" /\ Home[d] = n => handler'[d] = handler[d]
    BY <1>2, <1>9
  <2> QED BY <1>1, <1>11, <2>1, <2>2, Nil, TimedStep
<1>17. ToldAt(n)'
  <2>1. Serving(n)' => Serving(n)
    OBVIOUS
  <2>2. Turned(n, c)
    BY <1>2, <1>5, <1>8, <1>9 DEF Turned
  <2>3. \A d \in Conns : view'[d] = view[d] \/ view'[d].type \notin Believing
    BY <1>10
  <2>4. \A d \in Conns : d = to => Announced(d)'
    BY <1>8, <1>9 DEF Announced
  <2>5. \A d \in Conns :
          d \in ConnsOf(k) /\ Open(d) => view'[d].type \notin Believing \/ Announced(d)'
    BY <1>7, <1>10, <2>4
  <2>6. \A d \in Conns : handler'[d] = handler[d] \/ Turned(n, d)
    BY <1>9, <2>2
  <2> QED BY <1>1, <2>1, <2>3, <2>5, <2>6, ToldStep
<1>18. NodeOK(n)'
  BY <1>11, <1>14, <1>15, <1>16, <1>17, EmptyOK DEF NodeOK
<1> QED BY <1>1, <1>12, <1>13, <1>18, EveryNode DEF CInv

LEMMA StepRejectStub ==
  ASSUME CInv, NEW c \in Conns, Reading(c), RejectStub(c),
         UNCHANGED <<registered, bus, challengeTimers, waitTimers, deletes, counts>>
  PROVE  CInv'
<1> DEFINE n == Home[c]
           k == channel[n]
<1>1. /\ n \in Nodes /\ TypeOK /\ ChannelOK(n, k) /\ handler[c].at = "reading"
      /\ inChannel' = inChannel \ (IF 0 \in Stubs(k) THEN {} ELSE {k.peers[0].conn})
      /\ Goto(c, At("stuck")) /\ UNCHANGED <<channel, view>>
  BY Nil DEF CInv, NodeOK, RejectStub, Reading
<1>2. /\ handler' \in [Conns -> Handler] /\ handler'[c] = At("stuck")
      /\ \A d \in Conns : d # c => handler'[d] = handler[d]
      /\ At("stuck").at = "stuck"
  BY <1>1, HandlerIs, GotoIs
<1>3. TypeOK'
  BY <1>1, <1>2 DEF TypeOK
<1>4. ~Serving(n)' /\ ~Open(c)'
  BY <1>2 DEF Serving, Open
<1>5. \A d \in Conns : Home[d] # n => (d \in inChannel' <=> d \in inChannel)
  <2>1. 0 \in Slot
    BY DEF Slot
  <2>2. k.peers[0].conn \in Conns => Home[k.peers[0].conn] = n
    BY <1>1, <2>1, Nil, SlotIs DEF Locals
  <2> QED BY <1>1, <2>2
<1>6. Turned(n, c)
  BY <1>1, <1>2, <1>4 DEF Turned
<1>7. \A d \in ConnsOf(k) : Open(d)' => Open(d) /\ view'[d] = view[d]
  <2> TAKE d \in ConnsOf(k)
  <2>1. d \in Conns
    BY <1>1, ConnsAre
  <2> QED BY <1>1, <1>2, <1>4, <2>1 DEF Open
<1> QED BY <1>1, <1>2, <1>3, <1>4, <1>5, <1>6, <1>7, OwnStep

LEMMA StepVerifyRejected ==
  ASSUME CInv, NEW c \in Conns, HandleVerifyRejected(c)
  PROVE  CInv'
BY StepReject, StepRejectStub DEF HandleVerifyRejected

-----------------------------------------------------------------------------
(* UnregisterConn *)

LEMMA StepUnregisterConn ==
  ASSUME CInv, NEW c \in Conns, UnregisterConn(c)
  PROVE  CInv'
<1> DEFINE n == Home[c]
           k == channel[n]
           cut == handler[c].indexed /\ SlotsOf(k, c) # {}
           s == First(SlotsOf(k, c))
           w == Without(k, s)
           h == IF cut /\ Members(w) = {}
                THEN [at |-> "unregistering", as |-> "close", to |-> NoConn]
                ELSE At("closed")
<1>1. /\ n \in Nodes /\ TypeOK /\ NodeOK(n) /\ ChannelOK(n, k)
      /\ handler[c].at = "closing" /\ Serving(n) /\ Goto(c, h)
      /\ inChannel' = inChannel \ {c}
      /\ challengeTimers' = [challengeTimers EXCEPT ![c] = 0]
      /\ UNCHANGED <<registered, deletes, counts>>
  BY Nil DEF CInv, NodeOK, UnregisterConn
<1>2. IF cut
      THEN /\ Removal(n, k, s)
           /\ SetChannel(n, IF Members(w) = {} THEN NoChannel ELSE w)
      ELSE UNCHANGED <<channel, bus, waitTimers, view>>
  BY DEF UnregisterConn
<1>3. /\ h \in Handler /\ h.at \in {"closed", "unregistering"}
      /\ h.at = "unregistering" => h.as = "close" /\ h.to = NoConn
  BY HandlerIs
<1> HIDE DEF h
<1>4. /\ handler' \in [Conns -> Handler] /\ handler'[c] = h
      /\ \A d \in Conns : d # c => handler'[d] = handler[d]
  BY <1>1, <1>3, GotoIs
<1>5. ~Open(c) /\ ~Open(c)' /\ handler'[c].at # "stuck"
  BY <1>1, <1>3, <1>4 DEF Open
<1>6. Turned(n, c)
  BY <1>1, <1>3, <1>4, <1>5 DEF Turned
<1>7. challengeTimers' \in [Conns -> Nat]
  BY <1>1 DEF TypeOK
<1>8. CASE cut
  <2>1. s \in SlotsOf(k, c) /\ Removal(n, k, s)
        /\ SetChannel(n, IF Members(w) = {} THEN NoChannel ELSE w)
    BY <1>1, <1>2, <1>8, OneSlot
  <2> HIDE DEF s
  <2>2. ChannelOK(n, w)
    BY <1>1, <2>1, RemovalIs
  <2>3. /\ waitTimers' \subseteq WaitTimer
        /\ bus' \in [Nodes -> Seq(Message)] /\ view' \in [Conns -> Notice]
    BY <1>1, <2>1, RemovalIs
  <2> DEFINE k2 == IF Members(w) = {} THEN NoChannel ELSE w
  <2>4. k2 \in Channel /\ (k2 = w \/ (Members(w) = {} /\ k2 = NoChannel))
    BY <2>2, Nil DEF ChannelOK
  <2> HIDE DEF k2
  <2>5. /\ channel' \in [Nodes -> Channel] /\ channel'[n] = k2
        /\ \A m \in Nodes : m # n => channel'[m] = channel[m]
    BY <1>1, <2>1, <2>4, SetChannelIs DEF TypeOK, k2
  <2>6. TypeOK'
    BY <1>1, <1>4, <1>7, <2>3, <2>5 DEF TypeOK
  <2> QED BY <1>1, <1>4, <1>5, <1>6, <2>1, <2>4, <2>5, <2>6, RemovalStep
<1>9. CASE ~cut
  <2>1. UNCHANGED <<channel, bus, waitTimers, view>>
    BY <1>2, <1>9
  <2>2. TypeOK'
    BY <1>1, <1>4, <1>7, <2>1 DEF TypeOK
  <2>3. \A d \in ConnsOf(k) : d \in Conns /\ d \in inChannel /\ ~Away(d)
    BY <1>1, ConnsAre DEF NodeOK, IndexedAt
  <2>4. c \notin ConnsOf(k)
    BY <1>1, <1>9, <2>3, OneSlot DEF Away
  <2>5. \A d \in ConnsOf(k) :
          /\ Open(d)' => Open(d) /\ view'[d] = view[d]
          /\ d \in inChannel' /\ ~Away(d)'
    BY <1>1, <1>4, <2>1, <2>3, <2>4 DEF Open, Away
  <2> QED BY <1>1, <1>4, <1>5, <1>6, <2>1, <2>2, <2>5, OwnStep
<1> QED BY <1>8, <1>9

-----------------------------------------------------------------------------
(* timers *)

LEMMA EmptiedIs ==
  ASSUME CInv, NEW n \in Nodes, NEW k \in Channel, k.obj # 0, NEW sub \in BOOLEAN,
         Emptied(n, k, sub)
  PROVE  /\ deletes' \subseteq Delete /\ IsFiniteSet(deletes') /\ deletes \subseteq deletes'
         /\ \A d \in deletes' \ deletes : d.node = n /\ d.next = "delete" /\ d.obj # 0
         /\ Members(k) = {} =>
              \E d \in deletes' : d.node = n /\ d.obj = k.obj /\ d.next = "delete"
<1> DEFINE e == [node |-> n, obj |-> k.obj, sub |-> sub, next |-> "delete"]
<1>1. deletes \subseteq Delete /\ IsFiniteSet(deletes)
  BY DEF CInv, TypeOK
<1>2. e \in Delete /\ e.node = n /\ e.obj = k.obj /\ e.next = "delete"
  BY DEF Delete, Channel
<1>3. deletes' = IF Members(k) # {} THEN deletes ELSE deletes \cup {e}
  BY DEF Emptied
<1> HIDE DEF e
<1>4. IsFiniteSet(deletes \cup {e})
  BY <1>1, FS_AddElement
<1> QED BY <1>1, <1>2, <1>3, <1>4

LEMMA TellOutIs ==
  ASSUME TypeOK, NEW S, TellOut(S)
  PROVE  /\ view' \in [Conns -> Notice] /\ Note("out").type \notin Believing
         /\ \A d \in Conns :
              view'[d] = IF d \in S /\ Open(d) THEN Note("out") ELSE view[d]
<1> DEFINE f == [d \in S |-> Note("out")]
<1>1. DOMAIN f = S /\ \A d \in S : f[d] = Note("out") /\ f[d] \in Notice
  BY NoteIs
<1>2. Tell(f) /\ view \in [Conns -> Notice]
  BY DEF TellOut, TypeOK
<1> HIDE DEF f
<1>3. /\ view' \in [Conns -> Notice]
      /\ \A d \in Conns : view'[d] = IF d \in DOMAIN f /\ Open(d) THEN f[d] ELSE view[d]
  BY <1>1, <1>2, TellIs
<1> QED BY <1>1, <1>3, NoteIs DEF Believing

\* Timers evict the connections in gone, which are told so.
LEMMA EvictionStep ==
  ASSUME CInv, NEW n \in Nodes, Serving(n), NEW k2 \in Channel, SetChannel(n, k2),
         NEW gone \in SUBSET Conns, TellOut(gone), \A c \in gone : Home[c] = n,
         ConnsOf(k2) = ConnsOf(channel[n]) \ gone,
         ChannelOK(n, k2), k2.state # "ACTIVE" \/ Locals(k2) = {},
         k2.obj = channel[n].obj, k2.obj # 0, Emptied(n, k2, FALSE),
         \A t \in waitTimers : t.node # n => t \in waitTimers',
         waitTimers' \subseteq WaitTimer,
         k2.state = "WAIT_PEER" =>
           \/ [node |-> n, gen |-> k2.waitGen] \in waitTimers'
           \/ Members(k2) = {},
         inChannel' = inChannel \ gone,
         challengeTimers' \in [Conns -> Nat],
         UNCHANGED <<registered, bus, handler, counts>>
  PROVE  CInv'
<1>1. TypeOK /\ NodeOK(n) /\ ChannelOK(n, channel[n])
  BY DEF CInv, NodeOK
<1>2. /\ channel' \in [Nodes -> Channel] /\ channel'[n] = k2
      /\ \A m \in Nodes : m # n => channel'[m] = channel[m]
  BY <1>1, SetChannelIs DEF TypeOK
<1>3. /\ deletes' \subseteq Delete /\ IsFiniteSet(deletes') /\ deletes \subseteq deletes'
      /\ \A d \in deletes' \ deletes : d.node = n /\ d.next = "delete" /\ d.obj # 0
      /\ Members(k2) = {} =>
           \E d \in deletes' : d.node = n /\ d.obj = k2.obj /\ d.next = "delete"
  BY EmptiedIs
<1>4. /\ view' \in [Conns -> Notice] /\ Note("out").type \notin Believing
      /\ \A d \in Conns :
           view'[d] = IF d \in gone /\ Open(d) THEN Note("out") ELSE view[d]
  BY <1>1, TellOutIs
<1>5. TypeOK'
  BY <1>1, <1>2, <1>3, <1>4 DEF TypeOK
<1>6. OnlyAt(n)
  BY <1>2, <1>3, <1>4 DEF OnlyAt
<1>7. \A d \in ConnsOf(k2) : d \in Conns /\ d \in inChannel /\ ~Away(d) /\ d \notin gone
  BY <1>1, ConnsAre DEF NodeOK, IndexedAt
<1>8. IndexedAt(n)'
  BY <1>2, <1>7 DEF IndexedAt, Away
<1>9. ShownAt(n)'
  BY <1>2, ShownStep
<1>10. TimedAt(n)'
  <2>1. \A d \in deletes : d.node = n /\ d.next = "unregister" => d.obj # channel'[n].obj
    BY <1>1, <1>2 DEF NodeOK, TimedAt
  <2>2. channel'[n].state = "WAIT_PEER" =>
          \/ [node |-> n, gen |-> channel'[n].waitGen] \in waitTimers'
          \/ \E d \in deletes' :
               d.node = n /\ d.obj = channel'[n].obj /\ d.next = "delete"
    BY <1>2, <1>3
  <2>3. /\ \A d \in deletes : d.node = n => d \in deletes'
        /\ \A d \in deletes' \ deletes :
             d.node = n => d.next = "delete" /\ d.obj # 0
    BY <1>3
  <2> QED BY <2>1, <2>2, <2>3, TimedStep
<1>11. ToldAt(n)'
  BY <1>2, <1>4, ToldStep DEF Serving
<1>12. NodeOK(n)'
  BY <1>2, <1>8, <1>9, <1>10, <1>11 DEF NodeOK
<1> QED BY <1>3, <1>5, <1>6, <1>12, EveryNode

LEMMA StepChallengeTimeout ==
  ASSUME CInv, NEW c \in Conns, ChallengeTimeout(c)
  PROVE  CInv'
<1> DEFINE n == Home[c]
           k == channel[n]
<1>1. /\ n \in Nodes /\ TypeOK /\ ChannelOK(n, k) /\ Serving(n)
      /\ challengeTimers[c] \in Nat /\ challengeTimers[c] > 0
      /\ challengeTimers' = [challengeTimers EXCEPT ![c] = @ - 1]
      /\ inChannel' = inChannel \ {c} /\ TellOut({c})
      /\ UNCHANGED <<registered, bus, handler, counts>>
  BY Nil DEF CInv, NodeOK, ChallengeTimeout, TypeOK
<1>2. PICK s \in SlotsOf(k, c) :
        /\ SetChannel(n, Without(k, s))
        /\ waitTimers' = waitTimers \cup WaitTimerOf(n, Without(k, s))
        /\ Emptied(n, Without(k, s), FALSE)
  BY DEF ChallengeTimeout
<1> DEFINE w == Without(k, s)
<1>3. /\ ChannelOK(n, w) /\ w.obj = k.obj /\ k.obj # 0
      /\ ConnsOf(w) = ConnsOf(k) \ {c}
      /\ w.state # "ACTIVE" \/ Locals(w) = {}
  BY <1>1, CutIs
<1>4. w \in Channel /\ w.waitGen \in Nat
  BY <1>3 DEF ChannelOK, Channel
<1>5. w.state = "WAIT_PEER" =>
        [node |-> n, gen |-> w.waitGen] \in waitTimers' \/ Members(w) = {}
  BY <1>2, WaitTimerOfIs
<1>6. waitTimers \subseteq waitTimers' /\ waitTimers' \subseteq WaitTimer
  <2>1. waitTimers' = waitTimers \cup WaitTimerOf(n, w)
    BY <1>2
  <2>2. waitTimers \subseteq WaitTimer
    BY <1>1 DEF TypeOK
  <2> HIDE DEF w
  <2>3. [node |-> n, gen |-> w.waitGen] \in WaitTimer
    BY <1>1, <1>4 DEF WaitTimer
  <2> QED BY <2>1, <2>2, <2>3, WaitTimerOfIs
<1>7. challengeTimers' \in [Conns -> Nat]
  BY <1>1 DEF TypeOK
<1>8. SetChannel(n, w) /\ Emptied(n, w, FALSE)
  BY <1>2
<1> HIDE DEF w
<1>9. ConnsOf(w) = ConnsOf(channel[n]) \ {c} /\ w.obj = channel[n].obj /\ w.obj # 0
  BY <1>3
<1> QED BY <1>1, <1>3, <1>4, <1>5, <1>6, <1>7, <1>8, <1>9, EvictionStep

LEMMA StepWaitPeerTimeout ==
  ASSUME CInv, NEW t \in waitTimers, WaitPeerTimeout(t)
  PROVE  CInv'
<1> DEFINE n == t.node
           k == channel[n]
           e == [k EXCEPT !.peers = NoChannel.peers]
<1>1. /\ TypeOK /\ n \in Nodes /\ ChannelOK(n, k) /\ Serving(n)
      /\ k.state = "WAIT_PEER" /\ waitTimers' = waitTimers \ {t}
      /\ SetChannel(n, e) /\ Emptied(n, e, FALSE)
      /\ inChannel' = inChannel \ ConnsOf(k) /\ TellOut(ConnsOf(k))
      /\ UNCHANGED <<registered, bus, handler, challengeTimers, counts>>
  BY DEF CInv, TypeOK, NodeOK, WaitPeerTimeout, WaitTimer
<1>2. /\ ChannelOK(n, e) /\ e.state = "WAIT_PEER" /\ e.obj = k.obj
      /\ Members(e) = {} /\ ConnsOf(e) = {}
  BY <1>1, EmptiedOK
<1> HIDE DEF e
<1>3. e \in Channel /\ e.obj # 0
  BY <1>2 DEF ChannelOK
<1>4. ConnsOf(k) \in SUBSET Conns /\ \A c \in ConnsOf(k) : Home[c] = n
  BY <1>1, ConnsAre
<1>5. ConnsOf(e) = ConnsOf(channel[n]) \ ConnsOf(k) /\ e.obj = channel[n].obj
  BY <1>2
<1>6. /\ \A u \in waitTimers : u.node # n => u \in waitTimers'
      /\ waitTimers' \subseteq WaitTimer /\ challengeTimers' \in [Conns -> Nat]
  BY <1>1 DEF TypeOK
<1> QED BY <1>1, <1>2, <1>3, <1>4, <1>5, <1>6, EvictionStep

LEMMA StepDeferredDelete ==
  ASSUME CInv, NEW d \in deletes, DeferredDelete(d)
  PROVE  CInv'
<1> DEFINE n == d.node
           e == [d EXCEPT !.next = "unregister"]
           k2 == channel'[n]
<1>1. /\ TypeOK /\ d \in Delete /\ n \in Nodes /\ NodeOK(n) /\ ChannelOK(n, channel[n])
      /\ d.next = "delete" /\ Serving(n) /\ DeleteIfSame(n, d.obj)
      /\ deletes' = (deletes \ {d}) \cup {e}
      /\ UNCHANGED <<registered, bus, inChannel, handler, challengeTimers,
                     waitTimers, counts>>
  BY DEF CInv, TypeOK, NodeOK, DeferredDelete, Delete
<1>2. e \in Delete /\ e.node = n /\ e.obj = d.obj /\ e.next = "unregister"
  BY <1>1 DEF Delete
<1> HIDE DEF e
<1>3. /\ channel' \in [Nodes -> Channel] /\ ChannelOK(n, k2)
      /\ k2 = IF channel[n].obj = d.obj THEN NoChannel ELSE channel[n]
      /\ \A m \in Nodes : m # n => channel'[m] = channel[m]
      /\ view' \in [Conns -> Notice]
      /\ \A x \in Conns :
           \/ view'[x] = view[x]
           \/ k2 = NoChannel /\ Home[x] = n /\ view'[x] = Note("dropped")
      /\ \A x \in ConnsOf(channel[n]) :
           Open(x) /\ x \notin ConnsOf(k2) => view'[x] = Note("dropped")
  BY <1>1, DeletedIs
<1>4. /\ k2 = channel[n] \/ k2 = NoChannel
      /\ d.obj # 0 /\ k2.obj # d.obj
  BY <1>1, <1>3, Nil DEF NodeOK, TimedAt
<1>5. TypeOK'
  BY <1>1, <1>2, <1>3 DEF TypeOK
<1>6. OnlyAt(n)
  BY <1>1, <1>2, <1>3 DEF OnlyAt
<1>7. IsFiniteSet(deletes')
  <2>1. IsFiniteSet(deletes \ {d})
    BY FS_RemoveElement DEF CInv
  <2> QED BY <1>1, <2>1, FS_AddElement
<1>8. IndexedAt(n)'
  BY <1>1, <1>4, EmptyOK DEF NodeOK, IndexedAt, Away
<1>9. ShownAt(n)'
  <2>1. CASE k2 = NoChannel
    BY <1>1, <2>1, Nil, ShownStep
  <2>2. CASE k2 # NoChannel
    <3>1. /\ k2 = channel[n]
          /\ \A x \in ConnsOf(channel[n]) : view'[x] = view[x] /\ (Open(x)' <=> Open(x))
      BY <1>1, <1>3, <1>4, <2>2, ConnsAre DEF Open
    <3> QED BY <1>1, <3>1, ShownStep
  <2> QED BY <2>1, <2>2
<1>10. TimedAt(n)'
  <2>1. TimedAt(n)
    BY <1>1 DEF NodeOK
  <2>2. \A x \in deletes' : x.node = n =>
          x.obj # 0 /\ (x.next = "unregister" => x.obj # k2.obj)
    BY <1>1, <1>2, <1>4, <2>1, Nil DEF TimedAt
  <2>3. k2.state = "WAIT_PEER" => k2 = channel[n]
    BY <1>4, Nil
  <2>4. k2.state = "WAIT_PEER" =>
          \/ [node |-> n, gen |-> k2.waitGen] \in waitTimers
          \/ \E x \in deletes' : x.node = n /\ x.obj = k2.obj /\ x.next = "delete"
          \/ \E x \in Conns : handler[x].at = "leaving" /\ Home[x] = n
                              /\ handler[x].obj = k2.obj
    BY <1>1, <1>4, <2>1, <2>3 DEF TimedAt
  <2> QED BY <1>1, <2>2, <2>4 DEF TimedAt
<1>11. ToldAt(n)'
  <2>1. Note("dropped").type \notin Believing
    BY NoteIs DEF Believing
  <2> QED BY <1>1, <1>3, <2>1, ToldStep
<1>12. NodeOK(n)'
  BY <1>3, <1>8, <1>9, <1>10, <1>11 DEF NodeOK
<1> QED BY <1>1, <1>5, <1>6, <1>7, <1>12, EveryNode

LEMMA StepDeferredUnregister ==
  ASSUME CInv, NEW d \in deletes, DeferredUnregister(d)
  PROVE  CInv'
<1> DEFINE n == d.node
<1>1. /\ TypeOK /\ n \in Nodes /\ d.next = "unregister" /\ deletes' = deletes \ {d}
      /\ NodeOK(n) /\ registered' = FALSE
      /\ UNCHANGED <<channel, bus, inChannel, handler, challengeTimers, waitTimers,
                     view>>
  BY DEF CInv, TypeOK, Delete, DeferredUnregister, UnregisterChannelPeer
<1>2. counts' \in [joins : [Conns -> Nat], late : Nat, faults : Nat, cut : BOOLEAN]
  <2> DEFINE b == counts.cut \/ \E m \in Nodes : Locals(channel[m]) # {}
  <2>1. counts' = [counts EXCEPT !.cut = b]
    BY DEF DeferredUnregister, UnregisterChannelPeer
  <2>2. b \in BOOLEAN
    BY <1>1 DEF TypeOK
  <2> HIDE DEF b
  <2> QED BY <1>1, <2>1, <2>2, CountsIs
<1>3. TypeOK'
  BY <1>1, <1>2 DEF TypeOK
<1>4. IsFiniteSet(deletes')
  BY <1>1, FS_RemoveElement DEF CInv
<1>5. OnlyAt(n)
  BY <1>1 DEF OnlyAt
<1>6. IndexedAt(n)'
  BY <1>1 DEF NodeOK, IndexedAt, Away, Serving
<1>7. ShownAt(n)'
  BY <1>1, ShownStep DEF Open
<1>8. TimedAt(n)'
  <2>1. TimedAt(n)
    BY <1>1 DEF NodeOK
  <2>2. channel[n].state = "WAIT_PEER" =>
          \/ [node |-> n, gen |-> channel[n].waitGen] \in waitTimers
          \/ \E x \in deletes' :
               x.node = n /\ x.obj = channel[n].obj /\ x.next = "delete"
          \/ \E x \in Conns : handler[x].at = "leaving" /\ Home[x] = n
                              /\ handler[x].obj = channel[n].obj
    BY <1>1, <2>1 DEF TimedAt
  <2> QED BY <1>1, <2>1, <2>2 DEF TimedAt
<1>9. ToldAt(n)'
  BY <1>1, ToldStep DEF Serving
<1>10. NodeOK(n)'
  BY <1>1, <1>6, <1>7, <1>8, <1>9 DEF NodeOK
<1> QED BY <1>1, <1>3, <1>4, <1>5, <1>10, EveryNode

-----------------------------------------------------------------------------
(* Messages of other nodes *)

LEMMA ReceivesIs ==
  ASSUME TypeOK, NEW n \in Nodes, NEW t, Receives(n, t)
  PROVE  /\ From(n) \in Ids /\ Popped(n) \in [Nodes -> Seq(Message)] /\ Serving(n)
         /\ UNCHANGED <<registered, handler, challengeTimers, counts>>
<1>1. bus \in [Nodes -> Seq(Message)] /\ bus[n] \in Seq(Message) /\ bus[n] # << >>
  BY DEF TypeOK, Receives
<1>2. Head(bus[n]) \in Message /\ Tail(bus[n]) \in Seq(Message)
  BY <1>1
<1>3. From(n) \in Ids
  BY <1>2 DEF From, Message
<1>4. Popped(n) \in [Nodes -> Seq(Message)]
  BY <1>1, <1>2 DEF Popped
<1> QED BY <1>3, <1>4 DEF Receives

LEMMA PoppedIs ==
  ASSUME TypeOK, NEW n \in Nodes, NEW t, Receives(n, t), Publish(n, Popped(n), << >>)
  PROVE  bus' \in [Nodes -> Seq(Message)]
<1>1. << >> \in Seq(Message) /\ Popped(n) \in [Nodes -> Seq(Message)]
  BY ReceivesIs
<1> QED BY <1>1, PublishIs

\* k, which the step puts in place at n, does not come to wait untimed.
StaysTimed(n, k) ==
  /\ waitTimers \subseteq waitTimers' /\ waitTimers' \subseteq WaitTimer
  /\ deletes' \subseteq Delete /\ IsFiniteSet(deletes') /\ deletes \subseteq deletes'
  /\ \A d \in deletes' \ deletes : d.node = n /\ d.next = "delete" /\ d.obj # 0
  /\ k.state = "WAIT_PEER" =>
       \/ [node |-> n, gen |-> k.waitGen] \in waitTimers'
       \/ \E d \in deletes' : d.node = n /\ d.obj = k.obj /\ d.next = "delete"
       \/ /\ channel[n].state = "WAIT_PEER"
          /\ k.waitGen = channel[n].waitGen /\ k.obj = channel[n].obj
  /\ \A d \in deletes : d.node = n /\ d.next = "unregister" => d.obj # k.obj

\* Only members of n are told something.
MembersTold(n) ==
  /\ view' \in [Conns -> Notice]
  /\ \A d \in Conns : view'[d] = view[d] \/ d \in ConnsOf(channel[n])

\* The members here stay and none is taken for verified.
LEMMA ReceiveStep ==
  ASSUME CInv, NEW n \in Nodes, Serving(n), NEW k2, ChannelOK(n, k2),
         SetChannel(n, k2), ConnsOf(k2) = ConnsOf(channel[n]),
         k2.state # "ACTIVE" \/ Locals(k2) = {},
         MembersTold(n), StaysTimed(n, k2), bus' \in [Nodes -> Seq(Message)],
         UNCHANGED <<registered, inChannel, handler, challengeTimers, counts>>
  PROVE  CInv'
<1>1. TypeOK /\ NodeOK(n) /\ ChannelOK(n, channel[n])
  BY DEF CInv, NodeOK
<1>2. /\ channel' \in [Nodes -> Channel] /\ channel'[n] = k2
      /\ \A m \in Nodes : m # n => channel'[m] = channel[m]
  BY <1>1, SetChannelIs DEF TypeOK, ChannelOK
<1>3. TypeOK'
  BY <1>1, <1>2 DEF TypeOK, StaysTimed, MembersTold
<1>4. OnlyAt(n)
  BY <1>1, <1>2, ConnsAre DEF OnlyAt, StaysTimed, MembersTold
<1>5. IndexedAt(n)'
  BY <1>1, <1>2 DEF NodeOK, IndexedAt, Away
<1>6. ShownAt(n)'
  BY <1>2, ShownStep
<1>7. TimedAt(n)'
  BY <1>2, TimedStep DEF StaysTimed
<1>8. Serving(n)'
  BY DEF Serving
<1>9. ToldAt(n)'
  BY <1>2, <1>8, ToldStep DEF MembersTold
<1>10. NodeOK(n)'
  BY <1>2, <1>5, <1>6, <1>7, <1>9 DEF NodeOK
<1> QED BY <1>3, <1>4, <1>10, EveryNode DEF StaysTimed

LEMMA StepRemoteJoinNotify ==
  ASSUME CInv, NEW n \in Nodes, HandleRemoteJoinNotify(n)
  PROVE  CInv'
<1> DEFINE k == Opened(n)
           i == From(n)
           free == Slot \ Members(k)
           noted == IF Named(k, i) # {} \/ free = {} THEN k
                    ELSE [k EXCEPT !.peers[First(free)] = Stub(i)]
           replies == [s \in Slot |-> IF s \in Locals(k) THEN <<Reply(k.peers[s].id)>>
                                      ELSE << >>]
           msgs == IF Head(bus[n]).reply THEN << >> ELSE replies[0] \o replies[1]
           r == Rechallenged(noted, i)
           f == [d \in ConnsOf(k) |-> Note("challenge")]
<1>1. /\ Receives(n, "join_notify") /\ SetChannel(n, r)
      /\ Publish(n, Popped(n), msgs) /\ Tell(f)
      /\ UNCHANGED <<inChannel, waitTimers, deletes>>
  BY DEF HandleRemoteJoinNotify
<1>2. TypeOK /\ IsFiniteSet(deletes)
  BY DEF CInv
<1>3. /\ i \in Ids /\ Popped(n) \in [Nodes -> Seq(Message)] /\ Serving(n)
      /\ UNCHANGED <<registered, handler, challengeTimers, counts>>
  BY <1>1, <1>2, ReceivesIs
<1>4. /\ ChannelOK(n, k) /\ k.state # "NONE" /\ ConnsOf(k) = ConnsOf(channel[n])
      /\ \A d \in deletes : d.node = n /\ d.next = "unregister" => d.obj # k.obj
  BY OpenedOK
<1> HIDE DEF k, i
<1>5. /\ ChannelOK(n, r) /\ r.state = "CHALLENGING" /\ r.obj = k.obj
      /\ ConnsOf(r) = ConnsOf(k)
  BY <1>3, <1>4, StubOK
<1> HIDE DEF r
<1>6. bus' \in [Nodes -> Seq(Message)]
  <2>1. \A s \in Slot : replies[s] \in Seq(Message)
    <3> TAKE s \in Slot
    <3>1. CASE s \in Locals(k)
      <4>1. k.peers[s].id \in Ids
        BY <1>4, <3>1, SlotIs
      <4>2. Reply(k.peers[s].id) \in Message
        BY <4>1, RemoteIs
      <4> QED BY <3>1, <4>2
    <3>2. CASE s \notin Locals(k)
      BY <3>2
    <3> QED BY <3>1, <3>2
  <2> HIDE DEF replies
  <2>2. msgs \in Seq(Message)
    BY <2>1 DEF Slot
  <2> HIDE DEF msgs
  <2> QED BY <1>1, <1>3, <2>2, PublishIs
<1>7. /\ view' \in [Conns -> Notice]
      /\ \A d \in Conns : view'[d] = view[d] \/ d \in ConnsOf(k)
  <2>1. DOMAIN f = ConnsOf(k) /\ \A d \in ConnsOf(k) : f[d] \in Notice
    BY NoteIs
  <2> HIDE DEF f
  <2> QED BY <1>1, <1>2, <2>1, TellIs DEF TypeOK
<1>8. StaysTimed(n, r)
  BY <1>1, <1>2, <1>4, <1>5 DEF TypeOK, StaysTimed
<1>9. MembersTold(n)
  BY <1>4, <1>7 DEF MembersTold
<1>10. /\ SetChannel(n, r) /\ ChannelOK(n, r) /\ ConnsOf(r) = ConnsOf(channel[n])
       /\ r.state # "ACTIVE"
       /\ UNCHANGED <<registered, inChannel, handler, challengeTimers, counts>>
  BY <1>1, <1>3, <1>4, <1>5
<1> QED BY <1>3, <1>6, <1>8, <1>9, <1>10, ReceiveStep

LEMMA StepRemoteResponse ==
  ASSUME CInv, NEW n \in Nodes, HandleRemoteResponse(n)
  PROVE  CInv'
<1> DEFINE k == channel[n]
           named == Named(k, From(n))
           s == First(named)
           a == [k EXCEPT !.peers[s].answered = TRUE]
<1>1. /\ Receives(n, "response") /\ Publish(n, Popped(n), << >>)
      /\ UNCHANGED <<inChannel, waitTimers, deletes>>
      /\ IF Mapped(n) THEN Answer(n, IF named = {} THEN k ELSE a)
         ELSE UNCHANGED <<channel, view>>
  BY DEF HandleRemoteResponse
<1>2. TypeOK /\ ChannelOK(n, k)
  BY DEF CInv, NodeOK
<1>3. /\ From(n) \in Ids /\ Popped(n) \in [Nodes -> Seq(Message)] /\ Serving(n)
      /\ UNCHANGED <<registered, handler, challengeTimers, counts>>
  BY <1>1, <1>2, ReceivesIs
<1>4. bus' \in [Nodes -> Seq(Message)]
  BY <1>1, <1>2, PoppedIs
<1>5. CASE ~Mapped(n)
  <2>1. UNCHANGED <<channel, view>>
    BY <1>1, <1>5
  <2>2. TypeOK'
    BY <1>1, <1>2, <1>3, <1>4, <2>1 DEF TypeOK
  <2> QED BY <1>1, <1>3, <2>1, <2>2, QuietStep
<1>6. CASE Mapped(n) /\ named = {}
  <2>1. Answer(n, k)
    BY <1>1, <1>6
  <2>2. /\ channel' \in [Nodes -> Channel] /\ view' \in [Conns -> Notice]
        /\ TypeOK' => CInv'
    BY <1>1, <1>2, <1>3, <2>1, AnswerStep
  <2>3. TypeOK'
    BY <1>1, <1>2, <1>3, <1>4, <2>2 DEF TypeOK
  <2> QED BY <2>2, <2>3
<1>7. CASE Mapped(n) /\ named # {}
  <2>1. s \in Slot /\ s \in Members(k)
    BY <1>3, <1>7, Nil DEF First, Named, Slot, Members
  <2>2. /\ ChannelOK(n, a) /\ a.state = k.state /\ a.waitGen = k.waitGen
        /\ a.obj = k.obj
        /\ \A r \in Slot : /\ a.peers[r].id = k.peers[r].id
                           /\ a.peers[r].conn = k.peers[r].conn
    BY <1>2, <2>1, NotedOK
  <2>3. Answer(n, a)
    BY <1>1, <1>7
  <2> HIDE DEF a
  <2>4. /\ channel' \in [Nodes -> Channel] /\ view' \in [Conns -> Notice]
        /\ TypeOK' => CInv'
    BY <1>1, <1>3, <2>2, <2>3, AnswerStep
  <2>5. TypeOK'
    BY <1>1, <1>2, <1>3, <1>4, <2>4 DEF TypeOK
  <2> QED BY <2>4, <2>5
<1> QED BY <1>5, <1>6, <1>7

LEMMA StepRemoteRelay ==
  ASSUME CInv, NEW n \in Nodes, HandleRemoteRelay(n)
  PROVE  CInv'
<1>1. /\ Receives(n, "relay") /\ Publish(n, Popped(n), << >>) /\ TypeOK
      /\ UNCHANGED <<channel, inChannel, waitTimers, deletes, view>>
  BY DEF CInv, HandleRemoteRelay
<1>2. /\ Popped(n) \in [Nodes -> Seq(Message)]
      /\ UNCHANGED <<registered, handler, challengeTimers, counts>>
  BY <1>1, ReceivesIs
<1>3. bus' \in [Nodes -> Seq(Message)]
  BY <1>1, PoppedIs
<1>4. TypeOK'
  BY <1>1, <1>2, <1>3 DEF TypeOK
<1> QED BY <1>1, <1>2, <1>4, QuietStep

LEMMA StepRemotePeerLeft ==
  ASSUME CInv, NEW n \in Nodes, HandleRemotePeerLeft(n)
  PROVE  CInv'
<1> DEFINE k == channel[n]
           i == From(n)
           gone == Stubs(k) \cap Named(k, i)
           rest == [k EXCEPT !.peers[First(gone)] = NoPeer]
           back == BackToWait(rest)
           f == [d \in ConnsOf(rest) |-> Note("peer_left")]
<1>1. /\ Receives(n, "peer_left") /\ Publish(n, Popped(n), << >>)
      /\ UNCHANGED inChannel
      /\ IF gone = {}
         THEN UNCHANGED <<channel, waitTimers, deletes, view>>
         ELSE /\ SetChannel(n, IF Locals(rest) = {} THEN rest ELSE back)
              /\ waitTimers' = IF Locals(rest) = {} THEN waitTimers
                               ELSE waitTimers \cup WaitTimerOf(n, back)
              /\ Tell(f)
              /\ Emptied(n, rest, TRUE)
  BY DEF HandleRemotePeerLeft
<1>2. TypeOK /\ ChannelOK(n, k) /\ IsFiniteSet(deletes) /\ NodeOK(n)
  BY DEF CInv, NodeOK
<1>3. /\ Popped(n) \in [Nodes -> Seq(Message)] /\ Serving(n)
      /\ UNCHANGED <<registered, handler, challengeTimers, counts>>
  BY <1>1, <1>2, ReceivesIs
<1>4. bus' \in [Nodes -> Seq(Message)]
  BY <1>1, <1>2, PoppedIs
<1>5. CASE gone = {}
  <2>1. UNCHANGED <<channel, waitTimers, deletes, view>>
    BY <1>1, <1>5
  <2>2. TypeOK'
    BY <1>1, <1>2, <1>3, <1>4, <2>1 DEF TypeOK
  <2> QED BY <1>1, <1>3, <2>1, <2>2, QuietStep
<1>6. CASE gone # {}
  <2>1. /\ SetChannel(n, IF Locals(rest) = {} THEN rest ELSE back)
        /\ waitTimers' = IF Locals(rest) = {} THEN waitTimers
                         ELSE waitTimers \cup WaitTimerOf(n, back)
        /\ Tell(f) /\ Emptied(n, rest, TRUE)
    BY <1>1, <1>6
  <2>2. /\ k.state # "NONE" /\ ConnsOf(rest) = ConnsOf(k)
        /\ Locals(rest) = Locals(k) /\ Locals(k) \subseteq Members(rest)
        /\ rest.obj = k.obj /\ rest.state = k.state /\ rest.waitGen = k.waitGen
        /\ Locals(k) = {} => ChannelOK(n, rest)
    <3>1. ChannelOK(n, k) /\ Stubs(k) \cap Named(k, i) # {}
      BY <1>2, <1>6
    <3> HIDE DEF k, i
    <3> QED BY <3>1, StubGoneOK, ZenonT(30)
  <2>3. /\ ChannelOK(n, back) /\ back.state = "WAIT_PEER" /\ back.obj = k.obj
        /\ ConnsOf(back) = ConnsOf(k) /\ Members(back) = Members(rest)
    <3>1. ChannelOK(n, k) /\ Stubs(k) \cap Named(k, i) # {}
      BY <1>2, <1>6
    <3> HIDE DEF k, i
    <3> QED BY <3>1, StubGoneOK, ZenonT(30)
  <2>4. rest \in Channel /\ k.obj # 0
    BY <1>2, <2>2, Nil DEF ChannelOK, Channel
  <2> HIDE DEF back, rest, k
  <2>5. /\ deletes' \subseteq Delete /\ IsFiniteSet(deletes') /\ deletes \subseteq deletes'
        /\ \A d \in deletes' \ deletes : d.node = n /\ d.next = "delete" /\ d.obj # 0
    BY <2>1, <2>2, <2>4, EmptiedIs
  <2>6. /\ view' \in [Conns -> Notice]
        /\ \A d \in Conns : view'[d] = view[d] \/ d \in ConnsOf(k)
    <3>1. DOMAIN f = ConnsOf(k) /\ \A d \in ConnsOf(k) : f[d] \in Notice
      BY <2>2, NoteIs
    <3> HIDE DEF f
    <3> QED BY <1>2, <2>1, <3>1, TellIs DEF TypeOK
  <2>7. k = channel[n]
    BY DEF k
  <2>8. \A d \in deletes : d.node = n /\ d.next = "unregister" => d.obj # k.obj
    BY <1>2, <2>7 DEF NodeOK, TimedAt
  <2>9. MembersTold(n) /\ ConnsOf(k) = ConnsOf(channel[n])
    BY <2>6, <2>7 DEF MembersTold
  <2>10. UNCHANGED <<registered, inChannel, handler, challengeTimers, counts>>
    BY <1>1, <1>3
  <2>11. CASE Locals(k) = {}
    <3>1. SetChannel(n, rest) /\ waitTimers' = waitTimers /\ waitTimers \subseteq WaitTimer
      BY <1>2, <2>1, <2>2, <2>11 DEF TypeOK
    <3>2. /\ ChannelOK(n, rest) /\ Locals(rest) = {}
          /\ ConnsOf(rest) = ConnsOf(channel[n])
      BY <2>2, <2>9, <2>11
    <3>3. StaysTimed(n, rest)
      BY <2>2, <2>5, <2>7, <2>8, <3>1 DEF StaysTimed
    <3> QED BY <1>3, <1>4, <2>9, <2>10, <3>1, <3>2, <3>3, ReceiveStep
  <2>12. CASE Locals(k) # {}
    <3>1. /\ SetChannel(n, back) /\ waitTimers \subseteq WaitTimer
          /\ waitTimers' = waitTimers \cup WaitTimerOf(n, back)
      BY <1>2, <2>1, <2>2, <2>12 DEF TypeOK
    <3>2. back.waitGen \in Nat
      BY <2>3 DEF ChannelOK, Channel
    <3>3. [node |-> n, gen |-> back.waitGen] \in WaitTimer
      BY <3>2 DEF WaitTimer
    <3>4. /\ [node |-> n, gen |-> back.waitGen] \in waitTimers'
          /\ waitTimers \subseteq waitTimers' /\ waitTimers' \subseteq WaitTimer
      BY <2>2, <2>3, <2>12, <3>1, <3>3, WaitTimerOfIs
    <3>5. StaysTimed(n, back)
      BY <2>3, <2>5, <2>8, <3>4 DEF StaysTimed
    <3>6. ConnsOf(back) = ConnsOf(channel[n]) /\ back.state # "ACTIVE"
      BY <2>3, <2>9
    <3> QED BY <1>3, <1>4, <2>3, <2>9, <2>10, <3>1, <3>5, <3>6, ReceiveStep
  <2> QED BY <2>11, <2>12
<1> QED BY <1>5, <1>6

-----------------------------------------------------------------------------
(* Faults *)

LEMMA StepLose ==
  ASSUME CInv, NEW n \in Nodes, Lose(n)
  PROVE  CInv'
<1>1. /\ TypeOK /\ bus[n] # << >> /\ bus' = Popped(n)
      /\ counts' = [counts EXCEPT !.faults = @ + 1]
      /\ UNCHANGED <<channel, registered, inChannel, handler, challengeTimers,
                     waitTimers, deletes, view>>
  BY DEF CInv, Lose, Fault
<1>2. bus' \in [Nodes -> Seq(Message)]
  <2>1. bus \in [Nodes -> Seq(Message)] /\ bus[n] \in Seq(Message)
    BY <1>1 DEF TypeOK
  <2>2. Tail(bus[n]) \in Seq(Message)
    BY <1>1, <2>1
  <2> QED BY <1>1, <2>1, <2>2 DEF Popped
<1>3. counts' \in [joins : [Conns -> Nat], late : Nat, faults : Nat, cut : BOOLEAN]
  BY <1>1, CountsIs
<1>4. TypeOK'
  BY <1>1, <1>2, <1>3 DEF TypeOK
<1> QED BY <1>1, <1>4, QuietStep

LEMMA StepKeyExpires ==
  ASSUME CInv, KeyExpires
  PROVE  CInv'
<1>1. /\ TypeOK /\ registered' = FALSE /\ counts' = [counts EXCEPT !.faults = @ + 1]
      /\ UNCHANGED <<channel, bus, inChannel, handler, challengeTimers, waitTimers,
                     deletes, view>>
  BY DEF CInv, KeyExpires, Fault
<1>2. counts' \in [joins : [Conns -> Nat], late : Nat, faults : Nat, cut : BOOLEAN]
  BY <1>1, CountsIs
<1>3. TypeOK'
  BY <1>1, <1>2 DEF TypeOK
<1> QED BY <1>1, <1>3, QuietStep

\* Nothing of the node is left, and its clients know that they are out; what the
\* other nodes wait for is their own.
LEMMA StepRestart ==
  ASSUME CInv, NEW n \in Nodes, Restart(n)
  PROVE  CInv'
<1> DEFINE here == {c \in Conns : Home[c] = n}
<1>1. /\ TypeOK /\ NodeOK(n) /\ SetChannel(n, NoChannel)
      /\ counts' = [counts EXCEPT !.faults = @ + 1]
      /\ bus' = [bus EXCEPT ![n] = << >>] /\ inChannel' = inChannel \ here
      /\ handler' = [c \in Conns |-> IF c \in here /\ counts.joins[c] > 0
                                     THEN At("closed") ELSE handler[c]]
      /\ challengeTimers' = [c \in Conns |-> IF c \in here THEN 0
                                             ELSE challengeTimers[c]]
      /\ waitTimers' = {t \in waitTimers : t.node # n}
      /\ deletes' = {d \in deletes : d.node # n}
      /\ view' = [c \in Conns |-> IF c \in here THEN Note("out") ELSE view[c]]
      /\ registered' = registered
  BY DEF CInv, Restart, Fault
<1>2. /\ channel' \in [Nodes -> Channel] /\ channel'[n] = NoChannel
      /\ \A m \in Nodes : m # n => channel'[m] = channel[m]
  BY <1>1, Nil, SetChannelIs DEF TypeOK
<1>3. TypeOK'
  <2>1. counts' \in [joins : [Conns -> Nat], late : Nat, faults : Nat, cut : BOOLEAN]
    BY <1>1, CountsIs
  <2>2. bus' \in [Nodes -> Seq(Message)]
    BY <1>1 DEF TypeOK
  <2>3. At("closed") \in Handler
    BY DEF At, Handler
  <2>4. handler' \in [Conns -> Handler]
    BY <1>1, <2>3 DEF TypeOK
  <2>5. challengeTimers' \in [Conns -> Nat] /\ view' \in [Conns -> Notice]
    BY <1>1, NoteIs DEF TypeOK
  <2> QED BY <1>1, <1>2, <2>1, <2>2, <2>4, <2>5 DEF TypeOK
<1>4. IsFiniteSet(deletes')
  <2>1. deletes' \in SUBSET deletes
    BY <1>1
  <2> QED BY <2>1, FS_Subset DEF CInv
<1>5. OnlyAt(n)
  BY <1>1, <1>2 DEF OnlyAt
<1>6. ChannelOK(n, channel'[n]) /\ ShownAt(n)' /\ IndexedAt(n)' /\ TimedAt(n)'
  BY <1>1, <1>2, EmptyOK, Nil DEF ShownAt, IndexedAt, TimedAt
<1>7. ToldAt(n)'
  <2> SUFFICES ASSUME NEW c \in Conns, Home[c] = n
               PROVE  /\ view'[c].type \notin Believing
                      /\ handler'[c].at = "unregistering" /\ handler'[c].to # NoConn =>
                           Home[handler'[c].to] = n
    BY DEF ToldAt
  <2>1. view'[c].type = "out"
    BY <1>1, NoteIs
  <2>2. handler'[c].at = "closed" \/ handler'[c] = handler[c]
    BY <1>1 DEF At
  <2> QED BY <1>1, <2>1, <2>2 DEF NodeOK, ToldAt, Believing
<1>8. NodeOK(n)'
  BY <1>6, <1>7 DEF NodeOK
<1> QED BY <1>3, <1>4, <1>5, <1>8, EveryNode

-----------------------------------------------------------------------------
(* The theorems *)

LEMMA CInvInit ==
  ASSUME Init
  PROVE  CInv
<1>1. TypeOK
  <2>1. At("reading") \in Handler /\ << >> \in Seq(Message)
    BY DEF At, Handler
  <2>2. counts \in [joins : [Conns -> Nat], late : Nat, faults : Nat, cut : BOOLEAN]
    BY DEF Init
  <2> QED BY <2>1, <2>2, Nil, NoteIs DEF Init, TypeOK
<1>2. IsFiniteSet(deletes)
  BY FS_EmptySet DEF Init
<1>3. ASSUME NEW n \in Nodes
      PROVE  NodeOK(n)
  <2>1. channel[n] = NoChannel
    BY DEF Init
  <2>2. ChannelOK(n, channel[n]) /\ ShownAt(n) /\ IndexedAt(n)
    BY <2>1, EmptyOK DEF ShownAt, IndexedAt
  <2>3. TimedAt(n)
    BY <2>1, Nil DEF Init, TimedAt
  <2>4. ToldAt(n)
    <3>1. \A c \in Conns : handler[c].at = "reading" /\ view[c].type = "out"
      BY NoteIs DEF Init, At
    <3> QED BY <3>1 DEF ToldAt, Believing
  <2> QED BY <2>2, <2>3, <2>4 DEF NodeOK
<1> QED BY <1>1, <1>2, <1>3 DEF CInv

LEMMA CInvStep ==
  ASSUME CInv, [Next]_vars
  PROVE  CInv'
<1>1. ASSUME NEW c \in Conns, Serve(c)
      PROVE  CInv'
  <2>1. CASE JoinFirst(c) \/ JoinSecond(c)
    BY <2>1, StepJoinFirst, StepJoinSecond
  <2>2. CASE HandleResponse(c) \/ HandleRelay(c)
    BY <2>2, StepHandleResponse, StepHandleRelay
  <2>3. CASE HandleLeave(c) \/ FinishLeave(c)
    BY <2>3, StepHandleLeave, StepFinishLeave
  <2>4. CASE HandleVerifyRejected(c)
    BY <2>4, StepVerifyRejected
  <2>5. CASE CloseConn(c) \/ UnregisterConn(c) \/ Unregister(c)
    BY <2>5, StepCloseConn, StepUnregisterConn, StepUnregister
  <2>6. CASE ChallengeTimeout(c)
    BY <2>6, StepChallengeTimeout
  <2> QED BY <1>1, <2>1, <2>2, <2>3, <2>4, <2>5, <2>6 DEF Serve
<1>2. ASSUME Background
      PROVE  CInv'
  BY <1>2, StepWaitPeerTimeout, StepDeferredDelete, StepDeferredUnregister DEF Background
<1>3. ASSUME NEW n \in Nodes, Receive(n)
      PROVE  CInv'
  BY <1>3, StepRemoteJoinNotify, StepRemoteResponse, StepRemoteRelay,
     StepRemotePeerLeft DEF Receive
<1>4. ASSUME NEW n \in Nodes, Lose(n) \/ Restart(n)
      PROVE  CInv'
  BY <1>4, StepLose, StepRestart
<1>5. CASE KeyExpires
  BY <1>5, StepKeyExpires
<1>6. CASE UNCHANGED vars
  <2>1. TypeOK'
    BY <1>6 DEF CInv, TypeOK, vars
  <2> QED BY <1>6, <2>1, QuietStep DEF vars
<1> QED BY <1>1, <1>2, <1>3, <1>4, <1>5, <1>6 DEF Next

\* CInv holds in every state, whatever the nodes, the order of their messages,
\* the messages lost and the nodes restarted.
THEOREM CrossInductive == Spec => []CInv
<1>1. Init => CInv
  BY CInvInit
<1>2. CInv /\ [Next]_vars => CInv'
  BY CInvStep
<1> QED BY <1>1, <1>2, PTL DEF Spec

\* Every variable keeps the shape of what it stands for.
THEOREM CrossTypeCorrect == Spec => []TypeOK
<1>1. CInv => TypeOK
  BY DEF CInv
<1> QED BY <1>1, CrossInductive, PTL

\* However the messages of other nodes interleave with joins, evictions and
\* timers here, a node's state fits the members it has.
THEOREM CrossStateFits == Spec => []StateFitsMembers
<1>1. CInv => StateFitsMembers
  <2> SUFFICES ASSUME CInv, NEW n \in Nodes
               PROVE  /\ channel[n].state \in {"NONE", "WAIT_PEER"} =>
                           Members(channel[n]) # Slot
                      /\ channel[n].state = "ACTIVE" /\ Locals(channel[n]) # {} =>
                           Members(channel[n]) = Slot
                      /\ Members(channel[n]) = Slot =>
                           channel[n].peers[0].id # channel[n].peers[1].id
    BY DEF StateFitsMembers
  <2>1. ChannelOK(n, channel[n])
    BY DEF CInv, NodeOK
  <2>2. channel[n].state = "NONE" => Members(channel[n]) = {}
    BY <2>1, EmptyOK DEF ChannelOK
  <2> QED BY <2>1, <2>2 DEF ChannelOK, Slot
<1> QED BY <1>1, CrossInductive, PTL

\* handleRemoteResponse and handleResponse make a channel ACTIVE for the peers
\* that it has: no member goes on trusting a stub that was replaced.
THEOREM CrossActiveVerified == Spec => []ActiveMeansVerified
<1>1. CInv => ActiveMeansVerified
  BY DEF CInv, NodeOK, ShownAt, ActiveMeansVerified
<1> QED BY <1>1, CrossInductive, PTL

\* No node's channel waits without a timer, or a goroutine that deletes it.
THEOREM CrossWaitTimed == Spec => []WaitIsTimed
<1>1. CInv => WaitIsTimed
  BY DEF CInv, NodeOK, TimedAt, WaitIsTimed
<1> QED BY <1>1, CrossInductive, PTL

\* A client of a node that still serves has the seat it believes in, in the
\* Channel of the node's table, until it is told otherwise; the deletion of an
\* emptied Channel and a stranger's rejection, which drop it unheard, are marked.
THEOREM CrossEvictedTold == Spec => []EvictedAreTold
<1>1. CInv => EvictedAreTold
  <2> SUFFICES ASSUME CInv, NEW c \in Conns, Open(c), Serving(Home[c]),
                      view[c].type \in Believing
               PROVE  c \in ConnsOf(channel[Home[c]]) \/ Announced(c)
    BY DEF EvictedAreTold, Believing, Announced
  <2>1. Home[c] \in Nodes
    BY Nil
  <2> QED BY <2>1 DEF CInv, NodeOK, ToldAt
<1> QED BY <1>1, CrossInductive, PTL

-----------------------------------------------------------------------------
(* Two nodes at rest: messages under way                                    *)

\* What is under way to a node: join_notify, the ones that ask for a reply,
\* answers to challenges, departures.
Joins == {e \in Message : e.type = "join_notify"}
Asks == {e \in Joins : ~e.reply}
Answers == {e \in Message : e.type = "response"}
Leaves == {e \in Message : e.type = "peer_left"}

Contains(q, E) == \E i \in DOMAIN q : q[i] \in E

\* There is one of E with none of L after it.
After(q, E, L) == \E i \in DOMAIN q : q[i] \in E /\ \A j \in DOMAIN q : j > i => q[j] \notin L

LEMMA NothingIs ==
  ASSUME NEW E, NEW L
  PROVE  ~Contains(<< >>, E) /\ ~After(<< >>, E, L)
BY DEF Contains, After

LEMMA OneIs ==
  ASSUME NEW e, NEW E, NEW L
  PROVE  /\ Contains(<<e>>, E) <=> e \in E
         /\ After(<<e>>, E, L) <=> e \in E
<1>1. DOMAIN <<e>> = {1} /\ <<e>>[1] = e
  OBVIOUS
<1> QED BY <1>1 DEF Contains, After

LEMMA ConcatContains ==
  ASSUME NEW q \in Seq(Message), NEW r \in Seq(Message), NEW E
  PROVE  Contains(q \o r, E) <=> Contains(q, E) \/ Contains(r, E)
<1>1. /\ DOMAIN (q \o r) = 1..(Len(q) + Len(r)) /\ DOMAIN q = 1..Len(q)
      /\ DOMAIN r = 1..Len(r) /\ Len(q) \in Nat /\ Len(r) \in Nat
  OBVIOUS
<1>2. /\ \A i \in DOMAIN q : i \in DOMAIN (q \o r) /\ (q \o r)[i] = q[i]
      /\ \A i \in DOMAIN r : Len(q) + i \in DOMAIN (q \o r) /\ (q \o r)[Len(q) + i] = r[i]
  BY <1>1
<1>3. \A i \in DOMAIN (q \o r) :
        i \in DOMAIN q \/ (i - Len(q) \in DOMAIN r /\ i = Len(q) + (i - Len(q)))
  BY <1>1
<1> QED BY <1>2, <1>3 DEF Contains

LEMMA ConcatAfter ==
  ASSUME NEW q \in Seq(Message), NEW r \in Seq(Message), NEW E, NEW L
  PROVE  After(q \o r, E, L) <=> After(r, E, L) \/ (After(q, E, L) /\ ~Contains(r, L))
<1> DEFINE n == Len(q)
<1>1. /\ DOMAIN (q \o r) = 1..(n + Len(r)) /\ DOMAIN q = 1..n
      /\ DOMAIN r = 1..Len(r) /\ n \in Nat /\ Len(r) \in Nat
  OBVIOUS
<1>2. /\ \A i \in DOMAIN q : i \in DOMAIN (q \o r) /\ (q \o r)[i] = q[i]
      /\ \A i \in DOMAIN r : n + i \in DOMAIN (q \o r) /\ (q \o r)[n + i] = r[i]
  BY <1>1
<1>3. \A i \in DOMAIN (q \o r) :
        i \in DOMAIN q \/ (i - n \in DOMAIN r /\ i = n + (i - n))
  BY <1>1
<1>4. ASSUME After(q \o r, E, L)
      PROVE  After(r, E, L) \/ (After(q, E, L) /\ ~Contains(r, L))
  <2>1. PICK i \in DOMAIN (q \o r) :
          (q \o r)[i] \in E /\ \A j \in DOMAIN (q \o r) : j > i => (q \o r)[j] \notin L
    BY <1>4 DEF After
  <2>2. CASE i \in DOMAIN q
    <3>1. \A j \in DOMAIN r : n + j > i
      BY <1>1, <2>2
    <3>2. ~Contains(r, L)
      BY <1>2, <2>1, <3>1 DEF Contains
    <3> QED BY <1>2, <2>1, <2>2, <3>2 DEF After
  <2>3. CASE i - n \in DOMAIN r /\ i = n + (i - n)
    <3>1. \A j \in DOMAIN r : j > i - n => n + j > i
      BY <1>1, <2>3
    <3>2. r[i - n] \in E
      BY <1>2, <2>1, <2>3
    <3>3. \A j \in DOMAIN r : j > i - n => r[j] \notin L
      BY <1>2, <2>1, <3>1
    <3> QED BY <2>3, <3>2, <3>3 DEF After
  <2> QED BY <1>3, <2>2, <2>3
<1>5. ASSUME After(r, E, L)
      PROVE  After(q \o r, E, L)
  <2>1. PICK i \in DOMAIN r : r[i] \in E /\ \A j \in DOMAIN r : j > i => r[j] \notin L
    BY <1>5 DEF After
  <2>2. \A j \in DOMAIN (q \o r) : j > n + i => j - n \in DOMAIN r /\ j - n > i /\ j = n + (j - n)
    BY <1>1
  <2>3. \A j \in DOMAIN (q \o r) : j > n + i => (q \o r)[j] \notin L
    <3> TAKE j \in DOMAIN (q \o r)
    <3> HAVE j > n + i
    <3>1. j - n \in DOMAIN r /\ j - n > i /\ j = n + (j - n)
      BY <2>2
    <3>2. (q \o r)[n + (j - n)] = r[j - n]
      BY <1>2, <3>1
    <3> QED BY <2>1, <3>1, <3>2
  <2> QED BY <1>2, <2>1, <2>3 DEF After
<1>6. ASSUME After(q, E, L), ~Contains(r, L)
      PROVE  After(q \o r, E, L)
  <2>1. PICK i \in DOMAIN q : q[i] \in E /\ \A j \in DOMAIN q : j > i => q[j] \notin L
    BY <1>6 DEF After
  <2>2. \A j \in DOMAIN (q \o r) : j > i => (q \o r)[j] \notin L
    <3> TAKE j \in DOMAIN (q \o r)
    <3> HAVE j > i
    <3>1. CASE j \in DOMAIN q
      BY <1>2, <2>1, <3>1
    <3>2. CASE j - n \in DOMAIN r /\ j = n + (j - n)
      <4>1. (q \o r)[n + (j - n)] = r[j - n]
        BY <1>2, <3>2
      <4> QED BY <1>6, <3>2, <4>1 DEF Contains
    <3> QED BY <1>3, <3>1, <3>2
  <2> QED BY <1>2, <2>1, <2>2 DEF After
<1> QED BY <1>4, <1>5, <1>6

LEMMA HeadContains ==
  ASSUME NEW q \in Seq(Message), q # << >>, NEW E, NEW L
  PROVE  /\ Contains(q, E) <=> Head(q) \in E \/ Contains(Tail(q), E)
         /\ After(q, E, L) <=>
              After(Tail(q), E, L) \/ (Head(q) \in E /\ ~Contains(Tail(q), L))
<1>1. q = <<Head(q)>> \o Tail(q) /\ <<Head(q)>> \in Seq(Message) /\ Tail(q) \in Seq(Message)
  OBVIOUS
<1> DEFINE h == <<Head(q)>>
           t == Tail(q)
<1>2. /\ Contains(h, E) <=> Head(q) \in E
      /\ After(h, E, L) <=> Head(q) \in E
  BY OneIs
<1>3. h \in Seq(Message) /\ t \in Seq(Message) /\ q = h \o t
  BY <1>1
<1> HIDE DEF h, t
<1>4. Contains(h \o t, E) <=> Contains(h, E) \/ Contains(t, E)
  BY <1>3, ConcatContains
<1>5. After(h \o t, E, L) <=> After(t, E, L) \/ (After(h, E, L) /\ ~Contains(t, L))
  BY <1>3, ConcatAfter
<1>6. /\ Contains(q, E) <=> Head(q) \in E \/ Contains(t, E)
      /\ After(q, E, L) <=> After(t, E, L) \/ (Head(q) \in E /\ ~Contains(t, L))
  BY <1>2, <1>3, <1>4, <1>5
<1> QED BY <1>6 DEF t

-----------------------------------------------------------------------------
(* What is said of peers on other nodes comes from there                    *)

\* The ids of the clients that are not connected to n.
Foreign(n) == {IdOf[c] : c \in {d \in Conns : Home[d] # n}}

Strays(n) == {e \in Message : e.id \notin Foreign(n)}

\* What n may publish.
Own(n) == {e \in Message : \E c \in Conns : Home[c] = n /\ IdOf[c] = e.id}

\* Who is challenged was told so.
ChallengedAt(n) ==
  channel[n].state = "CHALLENGING" =>
    \A c \in ConnsOf(channel[n]) :
      Open(c) => view[c].type \in {"challenge", "verify_rejected"}

ForeignAt(n) ==
  /\ ~Contains(bus[n], Strays(n))
  /\ \A s \in Stubs(channel[n]) : channel[n].peers[s].id \in Foreign(n)

\* Two answers do not stay: they make the channel ACTIVE.
AInv == CInv /\ \A n \in Nodes : ForeignAt(n) /\ ~Verified(channel[n]) /\ ChallengedAt(n)

-----------------------------------------------------------------------------
(* Channels that have a local member and a stub                             *)

Both(k) == Locals(k) # {} /\ Stubs(k) # {}

\* The local member has answered.
Ready(k) == Both(k) /\ (k.state = "ACTIVE" \/ \E s \in Locals(k) : k.peers[s].answered)

\* The answer of the other node's member has come.
Holding(k) == k.state = "ACTIVE" \/ \E s \in Stubs(k) : k.peers[s].answered

\* k2 comes of k without a new member, and forgets an answer of the other node
\* only with a member.
Tame(k, k2) ==
  /\ Locals(k2) # {} => Locals(k) # {}
  /\ \A s \in Stubs(k2) : \E r \in Stubs(k) : k2.peers[s].id = k.peers[r].id
  /\ ~Verified(k2)
  /\ Both(k2) /\ Holding(k) => Holding(k2)

LEMMA TameSame ==
  ASSUME NEW k, ~Verified(k)
  PROVE  Tame(k, k)
BY DEF Tame

LEMMA TameGone ==
  ASSUME NEW k, NEW k2, \A s \in Slot : k2.peers[s] = NoPeer
  PROVE  Tame(k, k2) /\ ~Both(k2) /\ ~Ready(k2) /\ Stubs(k2) = {} /\ Locals(k2) = {}
<1>1. Members(k2) = {} /\ Locals(k2) = {} /\ Stubs(k2) = {}
  BY Nil DEF Members, Locals, Stubs
<1>2. ~Verified(k2)
  BY Nil DEF Verified, Slot
<1> QED BY <1>1, <1>2 DEF Tame, Both, Ready

LEMMA StubsAre ==
  ASSUME NEW n, NEW k, ChannelOK(n, k), NEW s
  PROVE  /\ s \in Stubs(k) <=> s \in Slot /\ k.peers[s].id # NoId /\ k.peers[s].conn = NoConn
         /\ s \in Members(k) <=> s \in Locals(k) \/ s \in Stubs(k)
BY SlotIs, Nil DEF Stubs, Members, Locals

\* A local member is taken out.
LEMMA TameWithout ==
  ASSUME NEW n, NEW k, ChannelOK(n, k), NEW s \in Locals(k)
  PROVE  /\ Tame(k, Without(k, s)) /\ ~Both(Without(k, s)) /\ ~Ready(Without(k, s))
         /\ Stubs(Without(k, s)) = Stubs(k)
         /\ Locals(k) # {}
<1> DEFINE w == Without(k, s)
           rest == [k EXCEPT !.peers[s] = NoPeer]
<1>1. s \in Slot /\ s \in Members(k)
  BY SlotIs DEF Locals
<1>2. /\ ChannelOK(n, w) /\ Members(w) = Members(k) \ {s}
      /\ Locals(w) = Locals(k) \ {s}
  BY <1>1, WithoutOK
<1>3. /\ rest \in Channel
      /\ \A r \in Slot : rest.peers[r] = IF r = s THEN NoPeer ELSE k.peers[r]
  BY <1>1, Nil DEF ChannelOK, Channel
<1>4. \A r \in Slot : PeerOK(n, rest.peers[r])
  BY <1>3 DEF ChannelOK, PeerOK
<1>5. \A r \in Slot : /\ w.peers[r].id = rest.peers[r].id
                      /\ w.peers[r].answered => rest.peers[r].answered
  <2>1. CASE Members(rest) = {}
    BY <2>1 DEF Without
  <2>2. CASE Members(rest) # {}
    <3> DEFINE b == BackToWait(rest)
    <3>1. b \in Channel /\ b.peers = rest.peers
      BY <1>3, BackIs
    <3>2. w = Unanswered(b)
      BY <2>2 DEF Without
    <3> HIDE DEF b, rest, w
    <3>3. \A r \in Slot : PeerOK(n, b.peers[r])
      BY <1>4, <3>1
    <3> QED BY <3>1, <3>2, <3>3, UnansweredIs, ZenonT(30)
  <2> QED BY <2>1, <2>2
<1> HIDE DEF w, rest
<1>6. Stubs(w) = Stubs(k)
  BY <1>2 DEF Stubs
<1>7. ~Verified(w)
  BY <1>1, <1>3, <1>5, Nil DEF Verified
<1>8. ~Both(w)
  BY <1>2, <1>6 DEF Both, Stubs, Locals, Members, Slot
<1>9. \A r \in Stubs(w) : w.peers[r].id = k.peers[r].id
  BY <1>1, <1>3, <1>5, <1>6 DEF Stubs, Members
<1> QED BY <1>1, <1>2, <1>6, <1>7, <1>8, <1>9 DEF Tame, Ready, w

\* An answer is noted, and the channel is ACTIVE if it was the second.
LEMMA TameAnswer ==
  ASSUME NEW n \in Nodes, TypeOK, NEW k, ChannelOK(n, k), NEW s \in Members(k),
         Answer(n, [k EXCEPT !.peers[s].answered = TRUE])
  PROVE  /\ Tame(k, channel'[n]) /\ (Holding(channel'[n]) \/ s \notin Stubs(k))
         /\ Locals(channel'[n]) = Locals(k) /\ Stubs(channel'[n]) = Stubs(k)
         /\ ConnsOf(channel'[n]) = ConnsOf(k)
         /\ s \in Stubs(k) => (Ready(channel'[n]) => Ready(k))
         /\ \A m \in Nodes : m # n => channel'[m] = channel[m]
         /\ \/ view' = view /\ channel'[n].state = k.state
            \/ channel'[n].state = "ACTIVE"
<1> DEFINE a == [k EXCEPT !.peers[s].answered = TRUE]
           v == [Unanswered(a) EXCEPT !.state = "ACTIVE"]
<1>1. s \in Slot
  BY DEF Members
<1>2. /\ ChannelOK(n, a) /\ a.state = k.state
      /\ \A r \in Slot : /\ a.peers[r].id = k.peers[r].id
                         /\ a.peers[r].conn = k.peers[r].conn
      /\ Members(a) = Members(k) /\ Locals(a) = Locals(k) /\ ConnsOf(a) = ConnsOf(k)
  BY <1>1, NotedOK
<1>3. \A r \in Slot : a.peers[r].answered = IF r = s THEN TRUE ELSE k.peers[r].answered
  <2>1. k \in Channel /\ k.peers \in [Slot -> Peer]
    BY DEF ChannelOK, Channel
  <2>2. k.peers[s] \in [id : Ids, conn : Conns \cup {NoConn}, answered : BOOLEAN]
    BY <1>1, SlotIs
  <2>3. a.peers = [k.peers EXCEPT ![s] = [k.peers[s] EXCEPT !.answered = TRUE]]
    BY <2>1 DEF Channel
  <2> DEFINE p == [k.peers[s] EXCEPT !.answered = TRUE]
  <2>4. p.answered = TRUE
    BY <2>2
  <2>5. a.peers = [k.peers EXCEPT ![s] = p]
    BY <2>3
  <2> HIDE DEF p, a
  <2>6. \A r \in Slot : a.peers[r] = IF r = s THEN p ELSE k.peers[r]
    BY <1>1, <2>1, <2>5
  <2> QED BY <2>4, <2>6
<1>4. Stubs(a) = Stubs(k)
  BY <1>2 DEF Stubs
<1> HIDE DEF a
<1>5. CASE ~Verified(a)
  <2>1. SetChannel(n, a) /\ view' = view
    BY <1>5 DEF Answer, a
  <2>2. channel'[n] = a /\ \A m \in Nodes : m # n => channel'[m] = channel[m]
    BY <1>2, <2>1, SetChannelIs DEF ChannelOK, TypeOK
  <2>3. Tame(k, a)
    BY <1>2, <1>3, <1>4, <1>5 DEF Tame, Holding, Stubs, Members
  <2>4. Holding(a) \/ s \notin Stubs(k)
    BY <1>1, <1>3, <1>4 DEF Holding
  <2>5. s \in Stubs(k) => (Ready(a) => Ready(k))
    BY <1>2, <1>3, <1>4 DEF Ready, Both, Stubs, Locals
  <2> QED BY <1>2, <1>4, <2>1, <2>2, <2>3, <2>4, <2>5
<1>6. CASE Verified(a)
  <2>1. SetChannel(n, v)
    BY <1>6 DEF Answer, a
  <2>2. /\ ChannelOK(n, v) /\ v.state = "ACTIVE"
        /\ \A r \in Slot : /\ v.peers[r].id = a.peers[r].id
                           /\ v.peers[r].conn = a.peers[r].conn
        /\ Members(v) = Slot /\ Locals(v) = Locals(a) /\ ConnsOf(v) = ConnsOf(a)
    BY <1>2, <1>6, VerifiedOK
  <2>3. \A r \in Slot : v.peers[r].answered = FALSE
    <3> DEFINE u == Unanswered(a)
    <3>1. a \in Channel /\ \A r \in Slot : PeerOK(n, a.peers[r])
      BY <1>2 DEF ChannelOK
    <3>2. u \in Channel /\ \A r \in Slot : u.peers[r].answered = FALSE
      BY <3>1, UnansweredIs
    <3>3. v = [u EXCEPT !.state = "ACTIVE"]
      OBVIOUS
    <3> HIDE DEF u, v
    <3>4. v.peers = u.peers
      BY <3>2, <3>3 DEF Channel
    <3> QED BY <3>2, <3>4
  <2> HIDE DEF v
  <2>4. channel'[n] = v /\ \A m \in Nodes : m # n => channel'[m] = channel[m]
    BY <2>1, <2>2, SetChannelIs DEF ChannelOK, TypeOK
  <2>5. Members(a) = Slot
    BY <1>2, <1>6, SlotIs DEF Verified, Members
  <2>6. Stubs(v) = Stubs(k) /\ Locals(v) = Locals(k) /\ ConnsOf(v) = ConnsOf(k)
    BY <1>2, <1>4, <2>2, <2>5 DEF Stubs
  <2>7. ~Verified(v) /\ Holding(v)
    BY <2>2, <2>3 DEF Verified, Holding, Slot
  <2>8. Tame(k, v)
    BY <1>2, <2>2, <2>6, <2>7 DEF Tame, Stubs, Members
  <2>9. s \in Stubs(k) => (Ready(v) => Ready(k))
    <3> SUFFICES ASSUME s \in Stubs(k), Both(v)
                 PROVE  Ready(k)
      BY DEF Ready
    <3>1. \A r \in Locals(k) : r # s /\ r \in Slot
      BY DEF Stubs, Locals
    <3>2. \A r \in Locals(k) : k.peers[r].answered
      BY <1>3, <1>6, <3>1 DEF Verified
    <3> QED BY <2>6, <3>2 DEF Both, Ready
  <2> QED BY <2>2, <2>4, <2>6, <2>7, <2>8, <2>9
<1> QED BY <1>5, <1>6

-----------------------------------------------------------------------------
(* Two clients that keep to their nodes                                     *)

Populated(n) == \E c \in Conns : Home[c] = n

LEMMA TwoClients ==
  ASSUME Settled, NEW c \in Conns, NEW d \in Conns, Home[c] # Home[d]
  PROVE  /\ IdOf[c] # IdOf[d]
         /\ \A e \in Conns : \/ Home[e] = Home[c] /\ IdOf[e] = IdOf[c]
                             \/ Home[e] = Home[d] /\ IdOf[e] = IdOf[d]
BY DEF Settled

\* To a node with clients there is one id elsewhere, and it is not theirs.
LEMMA OneForeign ==
  ASSUME Settled, NEW x
  PROVE  /\ \A c \in Conns : Home[c] = x => IdOf[c] \notin Foreign(x)
         /\ Populated(x) => \A i, j \in Foreign(x) : i = j
<1>1. \A c \in Conns : Home[c] = x => IdOf[c] \notin Foreign(x)
  BY DEF Settled, Foreign
<1>2. ASSUME NEW c \in Conns, Home[c] = x, NEW i \in Foreign(x), NEW j \in Foreign(x)
      PROVE  i = j
  <2>1. PICK d \in Conns : Home[d] # x /\ IdOf[d] = i
    BY DEF Foreign
  <2>2. PICK e \in Conns : Home[e] # x /\ IdOf[e] = j
    BY DEF Foreign
  <2> QED BY <1>2, <2>1, <2>2, TwoClients
<1> QED BY <1>1, <1>2 DEF Populated

\* A third node has no clients.
LEMMA NoThird ==
  ASSUME Settled, NEW m, NEW n, NEW x, m # n, x # m, x # n, Populated(m), Populated(n)
  PROVE  ~Populated(x) /\ Own(x) = {}
<1>1. PICK c \in Conns : Home[c] = m
  BY DEF Populated
<1>2. PICK d \in Conns : Home[d] = n
  BY DEF Populated
<1>3. ~Populated(x)
  BY <1>1, <1>2, TwoClients DEF Populated
<1> QED BY <1>3 DEF Populated, Own

LEMMA LocalsPopulate ==
  ASSUME NEW n, NEW k, ChannelOK(n, k), Locals(k) # {}
  PROVE  Populated(n)
<1>1. PICK s \in Slot : s \in Locals(k)
  BY DEF Locals
<1> QED BY <1>1, SlotIs DEF Populated

\* The members that a node with clients has: at most one stub, and at most one
\* client of its own.
LEMMA StubAndLocal ==
  ASSUME Settled, NEW n, NEW k, ChannelOK(n, k), Populated(n),
         \A s \in Stubs(k) : k.peers[s].id \in Foreign(n), NEW i \in Foreign(n)
  PROVE  /\ \A s \in Stubs(k) : k.peers[s].id = i
         /\ \A s, r \in Stubs(k) : s = r
         /\ \A s \in Locals(k) : k.peers[s].id # i
         /\ \A s, r \in Locals(k) : s = r
<1>1. \A s \in Stubs(k) : k.peers[s].id = i /\ s \in Slot /\ s \in Members(k)
  BY OneForeign DEF Stubs, Members
<1>2. \A s \in Locals(k) :
        /\ s \in Slot /\ s \in Members(k) /\ k.peers[s].conn \in Conns
        /\ Home[k.peers[s].conn] = n /\ IdOf[k.peers[s].conn] = k.peers[s].id
  BY SlotIs DEF Locals
<1>3. \A s \in Locals(k) : k.peers[s].id # i
  BY <1>2, OneForeign
<1>4. \A s, r \in Locals(k) : k.peers[s].id = k.peers[r].id
  <2>1. PICK d \in Conns : Home[d] # n /\ IdOf[d] = i
    BY DEF Foreign
  <2> QED BY <1>2, <2>1, TwoClients
<1>5. \A s, r \in Members(k) : k.peers[s].id = k.peers[r].id => s = r
  BY DEF ChannelOK, Members, Slot
<1> QED BY <1>1, <1>2, <1>3, <1>4, <1>5

-----------------------------------------------------------------------------
(* Where the meeting of two nodes and their agreement stand                 *)

\* An emptied Channel, or the registration of one, is being removed.
Busy ==
  \/ deletes # {}
  \/ \E c \in Conns : handler[c].at \in {"leaving", "unregistering"}

\* n has a stub, or is about to.
HasNote(n, M) ==
  \/ After(bus[n], M, Leaves)
  \/ Stubs(channel[n]) # {} /\ ~Contains(bus[n], Leaves)

\* While m has a member: the next join on n will find out, and if n has a member
\* too, m has heard of it or is about to hear.
MeetAt(m, n) ==
  Locals(channel[m]) # {} =>
    /\ registered \/ HasNote(n, Asks)
    /\ Locals(channel[n]) # {} => HasNote(m, Joins) \/ Contains(bus[n], Asks)

\* While the member of m has answered: m will be challenged anew, or n has the
\* answer, or is about to have it, or is about to lose the member.
AgreeAt(m, n) ==
  Ready(channel[m]) =>
    \/ Contains(bus[m], Joins)
    \/ After(bus[n], Answers, Joins)
    \/ /\ ~Contains(bus[n], Joins)
       /\ Both(channel[n]) => Contains(bus[n], Leaves) \/ Holding(channel[n])

MeetInv ==
  Settled /\ counts.faults = 0 /\ ~counts.cut /\ ~Busy =>
    \A m, n \in Nodes : m # n /\ Populated(n) => MeetAt(m, n)

AgreeInv ==
  Settled /\ counts.faults = 0 =>
    \A m, n \in Nodes : m # n /\ Populated(n) => AgreeAt(m, n)

-----------------------------------------------------------------------------
(* Steps of one node                                                        *)

\* A step of x, by which the other nodes are sent msgs.
Sends(x, msgs) ==
  /\ msgs \in Seq(Own(x))
  /\ \A m \in Nodes : m # x => channel'[m] = channel[m] /\ bus'[m] = bus[m] \o msgs
  /\ \A c \in Conns : Home[c] # x => handler'[c] = handler[c] /\ view'[c] = view[c]

LEMMA OwnIs ==
  ASSUME NEW x, NEW msgs \in Seq(Own(x))
  PROVE  /\ msgs \in Seq(Message)
         /\ \A m : m # x => ~Contains(msgs, Strays(m))
         /\ Own(x) = {} => msgs = << >>
<1>1. Own(x) \subseteq Message
  BY DEF Own
<1>2. \A i \in DOMAIN msgs : msgs[i] \in Own(x)
  OBVIOUS
<1>3. \A m : m # x => \A e \in Own(x) : e \notin Strays(m)
  BY DEF Own, Strays, Foreign
<1>4. msgs \in Seq(Message)
  BY <1>1, <1>2
<1>5. ASSUME Own(x) = {}
      PROVE  msgs = << >>
  <2>1. DOMAIN msgs = 1..Len(msgs) /\ Len(msgs) \in Nat
    OBVIOUS
  <2>2. ~(1 \in DOMAIN msgs)
    BY <1>2, <1>5
  <2>3. Len(msgs) = 0
    BY <2>1, <2>2
  <2> QED BY <2>3
<1> QED BY <1>2, <1>3, <1>4, <1>5 DEF Contains

\* Nothing changes for two nodes with clients when it is a third one's step.
LEMMA ThirdIdle ==
  ASSUME CInv, Settled, NEW x, NEW msgs, Sends(x, msgs), NEW m \in Nodes, NEW n \in Nodes,
         m # n, x # m, x # n, Populated(m), Populated(n)
  PROVE  /\ channel'[m] = channel[m] /\ channel'[n] = channel[n]
         /\ bus'[m] = bus[m] /\ bus'[n] = bus[n]
<1>1. msgs = << >>
  <2>1. Own(x) = {}
    BY NoThird
  <2>2. msgs \in Seq(Own(x))
    BY DEF Sends
  <2> QED BY <2>1, <2>2, OwnIs
<1>2. bus[m] \in Seq(Message) /\ bus[n] \in Seq(Message)
  BY DEF CInv, TypeOK
<1>3. bus[m] \o << >> = bus[m] /\ bus[n] \o << >> = bus[n]
  BY <1>2
<1> QED BY <1>1, <1>3 DEF Sends

\* What is under way to x stays so; but it may have a response from now on.
Kept(x) ==
  /\ Contains(bus'[x], Strays(x)) => Contains(bus[x], Strays(x))
  /\ Contains(bus'[x], Joins) <=> Contains(bus[x], Joins)
  /\ Contains(bus'[x], Asks) <=> Contains(bus[x], Asks)
  /\ Contains(bus'[x], Leaves) <=> Contains(bus[x], Leaves)
  /\ After(bus[x], Joins, Leaves) => After(bus'[x], Joins, Leaves)
  /\ After(bus[x], Asks, Leaves) => After(bus'[x], Asks, Leaves)
  /\ Settled /\ After(bus[x], Answers, Joins) =>
       \/ After(bus'[x], Answers, Joins)
       \/ ~Contains(bus'[x], Joins) /\ (Both(channel'[x]) => Holding(channel'[x]))

\* The registration stays, and a removal goes on, until no node has a member, or
\* one has lost its registration.
Calm ==
  \/ registered' = registered /\ (Busy => Busy')
  \/ counts'.cut
  \/ \A m \in Nodes : Locals(channel'[m]) = {}

\* A step by which no member joins and none but a local one goes.
Tamely(x, msgs) ==
  /\ Sends(x, msgs) /\ Kept(x) /\ Calm /\ ChallengedAt(x)'
  /\ Tame(channel[x], channel'[x])
  /\ ~Contains(msgs, Joins)
  /\ Locals(channel'[x]) # {} => ~Contains(msgs, Leaves)
  /\ Settled /\ Ready(channel'[x]) => Ready(channel[x]) \/ Contains(msgs, Answers)
  /\ Stubs(channel[x]) # {} => Stubs(channel'[x]) # {} \/ Busy'
  /\ counts'.faults = counts.faults /\ (counts.cut => counts'.cut)

\* What a step of x adds to what is under way to others.
LEMMA SentIs ==
  ASSUME CInv, NEW x, NEW msgs, Sends(x, msgs), NEW m \in Nodes, m # x, NEW E, NEW L
  PROVE  /\ Contains(bus'[m], E) <=> Contains(bus[m], E) \/ Contains(msgs, E)
         /\ After(bus'[m], E, L) <=>
              After(msgs, E, L) \/ (After(bus[m], E, L) /\ ~Contains(msgs, L))
<1>1. bus[m] \in Seq(Message) /\ bus'[m] = bus[m] \o msgs
  BY DEF CInv, TypeOK, Sends
<1>2. msgs \in Seq(Message)
  BY OwnIs DEF Sends
<1> QED BY <1>1, <1>2, ConcatContains, ConcatAfter

\* The other nodes hear nothing strange of x.
LEMMA ForeignStep ==
  ASSUME CInv, NEW x, NEW msgs, Sends(x, msgs), NEW m \in Nodes, m # x, AInv
  PROVE  ForeignAt(m)' /\ ~Verified(channel'[m]) /\ ChallengedAt(m)'
<1>1. ~Contains(bus'[m], Strays(m))
  <2>1. ~Contains(msgs, Strays(m)) /\ ~Contains(bus[m], Strays(m))
    BY OwnIs DEF Sends, AInv, ForeignAt
  <2> QED BY <2>1, SentIs
<1>2. channel'[m] = channel[m]
  BY DEF Sends
<1>3. \A c \in ConnsOf(channel[m]) : handler'[c] = handler[c] /\ view'[c] = view[c]
  BY ConnsAre DEF CInv, NodeOK, Sends
<1>4. \A c \in ConnsOf(channel[m]) : Open(c)' => Open(c)
  BY <1>3 DEF Open
<1>5. ForeignAt(m)'
  BY <1>1, <1>2 DEF AInv, ForeignAt, Foreign, Strays
<1>6. ChallengedAt(m)'
  BY <1>2, <1>3, <1>4 DEF AInv, ChallengedAt
<1> QED BY <1>2, <1>5, <1>6 DEF AInv

LEMMA ApartStep ==
  ASSUME AInv, CInv', NEW x \in Nodes, NEW msgs, Sends(x, msgs),
         ForeignAt(x)', ~Verified(channel'[x]), ChallengedAt(x)'
  PROVE  AInv'
BY ForeignStep DEF AInv

LEMMA TameApart ==
  ASSUME AInv, CInv', NEW x \in Nodes, NEW msgs, Tamely(x, msgs)
  PROVE  AInv'
<1>1. \A s \in Stubs(channel'[x]) : channel'[x].peers[s].id \in Foreign(x)
  BY DEF AInv, ForeignAt, Tamely, Tame
<1>2. ForeignAt(x)'
  BY <1>1 DEF AInv, ForeignAt, Tamely, Kept, Foreign, Strays
<1> QED BY <1>2, ApartStep DEF Tamely, Tame

LEMMA TameMeet ==
  ASSUME CInv, CInv', NEW x \in Nodes, NEW msgs, Tamely(x, msgs), MeetInv
  PROVE  MeetInv'
<1> SUFFICES ASSUME Settled, counts'.faults = 0, ~counts'.cut, ~Busy',
                    NEW m \in Nodes, NEW n \in Nodes, m # n, Populated(n),
                    Locals(channel'[m]) # {}
             PROVE  /\ registered' \/ HasNote(n, Asks)'
                    /\ Locals(channel'[n]) # {} =>
                         HasNote(m, Joins)' \/ Contains(bus'[n], Asks)
  BY DEF MeetInv, MeetAt, Settled, Populated, Asks, Joins
<1>0. Sends(x, msgs) /\ \A k \in Nodes : k # x => channel'[k] = channel[k]
  BY DEF Tamely, Sends
<1>1. registered' = registered /\ ~Busy
  BY DEF Tamely, Calm
<1>2. \A k \in Nodes : Locals(channel'[k]) # {} => Locals(channel[k]) # {}
  BY DEF Tamely, Tame, Sends
<1>3. /\ registered \/ HasNote(n, Asks)
      /\ Locals(channel[n]) # {} => HasNote(m, Joins) \/ Contains(bus[n], Asks)
  BY <1>1, <1>2 DEF MeetInv, MeetAt, Tamely
<1>4. Populated(m)
  BY <1>2, LocalsPopulate DEF CInv, NodeOK
<1>5. CASE x # m /\ x # n
  <2>1. /\ channel'[m] = channel[m] /\ channel'[n] = channel[n]
        /\ bus'[m] = bus[m] /\ bus'[n] = bus[n]
    BY <1>4, <1>5, ThirdIdle DEF Tamely
  <2> QED BY <1>1, <1>3, <2>1 DEF HasNote, Asks, Joins, Leaves
<1>6. CASE x = m
  <2>1. ~Contains(msgs, Leaves)
    BY <1>6 DEF Tamely
  <2>2. /\ Contains(bus[n], Asks) => Contains(bus'[n], Asks)
        /\ Contains(bus'[n], Leaves) => Contains(bus[n], Leaves)
        /\ After(bus[n], Asks, Leaves) => After(bus'[n], Asks, Leaves)
        /\ channel'[n] = channel[n]
    BY <1>0, <1>6, <2>1, SentIs
  <2>3. HasNote(n, Asks) => HasNote(n, Asks)'
    BY <2>2 DEF HasNote, Asks, Joins, Leaves
  <2>4. HasNote(m, Joins) => HasNote(m, Joins)'
    BY <1>6 DEF HasNote, Tamely, Kept, Joins, Leaves
  <2> QED BY <1>1, <1>2, <1>3, <2>2, <2>3, <2>4
<1>7. CASE x = n
  <2>1. HasNote(n, Asks) => HasNote(n, Asks)'
    BY <1>7 DEF HasNote, Tamely, Kept, Asks, Joins, Leaves
  <2>2. Contains(bus[n], Asks) => Contains(bus'[n], Asks)
    BY <1>7 DEF Tamely, Kept
  <2>3. ASSUME Locals(channel'[n]) # {}, HasNote(m, Joins)
        PROVE  HasNote(m, Joins)'
    <3>1. ~Contains(msgs, Leaves)
      BY <1>7, <2>3 DEF Tamely
    <3>2. /\ Contains(bus'[m], Leaves) => Contains(bus[m], Leaves)
          /\ After(bus[m], Joins, Leaves) => After(bus'[m], Joins, Leaves)
          /\ channel'[m] = channel[m]
      BY <1>0, <1>7, <3>1, SentIs
    <3> QED BY <2>3, <3>2 DEF HasNote, Joins, Leaves
  <2> QED BY <1>1, <1>2, <1>3, <2>1, <2>2, <2>3
<1> QED BY <1>5, <1>6, <1>7

LEMMA TameAgree ==
  ASSUME CInv, CInv', NEW x \in Nodes, NEW msgs, Tamely(x, msgs), AgreeInv
  PROVE  AgreeInv'
<1> SUFFICES ASSUME Settled, counts'.faults = 0, NEW m \in Nodes, NEW n \in Nodes,
                    m # n, Populated(n), Ready(channel'[m])
             PROVE  \/ Contains(bus'[m], Joins)
                    \/ After(bus'[n], Answers, Joins)
                    \/ /\ ~Contains(bus'[n], Joins)
                       /\ Both(channel'[n]) =>
                            Contains(bus'[n], Leaves) \/ Holding(channel'[n])
  BY DEF AgreeInv, AgreeAt, Settled, Populated, Answers, Joins, Leaves
<1>0. Sends(x, msgs) /\ \A k \in Nodes : k # x => channel'[k] = channel[k]
  BY DEF Tamely, Sends
<1>1. Populated(m)
  BY LocalsPopulate DEF CInv, NodeOK, Ready, Both
<1>2. AgreeAt(m, n)
  BY DEF AgreeInv, Tamely
<1>3. CASE x # m /\ x # n
  <2>1. /\ channel'[m] = channel[m] /\ channel'[n] = channel[n]
        /\ bus'[m] = bus[m] /\ bus'[n] = bus[n]
    BY <1>1, <1>3, ThirdIdle DEF Tamely
  <2> QED BY <1>2, <2>1 DEF AgreeAt
<1>4. CASE x = m
  <2>0. ~Contains(msgs, Joins)
    BY DEF Tamely
  <2>1. /\ Contains(bus'[n], Joins) => Contains(bus[n], Joins)
        /\ Contains(bus[n], Leaves) => Contains(bus'[n], Leaves)
        /\ After(bus[n], Answers, Joins) => After(bus'[n], Answers, Joins)
        /\ After(msgs, Answers, Joins) => After(bus'[n], Answers, Joins)
        /\ channel'[n] = channel[n]
    BY <1>0, <1>4, <2>0, SentIs
  <2>2. CASE Contains(msgs, Answers)
    <3>1. After(msgs, Answers, Joins)
      BY <2>2 DEF Tamely, After, Contains
    <3> QED BY <2>1, <3>1
  <2>3. CASE Ready(channel[m])
    <3>1. Contains(bus[m], Joins) => Contains(bus'[m], Joins)
      BY <1>4 DEF Tamely, Kept
    <3> QED BY <1>2, <2>1, <2>3, <3>1 DEF AgreeAt
  <2> QED BY <1>4, <2>2, <2>3 DEF Tamely
<1>5. CASE x = n
  <2>1. /\ Contains(bus[m], Joins) => Contains(bus'[m], Joins)
        /\ channel'[m] = channel[m]
    BY <1>0, <1>5, SentIs
  <2>2. /\ Both(channel'[n]) => Both(channel[n])
        /\ Both(channel'[n]) /\ Holding(channel[n]) => Holding(channel'[n])
    BY <1>5 DEF Tamely, Tame, Both
  <2>3. /\ Contains(bus'[n], Joins) => Contains(bus[n], Joins)
        /\ Contains(bus[n], Leaves) => Contains(bus'[n], Leaves)
        /\ After(bus[n], Answers, Joins) =>
             \/ After(bus'[n], Answers, Joins)
             \/ ~Contains(bus'[n], Joins) /\ (Both(channel'[n]) => Holding(channel'[n]))
    BY <1>5 DEF Tamely, Kept
  <2> QED BY <1>2, <2>1, <2>2, <2>3 DEF AgreeAt
<1> QED BY <1>3, <1>4, <1>5

-----------------------------------------------------------------------------
(* Steps by which a member joins or is announced, or a stub goes            *)

LEMMA NotifyIs ==
  ASSUME NEW t \in {"join_notify", "response", "relay", "peer_left"}, NEW i \in Ids
  PROVE  /\ Remote(t, i) \in Message /\ Reply(i) \in Message
         /\ Remote(t, i).type = t /\ Remote(t, i).id = i /\ Remote(t, i).reply = FALSE
         /\ Reply(i).type = "join_notify" /\ Reply(i).id = i /\ Reply(i).reply = TRUE
         /\ Remote(t, i) \in Joins <=> t = "join_notify"
         /\ Remote(t, i) \in Asks <=> t = "join_notify"
         /\ Remote(t, i) \in Answers <=> t = "response"
         /\ Remote(t, i) \in Leaves <=> t = "peer_left"
         /\ Reply(i) \in Joins /\ Reply(i) \notin Leaves /\ Reply(i) \notin Asks
BY DEF Remote, Reply, Message, Joins, Asks, Answers, Leaves

\* What a join publishes.
LEMMA JoinNoteIs ==
  ASSUME NEW c \in Conns
  PROVE  LET note == Remote("join_notify", IdOf[c]) IN
         /\ note \in Message /\ note.id = IdOf[c] /\ note \in Joins /\ note \in Asks
         /\ note \notin Leaves
<1> DEFINE note == Remote("join_notify", IdOf[c])
<1>1. IdOf[c] \in Ids
  BY Nil
<1>2. note \in Message /\ note.id = IdOf[c]
  BY <1>1 DEF Remote, Message
<1>3. note \in Joins /\ note \in Asks /\ note \notin Leaves
  BY <1>1, <1>2 DEF Remote, Joins, Asks, Leaves
<1> QED BY <1>2, <1>3

\* One message of one of x's clients, or none.
LEMMA OneSent ==
  ASSUME NEW c \in Conns, NEW e \in Message, e.id = IdOf[c], NEW E, NEW L
  PROVE  /\ <<e>> \in Seq(Own(Home[c])) /\ << >> \in Seq(Own(Home[c]))
         /\ Contains(<<e>>, E) <=> e \in E
         /\ After(<<e>>, E, L) <=> e \in E
         /\ ~Contains(<< >>, E) /\ ~After(<< >>, E, L)
<1>1. e \in Own(Home[c])
  BY DEF Own
<1>2. <<e>> \in Seq(Own(Home[c])) /\ << >> \in Seq(Own(Home[c]))
  BY <1>1
<1>3. /\ Contains(<<e>>, E) <=> e \in E
      /\ After(<<e>>, E, L) <=> e \in E
  BY OneIs
<1> QED BY <1>2, <1>3, NothingIs

\* A publication of n, which may have taken a message from its own channel.
LEMMA SendsIs ==
  ASSUME CInv, NEW n \in Nodes, NEW msgs \in Seq(Own(n)), NEW box,
         Publish(n, box, msgs), \A m \in Nodes : m # n => box[m] = bus[m],
         \A m \in Nodes : m # n => channel'[m] = channel[m],
         \A c \in Conns : Home[c] # n => handler'[c] = handler[c] /\ view'[c] = view[c]
  PROVE  Sends(n, msgs) /\ bus'[n] = box[n]
BY DEF Sends, Publish

LEMMA NothingSent ==
  ASSUME CInv, NEW n, UNCHANGED bus,
         \A m \in Nodes : m # n => channel'[m] = channel[m],
         \A c \in Conns : Home[c] # n => handler'[c] = handler[c] /\ view'[c] = view[c]
  PROVE  Sends(n, << >>)
<1>1. \A m \in Nodes : bus[m] \o << >> = bus[m]
  BY DEF CInv, TypeOK
<1> QED BY <1>1 DEF Sends

\* Who is told something is a client of n.
LEMMA TellHere ==
  ASSUME NEW n, NEW f, Tell(f), TypeOK, \A c \in DOMAIN f : c \in Conns => Home[c] = n
  PROVE  \A c \in Conns : Home[c] # n => view'[c] = view[c]
BY DEF Tell

LEMMA OpenedPeers ==
  ASSUME CInv, NEW n \in Nodes
  PROVE  /\ Opened(n).peers = channel[n].peers
         /\ Stubs(Opened(n)) = Stubs(channel[n]) /\ Members(Opened(n)) = Members(channel[n])
         /\ Locals(Opened(n)) = Locals(channel[n])
<1>1. ChannelOK(n, channel[n])
  BY DEF CInv, NodeOK
<1>2. Opened(n).peers = channel[n].peers
  <2>1. CASE Mapped(n)
    BY <2>1 DEF Opened
  <2>2. CASE ~Mapped(n)
    BY <1>1, <2>2, Nil DEF Opened, Mapped, ChannelOK, NoChannel
  <2> QED BY <2>1, <2>2
<1> QED BY <1>2 DEF Stubs, Members, Locals

\* Who was replaced is a client of the node.
LEMMA ReplacedHere ==
  ASSUME CInv, NEW n \in Nodes, NEW i
  PROVE  \A d \in Replaced(Opened(n), i) : d \in Conns /\ Home[d] = n
BY OpenedOK, ConnsAre DEF Replaced

LEMMA AfterReplacementPeers ==
  ASSUME CInv, NEW n \in Nodes, NEW i \in Ids
  PROVE  LET a == AfterReplacement(Opened(n), i) IN
         /\ \A s \in Slot : a.peers[s] = IF s \in Named(channel[n], i) THEN NoPeer
                                         ELSE channel[n].peers[s]
         /\ \A s \in Stubs(a) : s \in Stubs(channel[n])
         /\ Members(a) = Members(channel[n]) \ Named(channel[n], i)
<1> DEFINE k == Opened(n)
           a == AfterReplacement(k, i)
<1>1. k.peers = channel[n].peers
  BY OpenedPeers
<1>2. k \in Channel
  BY OpenedOK DEF ChannelOK
<1> HIDE DEF k
<1>3. \A s \in Slot : a.peers[s] = IF s \in Named(k, i) THEN NoPeer ELSE k.peers[s]
  BY <1>2 DEF AfterReplacement, Channel
<1> HIDE DEF a
<1>4. \A s \in Slot : a.peers[s] = IF s \in Named(channel[n], i) THEN NoPeer
                                   ELSE channel[n].peers[s]
  BY <1>1, <1>3 DEF Named
<1>5. Members(a) = Members(channel[n]) \ Named(channel[n], i)
  BY <1>4, Nil DEF Members
<1>6. \A s \in Stubs(a) : s \in Stubs(channel[n])
  BY <1>4, <1>5, Nil DEF Stubs, Members, Locals
<1> QED BY <1>4, <1>5, <1>6 DEF a, k

LEMMA CountsKept ==
  ASSUME NEW c \in Conns, Joining(c), TypeOK
  PROVE  counts'.faults = counts.faults /\ counts'.cut = counts.cut
BY DEF Joining, TypeOK

LEMMA JoinFirstIs ==
  ASSUME CInv, NEW c \in Conns, JoinFirst(c)
  PROVE  LET x == Home[c]
             msgs == IF registered THEN <<Remote("join_notify", IdOf[c])>> ELSE << >>
         IN
         /\ Sends(x, msgs) /\ bus'[x] = bus[x] /\ registered'
         /\ Stubs(channel'[x]) = {} /\ channel'[x].state = "WAIT_PEER"
         /\ ~Verified(channel'[x])
         /\ \A s \in Stubs(channel[x]) : channel[x].peers[s].id = IdOf[c]
<1> DEFINE x == Home[c]
           k == AfterReplacement(Opened(x), IdOf[c])
           seated == [BackToWait(k) EXCEPT !.peers[0] = Local(IdOf[c], c)]
           old == Replaced(Opened(x), IdOf[c])
           notices == [d \in old \cup {c} |-> IF d = c THEN Note("challenge")
                                              ELSE Note("out")]
           note == Remote("join_notify", IdOf[c])
           msgs == IF registered THEN <<note>> ELSE << >>
<1>1. x \in Nodes /\ TypeOK /\ IdOf[c] \in Ids
  BY Nil DEF CInv
<1>2. /\ Members(k) = {} /\ SetChannel(x, seated) /\ RegisterChannelPeer(c)
      /\ Tell(notices) /\ UNCHANGED handler
  BY DEF JoinFirst, Joining
<1>3. /\ k \in Channel /\ k.obj # 0
      /\ \A s \in Slot : PeerOK(x, k.peers[s])
  <2>1. ChannelOK(x, Opened(x)) /\ Opened(x).obj # 0
    BY <1>1, OpenedOK DEF ChannelOK
  <2> QED BY <1>1, <2>1, AfterReplacementIs
<1>4. \A s \in Stubs(channel[x]) : channel[x].peers[s].id = IdOf[c]
  <2>1. Members(channel[x]) \ Named(channel[x], IdOf[c]) = {}
    BY <1>1, <1>2, AfterReplacementPeers
  <2> QED BY <2>1 DEF Stubs, Named, Members
<1>5. \A c2 \in Conns : Home[c2] # x => handler'[c2] = handler[c2] /\ view'[c2] = view[c2]
  <2>1. \A d \in DOMAIN notices : d \in Conns => Home[d] = x
    BY <1>1, ReplacedHere
  <2> HIDE DEF notices
  <2> QED BY <1>1, <1>2, <2>1, TellHere
<1> HIDE DEF k
<1>6. ChannelOK(x, seated) /\ seated.state = "WAIT_PEER"
  BY <1>2, <1>3, FirstOK
<1>7. \A s \in Slot : seated.peers[s].conn = IF s = 0 THEN c ELSE k.peers[s].conn
  BY <1>3, BackIs DEF Local, Channel, Slot
<1>8. \A s \in Slot : k.peers[s] = NoPeer
  BY <1>2, <1>3, Nil DEF Members, PeerOK
<1>9. \A s \in Slot : s # 0 => seated.peers[s] = NoPeer
  BY <1>3, <1>8, BackIs DEF Channel
<1>10. Stubs(seated) = {} /\ ~Verified(seated)
  <2>1. seated.peers[1] = NoPeer /\ 1 \in Slot
    BY <1>9 DEF Slot
  <2>2. 0 \in Locals(seated)
    BY <1>7, Nil DEF Locals, Slot
  <2>3. 1 \notin Members(seated)
    BY <2>1, Nil DEF Members
  <2>4. ~Verified(seated)
    BY <2>1, Nil DEF Verified
  <2> QED BY <2>2, <2>3, <2>4 DEF Stubs, Members, Slot
<1> HIDE DEF seated
<1>11. channel'[x] = seated /\ \A m \in Nodes : m # x => channel'[m] = channel[m]
  BY <1>1, <1>2, <1>6, SetChannelIs DEF TypeOK, ChannelOK
<1>12. note \in Message /\ note.id = IdOf[c]
  BY JoinNoteIs
<1> HIDE DEF note
<1>13. <<note>> \in Seq(Own(x))
  BY <1>12, OneSent
<1>14. Sends(x, msgs) /\ bus'[x] = bus[x] /\ registered'
  <2>1. CASE registered
    <3>1. Publish(x, bus, <<note>>) /\ registered'
      BY <1>2, <2>1 DEF RegisterChannelPeer, note
    <3>2. Sends(x, <<note>>) /\ bus'[x] = bus[x]
      <4> DEFINE q == <<note>>
      <4>1. q \in Seq(Own(x)) /\ Publish(x, bus, q)
        BY <1>13, <3>1
      <4> HIDE DEF q, x
      <4>2. Sends(x, q) /\ bus'[x] = bus[x]
        BY <1>1, <1>5, <1>11, <4>1, SendsIs
      <4> QED BY <4>2 DEF q, x
    <3> QED BY <2>1, <3>1, <3>2
  <2>2. CASE ~registered
    <3>1. UNCHANGED bus /\ registered'
      BY <1>2, <2>2 DEF RegisterChannelPeer
    <3> QED BY <1>5, <1>11, <2>2, <3>1, NothingSent
  <2> QED BY <2>1, <2>2
<1> QED BY <1>4, <1>6, <1>10, <1>11, <1>14 DEF note

\* What JoinSecond makes of a Channel with one member, slot by slot.
LEMMA SecondPeers ==
  ASSUME NEW c \in Conns, NEW a \in Channel, Cardinality(Members(a)) = 1,
         \A s \in Slot : PeerOK(Home[c], a.peers[s]) /\ a.peers[s].id # IdOf[c]
  PROVE  LET k == [Unanswered(a) EXCEPT !.state = "CHALLENGING",
                     !.peers[First(Slot \ Members(a))] = Local(IdOf[c], c)] IN
         /\ Members(k) = Slot /\ Stubs(k) = Stubs(a)
         /\ \A s \in Slot : k.peers[s].answered = FALSE
         /\ \A s \in Stubs(k) : k.peers[s].id = a.peers[s].id
<1> DEFINE u == Unanswered(a)
           f == First(Slot \ Members(a))
           k == [u EXCEPT !.state = "CHALLENGING", !.peers[f] = Local(IdOf[c], c)]
<1>1. PICK m \in Slot : Members(a) = {m}
  <2>1. Members(a) \in SUBSET (0..1)
    BY DEF Members, Slot
  <2>2. IsFiniteSet(Members(a))
    BY <2>1, FS_Interval, FS_Subset
  <2>3. \E m : Members(a) = {m}
    BY <2>2, FS_Singleton
  <2> QED BY <2>3 DEF Members
<1>2. f \in Slot /\ f # m /\ \A s \in Slot : s = f \/ s = m
  BY <1>1 DEF First, Slot
<1>3. /\ u \in Channel /\ Members(u) = Members(a) /\ Locals(u) = Locals(a)
      /\ \A s \in Slot : /\ u.peers[s].answered = FALSE
                         /\ u.peers[s].id = a.peers[s].id
                         /\ u.peers[s].conn = a.peers[s].conn
  BY UnansweredIs
<1> HIDE DEF u, f
<1>4. \A s \in Slot : k.peers[s] = IF s = f THEN Local(IdOf[c], c) ELSE u.peers[s]
  BY <1>2, <1>3 DEF Channel
<1> HIDE DEF k
<1>5. /\ Local(IdOf[c], c).id = IdOf[c] /\ Local(IdOf[c], c).conn = c
      /\ Local(IdOf[c], c).answered = FALSE /\ IdOf[c] # NoId /\ c # NoConn
  BY Nil DEF Local
<1>6. \A s \in Slot : k.peers[s].answered = FALSE
  BY <1>3, <1>4, <1>5
<1>7. Members(k) = Slot
  BY <1>1, <1>2, <1>3, <1>4, <1>5 DEF Members
<1>8. Stubs(k) = Stubs(a) /\ \A s \in Stubs(k) : k.peers[s].id = a.peers[s].id
  BY <1>1, <1>2, <1>3, <1>4, <1>5, <1>7 DEF Stubs, Locals
<1> QED BY <1>6, <1>7, <1>8 DEF k, u, f

LEMMA JoinSecondIs ==
  ASSUME CInv, NEW c \in Conns, JoinSecond(c)
  PROVE  LET x == Home[c]
             k == channel'[x]
             msgs == IF Stubs(k) = {} THEN << >> ELSE <<Remote("join_notify", IdOf[c])>>
         IN
         /\ Sends(x, msgs) /\ bus'[x] = bus[x] /\ registered' = registered
         /\ k.state = "CHALLENGING" /\ c \in ConnsOf(k) /\ Members(k) = Slot
         /\ \A s \in Slot : k.peers[s].answered = FALSE
         /\ \A s \in Stubs(k) : s \in Stubs(channel[x]) /\ k.peers[s].id = channel[x].peers[s].id
         /\ ChallengedAt(x)'
<1> DEFINE x == Home[c]
           k == AfterReplacement(Opened(x), IdOf[c])
           seated == [Unanswered(k) EXCEPT !.state = "CHALLENGING",
                                           !.peers[First(Slot \ Members(k))] =
                                              Local(IdOf[c], c)]
           old == Replaced(Opened(x), IdOf[c])
           notices == [d \in old \cup ConnsOf(seated) |->
                         IF d \in ConnsOf(seated) THEN Note("challenge") ELSE Note("out")]
           note == Remote("join_notify", IdOf[c])
           msgs == IF Stubs(k) = {} THEN << >> ELSE <<note>>
<1>1. x \in Nodes /\ TypeOK /\ IdOf[c] \in Ids
  BY Nil DEF CInv
<1>2. /\ Cardinality(Members(k)) = 1 /\ SetChannel(x, seated)
      /\ Publish(x, bus, msgs) /\ Tell(notices) /\ UNCHANGED <<registered, handler>>
  BY DEF JoinSecond, Joining
<1>3. /\ k \in Channel /\ k.obj # 0
      /\ \A s \in Slot : PeerOK(x, k.peers[s]) /\ k.peers[s].id # IdOf[c]
  <2>1. ChannelOK(x, Opened(x)) /\ Opened(x).obj # 0
    BY <1>1, OpenedOK DEF ChannelOK
  <2> QED BY <1>1, <2>1, AfterReplacementIs
<1>4. \A s \in Stubs(k) : s \in Stubs(channel[x]) /\ k.peers[s].id = channel[x].peers[s].id
  <2>1. /\ \A s \in Slot : k.peers[s] = IF s \in Named(channel[x], IdOf[c]) THEN NoPeer
                                        ELSE channel[x].peers[s]
        /\ \A s \in Stubs(k) : s \in Stubs(channel[x])
    BY <1>1, AfterReplacementPeers
  <2>2. \A s \in Stubs(k) : s \in Slot /\ k.peers[s].id # NoId
    BY DEF Stubs, Members
  <2> QED BY <2>1, <2>2, Nil
<1> HIDE DEF k
<1>5. /\ ChannelOK(x, seated) /\ seated.state = "CHALLENGING"
      /\ ConnsOf(seated) = ConnsOf(k) \cup {c}
  BY <1>2, <1>3, SecondOK
<1>6. /\ Members(seated) = Slot /\ Stubs(seated) = Stubs(k)
      /\ \A s \in Slot : seated.peers[s].answered = FALSE
      /\ \A s \in Stubs(seated) : seated.peers[s].id = k.peers[s].id
  BY <1>2, <1>3, SecondPeers
<1> HIDE DEF seated
<1>7. channel'[x] = seated /\ \A m \in Nodes : m # x => channel'[m] = channel[m]
  BY <1>1, <1>2, <1>5, SetChannelIs DEF TypeOK, ChannelOK
<1>8. \A c2 \in Conns : Home[c2] # x => handler'[c2] = handler[c2] /\ view'[c2] = view[c2]
  <2>1. \A d \in DOMAIN notices : d \in Conns => Home[d] = x
    BY <1>1, <1>5, ReplacedHere, ConnsAre
  <2> HIDE DEF notices
  <2> QED BY <1>1, <1>2, <2>1, TellHere
<1>9. ChallengedAt(x)'
  <2>1. \A d \in ConnsOf(seated) : d \in Conns
    BY <1>5, ConnsAre
  <2>2. \A d \in ConnsOf(seated) : Open(d)' => view'[d].type = "challenge"
    BY <1>2, <2>1, NoteIs DEF Tell, Open
  <2> QED BY <1>7, <2>2 DEF ChallengedAt
<1>10. note \in Message /\ note.id = IdOf[c]
  BY JoinNoteIs
<1> HIDE DEF note
<1>11. msgs \in Seq(Own(x))
  BY <1>10, OneSent
<1>12. Sends(x, msgs) /\ bus'[x] = bus[x]
  <2> HIDE DEF msgs, x
  <2> QED BY <1>1, <1>2, <1>7, <1>8, <1>11, SendsIs
<1> QED BY <1>2, <1>4, <1>5, <1>6, <1>7, <1>9, <1>12 DEF note

\* The first member on a node: it is registered, and if it had been, the other
\* node hears of it.
LEMMA FirstMeet ==
  ASSUME AInv, CInv', NEW c \in Conns, JoinFirst(c), MeetInv
  PROVE  MeetInv'
<1> DEFINE x == Home[c]
           note == Remote("join_notify", IdOf[c])
           msgs == IF registered THEN <<note>> ELSE << >>
<1> SUFFICES ASSUME Settled, counts'.faults = 0, ~counts'.cut, ~Busy',
                    NEW m \in Nodes, NEW n \in Nodes, m # n, Populated(n),
                    Locals(channel'[m]) # {}
             PROVE  /\ registered' \/ HasNote(n, Asks)'
                    /\ Locals(channel'[n]) # {} =>
                         HasNote(m, Joins)' \/ Contains(bus'[n], Asks)
  BY DEF MeetInv, MeetAt, Settled, Populated, Asks, Joins
<1>1. CInv /\ TypeOK /\ Joining(c) /\ x \in Nodes /\ IdOf[c] \in Ids
  BY Nil DEF AInv, CInv, JoinFirst
<1>2. /\ Sends(x, msgs) /\ bus'[x] = bus[x] /\ registered'
      /\ \A s \in Stubs(channel[x]) : channel[x].peers[s].id = IdOf[c]
  BY <1>1, JoinFirstIs
<1>3. counts.faults = 0 /\ ~counts.cut /\ ~Busy
  BY <1>1, CountsKept DEF Joining, Busy
<1>4. Populated(m) /\ Populated(x)
  BY LocalsPopulate DEF CInv, NodeOK, Populated
<1>5. x = m \/ x = n
  BY <1>4, NoThird
<1>6. Stubs(channel[x]) = {}
  BY <1>1, <1>2, OneForeign DEF AInv, ForeignAt
<1>7. After(bus[x], Asks, Leaves) => Contains(bus[x], Asks) /\ After(bus[x], Joins, Leaves)
  BY DEF After, Contains, Asks
<1>8. /\ note \in Message /\ note.id = IdOf[c] /\ note \in Joins /\ note \in Asks
      /\ note \notin Leaves
  BY JoinNoteIs
<1> HIDE DEF note
<1>9. ASSUME registered, NEW o \in Nodes, o # x
      PROVE  Contains(bus'[o], Asks) /\ After(bus'[o], Joins, Leaves)
  <2>1. Contains(<<note>>, Asks) /\ After(<<note>>, Joins, Leaves)
    BY <1>8, OneSent
  <2>2. msgs = <<note>>
    BY <1>9
  <2> HIDE DEF msgs
  <2> QED BY <1>1, <1>2, <1>9, <2>1, <2>2, SentIs
<1>10. CASE x = m
  <2>1. ASSUME Locals(channel'[n]) # {}
        PROVE  HasNote(m, Joins)' \/ Contains(bus'[n], Asks)
    <3>1. Locals(channel[n]) # {}
      BY <1>2, <1>10, <2>1 DEF Sends
    <3>2. registered \/ HasNote(x, Asks)
      BY <1>3, <1>4, <1>10, <3>1 DEF MeetInv, MeetAt
    <3>3. CASE registered
      BY <1>9, <1>10, <3>3
    <3>4. CASE HasNote(x, Asks)
      BY <1>2, <1>6, <1>7, <1>10, <3>4 DEF HasNote, Joins, Leaves
    <3> QED BY <3>2, <3>3, <3>4
  <2> QED BY <1>2, <2>1
<1>11. CASE x = n
  <2>1. Locals(channel[m]) # {}
    BY <1>2, <1>11 DEF Sends
  <2>2. registered \/ HasNote(x, Asks)
    BY <1>3, <1>11, <2>1 DEF MeetInv, MeetAt
  <2>3. CASE registered
    <3>1. After(bus'[m], Joins, Leaves)
      BY <1>9, <1>11, <2>3
    <3> QED BY <1>2, <3>1 DEF HasNote, Joins, Leaves
  <2>4. CASE HasNote(x, Asks)
    BY <1>2, <1>6, <1>7, <1>11, <2>4 DEF HasNote
  <2> QED BY <2>2, <2>3, <2>4
<1> QED BY <1>5, <1>10, <1>11

LEMMA FirstAgree ==
  ASSUME CInv, CInv', NEW c \in Conns, JoinFirst(c), AgreeInv
  PROVE  AgreeInv'
<1> DEFINE x == Home[c]
           note == Remote("join_notify", IdOf[c])
           msgs == IF registered THEN <<note>> ELSE << >>
<1> SUFFICES ASSUME Settled, counts'.faults = 0, NEW m \in Nodes, NEW n \in Nodes,
                    m # n, Populated(n), Ready(channel'[m])
             PROVE  \/ Contains(bus'[m], Joins)
                    \/ After(bus'[n], Answers, Joins)
                    \/ /\ ~Contains(bus'[n], Joins)
                       /\ Both(channel'[n]) =>
                            Contains(bus'[n], Leaves) \/ Holding(channel'[n])
  BY DEF AgreeInv, AgreeAt, Settled, Populated, Answers, Joins, Leaves
<1>1. TypeOK /\ Joining(c) /\ x \in Nodes
  BY Nil DEF CInv, JoinFirst
<1>2. Sends(x, msgs) /\ bus'[x] = bus[x] /\ Stubs(channel'[x]) = {}
  BY JoinFirstIs
<1> HIDE DEF msgs
<1>3. counts.faults = 0
  BY <1>1, CountsKept
<1>4. Populated(m) /\ Populated(x) /\ x # m
  BY <1>2, LocalsPopulate DEF CInv, NodeOK, Ready, Both, Populated
<1>5. x = n
  BY <1>4, NoThird
<1>6. AgreeAt(m, n) /\ channel'[m] = channel[m]
  BY <1>2, <1>3, <1>4 DEF AgreeInv, Sends
<1>7. Contains(bus[m], Joins) => Contains(bus'[m], Joins)
  BY <1>2, <1>4, SentIs
<1> QED BY <1>2, <1>5, <1>6, <1>7 DEF AgreeAt, Both

LEMMA FirstApart ==
  ASSUME AInv, CInv', NEW c \in Conns, JoinFirst(c)
  PROVE  AInv'
<1> DEFINE x == Home[c]
           msgs == IF registered THEN <<Remote("join_notify", IdOf[c])>> ELSE << >>
<1>1. CInv /\ x \in Nodes
  BY Nil DEF AInv
<1>2. /\ Sends(x, msgs) /\ bus'[x] = bus[x] /\ Stubs(channel'[x]) = {}
      /\ channel'[x].state = "WAIT_PEER" /\ ~Verified(channel'[x])
  BY <1>1, JoinFirstIs
<1>3. ForeignAt(x)' /\ ChallengedAt(x)'
  BY <1>1, <1>2 DEF AInv, ForeignAt, ChallengedAt, Foreign, Strays
<1> HIDE DEF msgs
<1> QED BY <1>1, <1>2, <1>3, ApartStep

\* The second member on a node: if the first is a stub, its node hears of it.
LEMMA SecondMeet ==
  ASSUME AInv, CInv', NEW c \in Conns, JoinSecond(c), MeetInv
  PROVE  MeetInv'
<1> DEFINE x == Home[c]
           k == channel'[x]
           note == Remote("join_notify", IdOf[c])
           msgs == IF Stubs(k) = {} THEN << >> ELSE <<note>>
<1> SUFFICES ASSUME Settled, counts'.faults = 0, ~counts'.cut, ~Busy',
                    NEW m \in Nodes, NEW n \in Nodes, m # n, Populated(n),
                    Locals(channel'[m]) # {}
             PROVE  /\ registered' \/ HasNote(n, Asks)'
                    /\ Locals(channel'[n]) # {} =>
                         HasNote(m, Joins)' \/ Contains(bus'[n], Asks)
  BY DEF MeetInv, MeetAt, Settled, Populated, Asks, Joins
<1>1. CInv /\ TypeOK /\ Joining(c) /\ x \in Nodes /\ IdOf[c] \in Ids
  BY Nil DEF AInv, CInv, JoinSecond
<1>2. /\ Sends(x, msgs) /\ bus'[x] = bus[x] /\ registered' = registered
      /\ Members(k) = Slot
      /\ \A s \in Stubs(k) : s \in Stubs(channel[x]) /\ k.peers[s].id = channel[x].peers[s].id
  BY <1>1, JoinSecondIs
<1>3. counts.faults = 0 /\ ~counts.cut /\ ~Busy
  BY <1>1, CountsKept DEF Joining, Busy
<1>4. Populated(m) /\ Populated(x)
  BY LocalsPopulate DEF CInv, NodeOK, Populated
<1>5. x = m \/ x = n
  BY <1>4, NoThird
<1>6. Stubs(k) # {}
  <2>1. PICK i : i \in Foreign(x)
    <3>1. \E d \in Conns : Home[d] # x
      BY <1>4, <1>5 DEF Populated
    <3> QED BY <3>1 DEF Foreign
  <2>2. \A s \in Stubs(k) : k.peers[s].id \in Foreign(x)
    BY <1>1, <1>2 DEF AInv, ForeignAt
  <2>3. ChannelOK(x, k)
    BY <1>1 DEF CInv, NodeOK
  <2> HIDE DEF k, x
  <2>4. \A s, r \in Locals(k) : s = r
    BY <1>4, <2>1, <2>2, <2>3, StubAndLocal
  <2>5. Locals(k) # Slot
    BY <2>4 DEF Slot
  <2> QED BY <1>2, <2>5 DEF Stubs, Locals
<1>7. /\ note \in Message /\ note.id = IdOf[c] /\ note \in Joins /\ note \in Asks
      /\ note \notin Leaves
  BY JoinNoteIs
<1> HIDE DEF note
<1>8. ASSUME NEW o \in Nodes, o # x
      PROVE  /\ Contains(bus'[o], Asks)
             /\ After(bus'[o], Joins, Leaves) /\ After(bus'[o], Asks, Leaves)
  <2>1. Contains(<<note>>, Asks) /\ After(<<note>>, Joins, Leaves) /\ After(<<note>>, Asks, Leaves)
    BY <1>7, OneSent
  <2>2. msgs = <<note>>
    BY <1>6
  <2> HIDE DEF msgs
  <2> QED BY <1>1, <1>2, <1>8, <2>1, <2>2, SentIs
<1>9. CASE x = m
  <2>1. Contains(bus'[n], Asks) /\ After(bus'[n], Asks, Leaves)
    BY <1>8, <1>9
  <2> QED BY <2>1 DEF HasNote, Asks, Leaves
<1>10. CASE x = n
  <2>1. Locals(channel[m]) # {}
    BY <1>2, <1>10 DEF Sends
  <2>2. registered \/ HasNote(x, Asks)
    BY <1>3, <1>10, <2>1 DEF MeetInv, MeetAt
  <2>3. HasNote(x, Asks) => HasNote(x, Asks)'
    BY <1>2, <1>6 DEF HasNote, Asks, Leaves
  <2>4. After(bus'[m], Joins, Leaves)
    BY <1>8, <1>10
  <2>5. HasNote(m, Joins)'
    BY <2>4 DEF HasNote, Joins, Leaves
  <2> QED BY <1>2, <1>10, <2>2, <2>3, <2>5
<1> QED BY <1>5, <1>9, <1>10

LEMMA SecondAgree ==
  ASSUME CInv, CInv', NEW c \in Conns, JoinSecond(c), AgreeInv
  PROVE  AgreeInv'
<1> DEFINE x == Home[c]
           k == channel'[x]
           note == Remote("join_notify", IdOf[c])
           msgs == IF Stubs(k) = {} THEN << >> ELSE <<note>>
<1> SUFFICES ASSUME Settled, counts'.faults = 0, NEW m \in Nodes, NEW n \in Nodes,
                    m # n, Populated(n), Ready(channel'[m])
             PROVE  \/ Contains(bus'[m], Joins)
                    \/ After(bus'[n], Answers, Joins)
                    \/ /\ ~Contains(bus'[n], Joins)
                       /\ Both(channel'[n]) =>
                            Contains(bus'[n], Leaves) \/ Holding(channel'[n])
  BY DEF AgreeInv, AgreeAt, Settled, Populated, Answers, Joins, Leaves
<1>1. TypeOK /\ Joining(c) /\ x \in Nodes /\ IdOf[c] \in Ids
  BY Nil DEF CInv, JoinSecond
<1>2. /\ Sends(x, msgs) /\ bus'[x] = bus[x] /\ k.state = "CHALLENGING"
      /\ \A s \in Slot : k.peers[s].answered = FALSE
  BY JoinSecondIs
<1>3. counts.faults = 0
  BY <1>1, CountsKept
<1>4. Populated(m) /\ Populated(x) /\ x # m
  <2>1. x # m
    BY <1>2 DEF Ready, Locals
  <2> QED BY <2>1, LocalsPopulate DEF CInv, NodeOK, Ready, Both, Populated
<1>5. x = n
  BY <1>4, NoThird
<1>6. AgreeAt(m, n) /\ channel'[m] = channel[m]
  BY <1>2, <1>3, <1>4 DEF AgreeInv, Sends
<1>7. CASE Stubs(k) = {}
  <2> HIDE DEF msgs
  <2>1. Contains(bus[m], Joins) => Contains(bus'[m], Joins)
    BY <1>2, <1>4, SentIs
  <2> QED BY <1>2, <1>5, <1>6, <1>7, <2>1 DEF AgreeAt, Both
<1>8. CASE Stubs(k) # {}
  <2>1. note \in Message /\ note.id = IdOf[c] /\ note \in Joins
    BY JoinNoteIs
  <2> HIDE DEF note
  <2>2. Contains(<<note>>, Joins)
    BY <2>1, OneSent
  <2>3. msgs = <<note>>
    BY <1>8
  <2> HIDE DEF msgs
  <2> QED BY <1>2, <1>4, <2>2, <2>3, SentIs
<1> QED BY <1>7, <1>8

LEMMA SecondApart ==
  ASSUME AInv, CInv', NEW c \in Conns, JoinSecond(c)
  PROVE  AInv'
<1> DEFINE x == Home[c]
           k == channel'[x]
           msgs == IF Stubs(k) = {} THEN << >> ELSE <<Remote("join_notify", IdOf[c])>>
<1>1. CInv /\ x \in Nodes
  BY Nil DEF AInv
<1>2. /\ Sends(x, msgs) /\ bus'[x] = bus[x] /\ ChallengedAt(x)'
      /\ \A s \in Slot : k.peers[s].answered = FALSE
      /\ \A s \in Stubs(k) : s \in Stubs(channel[x]) /\ k.peers[s].id = channel[x].peers[s].id
  BY <1>1, JoinSecondIs
<1>3. ForeignAt(x)' /\ ~Verified(k)
  BY <1>1, <1>2 DEF AInv, ForeignAt, Foreign, Strays, Verified, Slot
<1> HIDE DEF msgs
<1> QED BY <1>1, <1>2, <1>3, ApartStep

\* What a join_notify under i makes of a Channel, slot by slot.
LEMMA RechallengedPeers ==
  ASSUME NEW n, NEW k \in Channel, NEW i, \A s \in Slot : PeerOK(n, k.peers[s])
  PROVE  LET r == Rechallenged(k, i) IN
         /\ \A s \in Slot : /\ r.peers[s].id = k.peers[s].id
                            /\ r.peers[s].conn = k.peers[s].conn
                            /\ r.peers[s].answered => k.peers[s].answered /\ s \notin Locals(k)
         /\ Members(r) = Members(k) /\ Locals(r) = Locals(k) /\ Stubs(r) = Stubs(k)
<1> DEFINE r == Rechallenged(k, i)
           kept(s) == s \notin Locals(k) \cup Named(k, i)
           f == [s \in Slot |-> [k.peers[s] EXCEPT !.answered = @ /\ kept(s)]]
<1>1. \A s \in Slot : f[s].id = k.peers[s].id /\ f[s].conn = k.peers[s].conn
  <2> TAKE s \in Slot
  <2> DEFINE v == kept(s)
             q == [k.peers[s] EXCEPT !.answered = @ /\ v]
  <2>1. f[s] = q
    OBVIOUS
  <2> HIDE DEF kept, f
  <2>2. PeerOK(n, k.peers[s]) /\ v \in BOOLEAN
    BY DEF kept
  <2> HIDE DEF v
  <2>3. q.id = k.peers[s].id /\ q.conn = k.peers[s].conn
    BY <2>2, KeptIs
  <2> QED BY <2>1, <2>3
<1>2. \A s \in Slot : f[s].answered => k.peers[s].answered /\ s \notin Locals(k)
  <2> SUFFICES ASSUME NEW s \in Slot, f[s].answered
               PROVE  k.peers[s].answered /\ s \notin Locals(k)
    OBVIOUS
  <2> DEFINE p == k.peers[s]
             v == kept(s)
             w == p.answered /\ v
             q == [p EXCEPT !.answered = w]
  <2>1. f[s] = q
    OBVIOUS
  <2>2. PeerOK(n, p)
    OBVIOUS
  <2> HIDE DEF p, w, f
  <2>3. q.answered = w
    BY <2>2 DEF PeerOK, NoPeer
  <2>4. w
    BY <2>1, <2>3
  <2> QED BY <2>4 DEF w, p
<1>3. r = [k EXCEPT !.state = "CHALLENGING", !.peers = f]
  BY DEF Rechallenged
<1> HIDE DEF f
<1>4. r.peers = f
  BY <1>3 DEF Channel
<1> HIDE DEF r
<1>5. Members(r) = Members(k) /\ Locals(r) = Locals(k) /\ Stubs(r) = Stubs(k)
  BY <1>1, <1>4 DEF Members, Locals, Stubs
<1> QED BY <1>1, <1>2, <1>4, <1>5 DEF r

LEMMA NotedStub ==
  ASSUME NEW n, NEW k, ChannelOK(n, k), NEW i \in Ids
  PROVE  LET free == Slot \ Members(k)
             noted == IF Named(k, i) # {} \/ free = {} THEN k
                      ELSE [k EXCEPT !.peers[First(free)] = Stub(i)]
             r == Rechallenged(noted, i) IN
         /\ Locals(r) = Locals(k) /\ Stubs(k) \subseteq Stubs(r)
         /\ \A s \in Slot : r.peers[s].answered => k.peers[s].answered /\ s \notin Locals(k)
         /\ \A s \in Stubs(r) : \/ r.peers[s].id = i
                                \/ s \in Stubs(k) /\ r.peers[s].id = k.peers[s].id
         /\ Named(k, i) = {} /\ Members(k) # Slot => Stubs(r) # {}
<1> DEFINE free == Slot \ Members(k)
           f == First(free)
           p == Stub(i)
           a == [k EXCEPT !.peers[f] = p]
<1>0. Members(k) \subseteq Slot
  BY DEF Members
<1>1. CASE Named(k, i) # {} \/ free = {}
  <2>1. k \in Channel /\ \A s \in Slot : PeerOK(n, k.peers[s])
    BY DEF ChannelOK
  <2> DEFINE r == Rechallenged(k, i)
  <2>2. /\ \A s \in Slot : /\ r.peers[s].id = k.peers[s].id
                           /\ r.peers[s].answered => k.peers[s].answered /\ s \notin Locals(k)
        /\ Locals(r) = Locals(k) /\ Stubs(r) = Stubs(k)
    BY <2>1, RechallengedPeers
  <2> HIDE DEF r
  <2>3. \A s \in Stubs(r) : s \in Slot
    BY DEF Stubs, Members
  <2>4. ~(Named(k, i) = {} /\ Members(k) # Slot)
    BY <1>0, <1>1
  <2>5. /\ Locals(r) = Locals(k) /\ Stubs(k) \subseteq Stubs(r)
        /\ \A s \in Slot : r.peers[s].answered => k.peers[s].answered /\ s \notin Locals(k)
        /\ \A s \in Stubs(r) : s \in Stubs(k) /\ r.peers[s].id = k.peers[s].id
    BY <2>2, <2>3
  <2> QED BY <1>1, <2>4, <2>5 DEF r
<1>2. CASE ~(Named(k, i) # {} \/ free = {})
  <2>1. f \in Slot /\ f \in free
    BY <1>2 DEF First, Slot
  <2>2. /\ p \in Peer /\ PeerOK(n, p) /\ p.id = i /\ p.conn = NoConn
        /\ p.id # NoId /\ p.answered = FALSE
    BY Nil DEF Stub, Local, Peer, PeerOK
  <2> HIDE DEF p, f
  <2>3. a \in Channel /\ a.peers = [k.peers EXCEPT ![f] = p]
    BY <2>1, <2>2 DEF Channel, ChannelOK
  <2> HIDE DEF a
  <2>4. \A s \in Slot : a.peers[s] = IF s = f THEN p ELSE k.peers[s]
    BY <2>3 DEF Channel, ChannelOK
  <2>5. \A s \in Slot : PeerOK(n, a.peers[s])
    BY <2>2, <2>4 DEF ChannelOK
  <2>6. f \notin Members(k) /\ f \notin Locals(k) /\ f \notin Stubs(k)
    BY <2>1, SlotIs DEF Stubs
  <2>7. Locals(a) = Locals(k) /\ Members(a) = Members(k) \cup {f}
    BY <2>1, <2>2, <2>4, <2>6 DEF Locals, Members
  <2>8. Stubs(a) = Stubs(k) \cup {f}
    BY <2>6, <2>7 DEF Stubs
  <2>14. a \in Channel
    BY <2>3
  <2> DEFINE r == Rechallenged(a, i)
  <2>9. /\ \A s \in Slot : /\ r.peers[s].id = a.peers[s].id
                           /\ r.peers[s].answered => a.peers[s].answered /\ s \notin Locals(a)
        /\ Locals(r) = Locals(a) /\ Stubs(r) = Stubs(a)
    BY <2>5, <2>14, RechallengedPeers
  <2> HIDE DEF r
  <2>10. (IF Named(k, i) # {} \/ free = {} THEN k
          ELSE [k EXCEPT !.peers[First(free)] = Stub(i)]) = a
    BY <1>2 DEF a, p, f
  <2>11. \A s \in Slot : r.peers[s].answered => k.peers[s].answered /\ s \notin Locals(k)
    BY <2>2, <2>4, <2>7, <2>9
  <2>12. \A s \in Stubs(r) : \/ r.peers[s].id = i
                             \/ s \in Stubs(k) /\ r.peers[s].id = k.peers[s].id
    <3>1. \A s \in Stubs(k) : s \in Slot
      BY <1>0 DEF Stubs
    <3> QED BY <2>1, <2>2, <2>4, <2>8, <2>9, <3>1
  <2>13. Locals(r) = Locals(k) /\ Stubs(k) \subseteq Stubs(r) /\ Stubs(r) # {}
    BY <2>7, <2>8, <2>9
  <2> HIDE DEF free
  <2> QED BY <2>10, <2>11, <2>12, <2>13 DEF r, free
<1> QED BY <1>1, <1>2

\* What the local members tell of themselves when they hear of another.
LEMMA RepliesAre ==
  ASSUME NEW n, NEW k, ChannelOK(n, k)
  PROVE  LET replies == [s \in Slot |-> IF s \in Locals(k) THEN <<Reply(k.peers[s].id)>>
                                        ELSE << >>]
             both == replies[0] \o replies[1]
         IN
         /\ both \in Seq(Own(n)) /\ ~Contains(both, Leaves)
         /\ Locals(k) # {} => Contains(both, Joins)
<1> DEFINE replies == [s \in Slot |-> IF s \in Locals(k) THEN <<Reply(k.peers[s].id)>>
                                      ELSE << >>]
<1>1. ASSUME NEW s \in Slot
      PROVE  /\ replies[s] \in Seq(Own(n)) /\ ~Contains(replies[s], Leaves)
             /\ s \in Locals(k) => Contains(replies[s], Joins)
  <2>1. CASE s \in Locals(k)
    <3> DEFINE c == k.peers[s].conn
               e == Reply(k.peers[s].id)
    <3>1. c \in Conns /\ Home[c] = n /\ IdOf[c] = k.peers[s].id /\ k.peers[s].id \in Ids
      BY <2>1, SlotIs
    <3>2. e \in Message /\ e.id = IdOf[c] /\ e \in Joins /\ e \notin Leaves
      BY <3>1, NotifyIs
    <3>3. replies[s] = <<e>>
      BY <2>1
    <3> HIDE DEF e, c, replies
    <3>4. /\ <<e>> \in Seq(Own(Home[c]))
          /\ Contains(<<e>>, Leaves) <=> e \in Leaves
          /\ Contains(<<e>>, Joins) <=> e \in Joins
      BY <3>1, <3>2, OneSent
    <3> QED BY <3>1, <3>2, <3>3, <3>4
  <2>2. CASE s \notin Locals(k)
    <3>1. replies[s] = << >>
      BY <2>2
    <3> HIDE DEF replies
    <3> QED BY <2>2, <3>1, NothingIs
  <2> QED BY <2>1, <2>2
<1> HIDE DEF replies
<1>2. 0 \in Slot /\ 1 \in Slot /\ \A s \in Slot : s = 0 \/ s = 1
  BY DEF Slot
<1> DEFINE a == replies[0]
           b == replies[1]
<1>3. /\ a \in Seq(Own(n)) /\ b \in Seq(Own(n)) /\ ~Contains(a, Leaves) /\ ~Contains(b, Leaves)
      /\ 0 \in Locals(k) => Contains(a, Joins)
      /\ 1 \in Locals(k) => Contains(b, Joins)
  BY <1>1, <1>2
<1> HIDE DEF a, b
<1>4. a \o b \in Seq(Own(n))
  BY <1>3
<1>5. a \in Seq(Message) /\ b \in Seq(Message)
  BY <1>3, OwnIs
<1>6. /\ ~Contains(a \o b, Leaves)
      /\ Contains(a, Joins) \/ Contains(b, Joins) => Contains(a \o b, Joins)
  BY <1>3, <1>5, ConcatContains
<1>7. Locals(k) # {} => 0 \in Locals(k) \/ 1 \in Locals(k)
  BY <1>2 DEF Locals
<1> QED BY <1>3, <1>4, <1>6, <1>7 DEF a, b, replies

\* n takes the first message of its own channel.
LEMMA TakenIs ==
  ASSUME CInv, NEW n \in Nodes, NEW t, Receives(n, t), NEW msgs \in Seq(Own(n)),
         Publish(n, Popped(n), msgs),
         \A m \in Nodes : m # n => channel'[m] = channel[m],
         \A c \in Conns : Home[c] # n => view'[c] = view[c]
  PROVE  /\ Sends(n, msgs) /\ bus'[n] = Tail(bus[n]) /\ bus[n] # << >>
         /\ bus[n] \in Seq(Message) /\ Head(bus[n]) \in Message /\ Head(bus[n]).type = t
         /\ UNCHANGED <<registered, handler, counts>>
<1>1. bus \in [Nodes -> Seq(Message)]
  BY DEF CInv, TypeOK
<1>2. /\ bus[n] # << >> /\ Head(bus[n]).type = t /\ UNCHANGED <<registered, handler, counts>>
  BY DEF Receives
<1>3. Popped(n)[n] = Tail(bus[n]) /\ \A m \in Nodes : m # n => Popped(n)[m] = bus[m]
  BY <1>1 DEF Popped
<1>4. bus[n] \in Seq(Message) /\ Head(bus[n]) \in Message
  BY <1>1, <1>2
<1>5. \A c \in Conns : Home[c] # n => handler'[c] = handler[c] /\ view'[c] = view[c]
  BY <1>2
<1> DEFINE box == Popped(n)
<1> HIDE DEF box
<1>6. Publish(n, box, msgs) /\ \A m \in Nodes : m # n => box[m] = bus[m]
  BY <1>3 DEF box
<1>7. Sends(n, msgs) /\ bus'[n] = box[n]
  BY <1>5, <1>6, SendsIs
<1> QED BY <1>2, <1>3, <1>4, <1>7 DEF box

\* Whom a message is about is on another node.
LEMMA FromForeign ==
  ASSUME AInv, NEW n \in Nodes, bus[n] # << >>, bus[n] \in Seq(Message)
  PROVE  From(n) \in Foreign(n)
<1>1. 1 \in DOMAIN bus[n] /\ bus[n][1] = Head(bus[n])
  OBVIOUS
<1>2. bus[n][1] \notin Strays(n)
  BY <1>1 DEF AInv, ForeignAt, Contains
<1>3. bus[n][1] \in Message
  BY <1>1
<1> QED BY <1>1, <1>2, <1>3 DEF Strays, From

LEMMA StraysKept ==
  ASSUME CInv, NEW n \in Nodes, bus[n] # << >>, bus'[n] = Tail(bus[n]),
         ~Contains(bus[n], Strays(n))
  PROVE  ~Contains(bus'[n], Strays(n))
<1>1. bus[n] \in Seq(Message)
  BY DEF CInv, TypeOK
<1>2. Contains(bus[n], Strays(n)) <=>
        Head(bus[n]) \in Strays(n) \/ Contains(Tail(bus[n]), Strays(n))
  BY <1>1, HeadContains
<1> QED BY <1>2

LEMMA JoinNotifyIs ==
  ASSUME AInv, NEW n \in Nodes, HandleRemoteJoinNotify(n)
  PROVE  LET k == channel[n]
             r == channel'[n]
         IN
         /\ bus[n] # << >> /\ bus[n] \in Seq(Message) /\ bus'[n] = Tail(bus[n])
         /\ Head(bus[n]) \in Message /\ Head(bus[n]).type = "join_notify"
         /\ \E msgs : /\ Sends(n, msgs) /\ ~Contains(msgs, Leaves)
                      /\ Head(bus[n]) \in Asks /\ Locals(k) # {} => Contains(msgs, Joins)
         /\ UNCHANGED <<registered, handler, deletes, counts>>
         /\ r.state = "CHALLENGING" /\ ~Verified(r) /\ ChallengedAt(n)'
         /\ Locals(r) = Locals(k) /\ \A s \in Locals(r) : ~r.peers[s].answered
         /\ \A s \in Stubs(r) : r.peers[s].id \in Foreign(n)
         /\ Settled /\ Populated(n) => Stubs(r) # {}
<1> DEFINE k == Opened(n)
           i == From(n)
           free == Slot \ Members(k)
           noted == IF Named(k, i) # {} \/ free = {} THEN k
                    ELSE [k EXCEPT !.peers[First(free)] = Stub(i)]
           replies == [s \in Slot |-> IF s \in Locals(k) THEN <<Reply(k.peers[s].id)>>
                                      ELSE << >>]
           both == replies[0] \o replies[1]
           msgs == IF Head(bus[n]).reply THEN << >> ELSE both
           r == Rechallenged(noted, i)
           f == [d \in ConnsOf(k) |-> Note("challenge")]
<1>1. /\ Receives(n, "join_notify") /\ SetChannel(n, r)
      /\ Publish(n, Popped(n), msgs) /\ Tell(f) /\ UNCHANGED deletes
  BY DEF HandleRemoteJoinNotify
<1>2. CInv /\ TypeOK
  BY DEF AInv, CInv
<1>3. i \in Ids /\ UNCHANGED handler
  BY <1>1, <1>2, ReceivesIs
<1>4. /\ ChannelOK(n, k) /\ k.state # "NONE" /\ ConnsOf(k) = ConnsOf(channel[n])
      /\ k.peers = channel[n].peers /\ Stubs(k) = Stubs(channel[n])
      /\ Locals(k) = Locals(channel[n]) /\ Members(k) = Members(channel[n])
  BY <1>2, OpenedOK, OpenedPeers
<1> HIDE DEF k
<1>5. both \in Seq(Own(n)) /\ ~Contains(both, Leaves) /\ (Locals(k) # {} => Contains(both, Joins))
  BY <1>4, RepliesAre
<1> HIDE DEF both
<1>6. ChannelOK(n, r) /\ r.state = "CHALLENGING" /\ ConnsOf(r) = ConnsOf(k)
  BY <1>3, <1>4, StubOK
<1>7. /\ Locals(r) = Locals(k) /\ Stubs(k) \subseteq Stubs(r)
      /\ \A s \in Slot : r.peers[s].answered => k.peers[s].answered /\ s \notin Locals(k)
      /\ \A s \in Stubs(r) : \/ r.peers[s].id = i
                             \/ s \in Stubs(k) /\ r.peers[s].id = k.peers[s].id
      /\ Named(k, i) = {} /\ Members(k) # Slot => Stubs(r) # {}
  BY <1>3, <1>4, NotedStub
<1> HIDE DEF r
<1>8. channel'[n] = r /\ \A m \in Nodes : m # n => channel'[m] = channel[m]
  BY <1>1, <1>2, <1>6, SetChannelIs DEF TypeOK, ChannelOK
<1>9. \A c \in Conns : Home[c] # n => view'[c] = view[c]
  <2>1. \A d \in DOMAIN f : d \in Conns => Home[d] = n
    BY <1>4, ConnsAre
  <2> HIDE DEF f
  <2> QED BY <1>1, <1>2, <2>1, TellHere
<1>10. msgs \in Seq(Own(n)) /\ ~Contains(msgs, Leaves)
  BY <1>5, NothingIs
<1>11. ~Head(bus[n]).reply /\ Locals(k) # {} => Contains(msgs, Joins)
  BY <1>5
<1> HIDE DEF msgs
<1>12. /\ Sends(n, msgs) /\ bus'[n] = Tail(bus[n]) /\ bus[n] # << >>
       /\ bus[n] \in Seq(Message) /\ Head(bus[n]) \in Message
       /\ Head(bus[n]).type = "join_notify"
       /\ UNCHANGED <<registered, handler, counts>>
  BY <1>1, <1>2, <1>8, <1>9, <1>10, TakenIs
<1>13. i \in Foreign(n)
  BY <1>12, FromForeign
<1>14. \A s \in Stubs(r) : r.peers[s].id \in Foreign(n)
  BY <1>4, <1>7, <1>13 DEF AInv, ForeignAt
<1>15. ~Verified(r)
  BY <1>4, <1>7 DEF Verified, AInv
<1>16. ChallengedAt(n)'
  <2>1. \A d \in ConnsOf(r) : d \in Conns
    BY <1>6, ConnsAre
  <2>2. \A d \in ConnsOf(r) : Open(d)' => view'[d].type = "challenge"
    BY <1>1, <1>3, <1>6, <2>1, NoteIs DEF Tell, Open
  <2> QED BY <1>8, <2>2 DEF ChallengedAt
<1>17. Settled /\ Populated(n) => Stubs(r) # {}
  <2> SUFFICES ASSUME Settled, Populated(n), Stubs(k) = {}
               PROVE  Named(k, i) = {} /\ Members(k) # Slot
    BY <1>7
  <2>1. /\ \A s \in Locals(k) : k.peers[s].id # i
        /\ \A s, q \in Locals(k) : s = q
    BY <1>4, <1>13, StubAndLocal
  <2>2. Members(k) \subseteq Locals(k)
    BY DEF Stubs
  <2>3. Members(k) # Slot
    BY <2>1, <2>2 DEF Slot
  <2>4. Named(k, i) \subseteq Members(k)
    BY <1>3, Nil DEF Named, Members
  <2> QED BY <2>1, <2>2, <2>3, <2>4 DEF Named
<1>18. \A s \in Locals(r) : ~r.peers[s].answered
  BY <1>7 DEF Locals
<1>19. Head(bus[n]) \in Asks => ~Head(bus[n]).reply
  BY DEF Asks
<1> QED BY <1>1, <1>4, <1>6, <1>7, <1>8, <1>10, <1>11, <1>12, <1>14, <1>15, <1>16, <1>17, <1>18, <1>19

LEMMA PeerLeftIs ==
  ASSUME AInv, NEW n \in Nodes, HandleRemotePeerLeft(n)
  PROVE  LET k == channel[n]
             r == channel'[n]
         IN
         /\ bus[n] # << >> /\ bus[n] \in Seq(Message) /\ bus'[n] = Tail(bus[n])
         /\ Head(bus[n]) \in Message /\ Head(bus[n]).type = "peer_left"
         /\ Sends(n, << >>) /\ UNCHANGED <<registered, handler, counts>>
         /\ Busy => Busy'
         /\ ~Verified(r) /\ ChallengedAt(n)' /\ Locals(r) = Locals(k)
         /\ \A s \in Stubs(r) : r.peers[s].id \in Foreign(n)
         /\ Settled /\ Populated(n) => Stubs(r) = {}
<1> DEFINE k == channel[n]
           i == From(n)
           gone == Stubs(k) \cap Named(k, i)
           rest == [k EXCEPT !.peers[First(gone)] = NoPeer]
           back == BackToWait(rest)
           r == channel'[n]
           f == [d \in ConnsOf(rest) |-> Note("peer_left")]
<1>1. /\ Receives(n, "peer_left") /\ Publish(n, Popped(n), << >>)
      /\ IF gone = {}
         THEN UNCHANGED <<channel, waitTimers, deletes, view>>
         ELSE /\ SetChannel(n, IF Locals(rest) = {} THEN rest ELSE back)
              /\ Tell(f)
              /\ Emptied(n, rest, TRUE)
  BY DEF HandleRemotePeerLeft
<1>2. CInv /\ TypeOK /\ ChannelOK(n, k)
  BY DEF AInv, CInv, NodeOK
<1>3. UNCHANGED handler
  BY <1>1, <1>2, ReceivesIs
<1>4. /\ \A m \in Nodes : m # n => channel'[m] = channel[m]
      /\ \A c \in Conns : Home[c] # n => view'[c] = view[c]
      /\ ~Verified(r) /\ Locals(r) = Locals(k) /\ ChallengedAt(n)'
      /\ \A s \in Stubs(r) : s \in Stubs(k) /\ r.peers[s].id = k.peers[s].id
      /\ gone # {} => First(gone) \notin Stubs(r)
  <2>1. CASE gone = {}
    <3>1. UNCHANGED <<channel, view>>
      BY <1>1, <2>1
    <3>2. ChallengedAt(n) => ChallengedAt(n)'
      BY <1>3, <3>1 DEF ChallengedAt, Open
    <3> QED BY <2>1, <3>1, <3>2 DEF AInv
  <2>2. CASE gone # {}
    <3> DEFINE g == First(gone)
    <3>1. g \in gone /\ g \in Slot /\ g \in Stubs(k)
      BY <2>2 DEF First, Named, Slot
    <3>2. SetChannel(n, IF Locals(rest) = {} THEN rest ELSE back) /\ Tell(f)
      BY <1>1, <2>2
    <3>3. /\ ConnsOf(rest) = ConnsOf(k) /\ Locals(rest) = Locals(k)
          /\ Locals(k) = {} => ChannelOK(n, rest)
          /\ ChannelOK(n, back) /\ back.state = "WAIT_PEER"
          /\ ConnsOf(back) = ConnsOf(k)
      <4>1. ChannelOK(n, k) /\ Stubs(k) \cap Named(k, i) # {}
        BY <1>2, <2>2
      <4> HIDE DEF k, i
      <4> QED BY <4>1, StubGoneOK, ZenonT(30)
    <3>4. rest = [k EXCEPT !.peers[g] = NoPeer]
      OBVIOUS
    <3> HIDE DEF rest, g, gone
    <3>5. rest \in Channel /\ \A s \in Slot : rest.peers[s] = IF s = g THEN NoPeer ELSE k.peers[s]
      BY <1>2, <3>1, <3>4, Nil DEF ChannelOK, Channel
    <3>6. back.peers = rest.peers
      BY <3>5, BackIs
    <3>7. \A c \in Conns : Home[c] # n => view'[c] = view[c]
      <4>1. \A d \in DOMAIN f : d \in Conns => Home[d] = n
        BY <1>2, <3>3, ConnsAre
      <4> HIDE DEF f
      <4> QED BY <1>2, <3>2, <4>1, TellHere
    <3> HIDE DEF back
    <3> DEFINE w == IF Locals(rest) = {} THEN rest ELSE back
    <3>8. /\ ChannelOK(n, w) /\ w.peers = rest.peers
          /\ Locals(k) = {} \/ w.state = "WAIT_PEER"
      BY <3>3, <3>6
    <3>9. SetChannel(n, w)
      BY <3>2
    <3> HIDE DEF w, k
    <3>10. r = w /\ \A m \in Nodes : m # n => channel'[m] = channel[m]
      BY <1>2, <3>8, <3>9, SetChannelIs DEF TypeOK, ChannelOK
    <3>11. Locals(w) = Locals(k)
      BY <3>3, <3>8 DEF Locals
    <3>12. Members(w) = Members(k) \ {g}
      BY <3>1, <3>5, <3>8, Nil DEF Members
    <3>13. /\ \A s \in Stubs(w) : s \in Stubs(k) /\ w.peers[s].id = k.peers[s].id
           /\ g \notin Stubs(w)
      BY <3>5, <3>8, <3>11, <3>12 DEF Stubs, Members
    <3>14. ~Verified(w)
      BY <3>1, <3>5, <3>8, Nil DEF Verified
    <3>15. ChallengedAt(n)'
      BY <3>8, <3>10, <3>11 DEF ChallengedAt, ConnsOf
    <3> QED BY <3>7, <3>10, <3>11, <3>13, <3>14, <3>15 DEF g
  <2> QED BY <2>1, <2>2
<1>5. << >> \in Seq(Own(n))
  OBVIOUS
<1>6. /\ Sends(n, << >>) /\ bus'[n] = Tail(bus[n]) /\ bus[n] # << >>
      /\ bus[n] \in Seq(Message) /\ Head(bus[n]) \in Message
      /\ Head(bus[n]).type = "peer_left"
      /\ UNCHANGED <<registered, handler, counts>>
  BY <1>1, <1>2, <1>4, <1>5, TakenIs, ZenonT(30)
<1>7. i \in Foreign(n)
  BY <1>6, FromForeign
<1>8. \A s \in Stubs(r) : r.peers[s].id \in Foreign(n)
  BY <1>4 DEF AInv, ForeignAt
<1>9. Settled /\ Populated(n) => Stubs(r) = {}
  <2> SUFFICES ASSUME Settled, Populated(n), NEW s \in Stubs(r)
               PROVE  FALSE
    OBVIOUS
  <2>1. \A q \in Stubs(k) : k.peers[q].id \in Foreign(n)
    BY DEF AInv, ForeignAt
  <2>2. s \in Stubs(k)
    BY <1>4
  <2> HIDE DEF k, i
  <2>3. /\ \A q \in Stubs(k) : k.peers[q].id = i
        /\ \A q, p \in Stubs(k) : q = p
    BY <1>2, <1>7, <2>1, StubAndLocal
  <2>4. s \in gone
    BY <2>2, <2>3 DEF Stubs, Members, Named
  <2>5. First(gone) = s
    <3>1. \A q \in gone : q = s
      BY <2>2, <2>3
    <3>2. s \in Slot
      BY <2>2 DEF Stubs, Members
    <3> HIDE DEF gone
    <3> QED BY <2>4, <3>1, <3>2 DEF First, Slot
  <2> QED BY <1>4, <2>4, <2>5
<1>10. Busy => Busy'
  <2>1. deletes \subseteq deletes'
    BY <1>1 DEF Emptied
  <2> QED BY <1>3, <2>1 DEF Busy
<1> QED BY <1>4, <1>6, <1>8, <1>9, <1>10

\* Without the first message.
LEMMA TailHas ==
  ASSUME NEW n, bus[n] # << >>, bus[n] \in Seq(Message), bus'[n] = Tail(bus[n]),
         NEW E, NEW L
  PROVE  /\ Contains(bus[n], E) <=> Head(bus[n]) \in E \/ Contains(bus'[n], E)
         /\ After(bus[n], E, L) <=>
              After(bus'[n], E, L) \/ (Head(bus[n]) \in E /\ ~Contains(bus'[n], L))
BY HeadContains

\* A join_notify is served: what it was to bring about has come about.
LEMMA NotifyMeet ==
  ASSUME AInv, CInv', NEW x \in Nodes, HandleRemoteJoinNotify(x), MeetInv
  PROVE  MeetInv'
<1> SUFFICES ASSUME Settled, counts'.faults = 0, ~counts'.cut, ~Busy',
                    NEW m \in Nodes, NEW n \in Nodes, m # n, Populated(n),
                    Locals(channel'[m]) # {}
             PROVE  /\ registered' \/ HasNote(n, Asks)'
                    /\ Locals(channel'[n]) # {} =>
                         HasNote(m, Joins)' \/ Contains(bus'[n], Asks)
  BY DEF MeetInv, MeetAt, Settled, Populated, Asks, Joins
<1>1. CInv
  BY DEF AInv
<1>2. /\ bus[x] # << >> /\ bus[x] \in Seq(Message) /\ bus'[x] = Tail(bus[x])
      /\ UNCHANGED <<registered, handler, deletes, counts>>
      /\ Locals(channel'[x]) = Locals(channel[x])
      /\ Settled /\ Populated(x) => Stubs(channel'[x]) # {}
      /\ Head(bus[x]) \in Message /\ Head(bus[x]).type = "join_notify"
  BY JoinNotifyIs
<1>3. PICK msgs : /\ Sends(x, msgs) /\ ~Contains(msgs, Leaves)
                  /\ Head(bus[x]) \in Asks /\ Locals(channel[x]) # {} => Contains(msgs, Joins)
  BY JoinNotifyIs
<1>4. \A k \in Nodes : k # x => channel'[k] = channel[k]
  BY <1>3 DEF Sends
<1>5. /\ registered \/ HasNote(n, Asks)
      /\ Locals(channel[n]) # {} => HasNote(m, Joins) \/ Contains(bus[n], Asks)
  BY <1>2, <1>4 DEF MeetInv, MeetAt, Busy
<1>6. Populated(m)
  BY LocalsPopulate DEF CInv, NodeOK
<1>7. CASE x # m /\ x # n
  <2>1. /\ channel'[m] = channel[m] /\ channel'[n] = channel[n]
        /\ bus'[m] = bus[m] /\ bus'[n] = bus[n]
    BY <1>1, <1>3, <1>6, <1>7, ThirdIdle
  <2> QED BY <1>2, <1>5, <2>1 DEF HasNote, Asks, Joins, Leaves
<1>8. Head(bus[x]) \notin Leaves
  BY <1>2 DEF Leaves
<1>9. ASSUME Populated(x), NEW M, M \in {Asks, Joins}, HasNote(x, M)
      PROVE  HasNote(x, M)'
  <2>1. /\ After(bus[x], M, Leaves) =>
             After(bus'[x], M, Leaves) \/ ~Contains(bus'[x], Leaves)
        /\ ~Contains(bus[x], Leaves) => ~Contains(bus'[x], Leaves)
    BY <1>2, TailHas
  <2> QED BY <1>2, <1>9, <2>1 DEF HasNote, Leaves
<1>10. ASSUME NEW o \in Nodes, o # x, NEW M, HasNote(o, M)
       PROVE  HasNote(o, M)'
  <2>1. /\ Contains(bus'[o], Leaves) => Contains(bus[o], Leaves)
        /\ After(bus[o], M, Leaves) => After(bus'[o], M, Leaves)
    BY <1>1, <1>3, <1>10, SentIs
  <2> QED BY <1>4, <1>10, <2>1 DEF HasNote, Leaves
<1>11. CASE x = m
  <2>1. HasNote(n, Asks) => HasNote(n, Asks)'
    BY <1>10, <1>11 DEF Asks
  <2>2. HasNote(m, Joins) => HasNote(m, Joins)'
    BY <1>6, <1>9, <1>11 DEF Joins
  <2>3. Contains(bus[n], Asks) => Contains(bus'[n], Asks)
    BY <1>1, <1>3, <1>11, SentIs
  <2> QED BY <1>2, <1>4, <1>5, <1>11, <2>1, <2>2, <2>3
<1>12. CASE x = n
  <2>1. HasNote(n, Asks) => HasNote(n, Asks)'
    BY <1>9, <1>12 DEF Asks
  <2>2. HasNote(m, Joins) => HasNote(m, Joins)'
    BY <1>10, <1>12 DEF Joins
  <2>3. ASSUME Locals(channel'[n]) # {}, Contains(bus[n], Asks)
        PROVE  HasNote(m, Joins)' \/ Contains(bus'[n], Asks)
    <3>1. CASE Head(bus[n]) \in Asks
      <4>1. Contains(msgs, Joins)
        BY <1>2, <1>3, <1>12, <2>3, <3>1
      <4>2. After(msgs, Joins, Leaves)
        BY <1>3, <4>1 DEF After, Contains
      <4>3. After(bus'[m], Joins, Leaves)
        BY <1>1, <1>3, <1>12, <4>2, SentIs
      <4> QED BY <4>3 DEF HasNote, Joins, Leaves
    <3>2. CASE Head(bus[n]) \notin Asks
      BY <1>2, <1>12, <2>3, <3>2, TailHas
    <3> QED BY <3>1, <3>2
  <2> QED BY <1>2, <1>5, <1>12, <2>1, <2>2, <2>3
<1> QED BY <1>7, <1>11, <1>12

LEMMA NotifyAgree ==
  ASSUME AInv, CInv', NEW x \in Nodes, HandleRemoteJoinNotify(x), AgreeInv
  PROVE  AgreeInv'
<1> SUFFICES ASSUME Settled, counts'.faults = 0, NEW m \in Nodes, NEW n \in Nodes,
                    m # n, Populated(n), Ready(channel'[m])
             PROVE  \/ Contains(bus'[m], Joins)
                    \/ After(bus'[n], Answers, Joins)
                    \/ /\ ~Contains(bus'[n], Joins)
                       /\ Both(channel'[n]) =>
                            Contains(bus'[n], Leaves) \/ Holding(channel'[n])
  BY DEF AgreeInv, AgreeAt, Settled, Populated, Answers, Joins, Leaves
<1>1. CInv
  BY DEF AInv
<1>2. /\ bus[x] # << >> /\ bus[x] \in Seq(Message) /\ bus'[x] = Tail(bus[x])
      /\ UNCHANGED counts
      /\ channel'[x].state = "CHALLENGING"
      /\ \A s \in Locals(channel'[x]) : ~channel'[x].peers[s].answered
      /\ Head(bus[x]) \in Message /\ Head(bus[x]).type = "join_notify"
  BY JoinNotifyIs
<1>3. PICK msgs : Sends(x, msgs)
  BY JoinNotifyIs
<1>4. x # m
  BY <1>2 DEF Ready
<1>5. AgreeAt(m, n) /\ channel'[m] = channel[m]
  BY <1>2, <1>3, <1>4 DEF AgreeInv, Sends
<1>6. Populated(m)
  BY LocalsPopulate DEF CInv, NodeOK, Ready, Both
<1>7. CASE x # n
  <2>1. /\ channel'[m] = channel[m] /\ channel'[n] = channel[n]
        /\ bus'[m] = bus[m] /\ bus'[n] = bus[n]
    BY <1>1, <1>3, <1>4, <1>6, <1>7, ThirdIdle
  <2> QED BY <1>5, <2>1 DEF AgreeAt
<1>8. CASE x = n
  <2>1. Contains(bus[m], Joins) => Contains(bus'[m], Joins)
    BY <1>1, <1>3, <1>4, SentIs
  <2>2. Head(bus[x]) \in Joins /\ Head(bus[x]) \notin Answers
    BY <1>2 DEF Joins, Answers
  <2>3. Contains(bus[n], Joins)
    BY <1>2, <1>8, <2>2, TailHas
  <2>4. After(bus[n], Answers, Joins) => After(bus'[n], Answers, Joins)
    BY <1>2, <1>8, <2>2, TailHas
  <2> QED BY <1>5, <2>1, <2>3, <2>4 DEF AgreeAt
<1> QED BY <1>7, <1>8

LEMMA NotifyApart ==
  ASSUME AInv, CInv', NEW x \in Nodes, HandleRemoteJoinNotify(x)
  PROVE  AInv'
<1>1. CInv /\ ~Contains(bus[x], Strays(x))
  BY DEF AInv, ForeignAt
<1>2. /\ bus[x] # << >> /\ bus'[x] = Tail(bus[x])
      /\ ~Verified(channel'[x]) /\ ChallengedAt(x)'
      /\ \A s \in Stubs(channel'[x]) : channel'[x].peers[s].id \in Foreign(x)
  BY JoinNotifyIs
<1>3. PICK msgs : Sends(x, msgs)
  BY JoinNotifyIs
<1>4. ForeignAt(x)'
  BY <1>1, <1>2, StraysKept DEF ForeignAt, Foreign, Strays
<1> QED BY <1>2, <1>3, <1>4, ApartStep

\* A peer_left is served: the stub is gone, and with it what was known of it.
LEMMA LeftMeet ==
  ASSUME AInv, CInv', NEW x \in Nodes, HandleRemotePeerLeft(x), MeetInv
  PROVE  MeetInv'
<1> SUFFICES ASSUME Settled, counts'.faults = 0, ~counts'.cut, ~Busy',
                    NEW m \in Nodes, NEW n \in Nodes, m # n, Populated(n),
                    Locals(channel'[m]) # {}
             PROVE  /\ registered' \/ HasNote(n, Asks)'
                    /\ Locals(channel'[n]) # {} =>
                         HasNote(m, Joins)' \/ Contains(bus'[n], Asks)
  BY DEF MeetInv, MeetAt, Settled, Populated, Asks, Joins
<1>1. CInv
  BY DEF AInv
<1>2. /\ bus[x] # << >> /\ bus[x] \in Seq(Message) /\ bus'[x] = Tail(bus[x])
      /\ Sends(x, << >>) /\ UNCHANGED <<registered, handler, counts>>
      /\ Busy => Busy'
      /\ Locals(channel'[x]) = Locals(channel[x])
      /\ Head(bus[x]) \in Message /\ Head(bus[x]).type = "peer_left"
  BY PeerLeftIs
<1>3. \A k \in Nodes : k # x => channel'[k] = channel[k] /\ bus'[k] = bus[k]
  <2>1. \A k \in Nodes : bus[k] \o << >> = bus[k]
    BY <1>1 DEF CInv, TypeOK
  <2> QED BY <1>2, <2>1 DEF Sends
<1>4. /\ registered \/ HasNote(n, Asks)
      /\ Locals(channel[n]) # {} => HasNote(m, Joins) \/ Contains(bus[n], Asks)
  BY <1>2, <1>3 DEF MeetInv, MeetAt
<1>5. Head(bus[x]) \in Leaves /\ Head(bus[x]) \notin Joins /\ Head(bus[x]) \notin Asks
  BY <1>2 DEF Leaves, Joins, Asks
<1>6. ASSUME NEW M, M \in {Asks, Joins}, NEW o \in Nodes, HasNote(o, M)
      PROVE  HasNote(o, M)'
  <2>1. CASE o = x
    <3>1. Contains(bus[x], Leaves) /\ (After(bus[x], M, Leaves) => After(bus'[x], M, Leaves))
      BY <1>2, <1>5, <1>6, TailHas
    <3> QED BY <1>6, <2>1, <3>1 DEF HasNote, Leaves
  <2>2. CASE o # x
    BY <1>3, <1>6, <2>2 DEF HasNote, Leaves
  <2> QED BY <2>1, <2>2
<1>7. Contains(bus[n], Asks) => Contains(bus'[n], Asks)
  BY <1>2, <1>3, <1>5, TailHas
<1>8. HasNote(n, Asks) => HasNote(n, Asks)'
  BY <1>6 DEF Asks
<1>9. HasNote(m, Joins) => HasNote(m, Joins)'
  BY <1>6 DEF Joins
<1>10. Locals(channel'[n]) # {} => Locals(channel[n]) # {}
  BY <1>2, <1>3
<1> QED BY <1>2, <1>4, <1>7, <1>8, <1>9, <1>10

LEMMA LeftAgree ==
  ASSUME AInv, CInv', NEW x \in Nodes, HandleRemotePeerLeft(x), AgreeInv
  PROVE  AgreeInv'
<1> SUFFICES ASSUME Settled, counts'.faults = 0, NEW m \in Nodes, NEW n \in Nodes,
                    m # n, Populated(n), Ready(channel'[m])
             PROVE  \/ Contains(bus'[m], Joins)
                    \/ After(bus'[n], Answers, Joins)
                    \/ /\ ~Contains(bus'[n], Joins)
                       /\ Both(channel'[n]) =>
                            Contains(bus'[n], Leaves) \/ Holding(channel'[n])
  BY DEF AgreeInv, AgreeAt, Settled, Populated, Answers, Joins, Leaves
<1>1. CInv
  BY DEF AInv
<1>2. /\ bus[x] # << >> /\ bus[x] \in Seq(Message) /\ bus'[x] = Tail(bus[x])
      /\ Sends(x, << >>) /\ UNCHANGED counts
      /\ Settled /\ Populated(x) => Stubs(channel'[x]) = {}
      /\ Head(bus[x]) \in Message /\ Head(bus[x]).type = "peer_left"
  BY PeerLeftIs
<1>3. \A k \in Nodes : k # x => channel'[k] = channel[k] /\ bus'[k] = bus[k]
  <2>1. \A k \in Nodes : bus[k] \o << >> = bus[k]
    BY <1>1 DEF CInv, TypeOK
  <2> QED BY <1>2, <2>1 DEF Sends
<1>4. Populated(m)
  BY LocalsPopulate DEF CInv, NodeOK, Ready, Both
<1>5. x # m
  BY <1>2, <1>4 DEF Ready, Both
<1>6. AgreeAt(m, n) /\ channel'[m] = channel[m] /\ bus'[m] = bus[m]
  BY <1>2, <1>3, <1>5 DEF AgreeInv
<1>7. CASE x # n
  BY <1>3, <1>6, <1>7 DEF AgreeAt
<1>8. CASE x = n
  <2>1. Head(bus[x]) \notin Joins /\ Head(bus[x]) \notin Answers
    BY <1>2 DEF Joins, Answers
  <2>2. /\ Contains(bus'[n], Joins) => Contains(bus[n], Joins)
        /\ After(bus[n], Answers, Joins) => After(bus'[n], Answers, Joins)
    BY <1>2, <1>8, <2>1, TailHas
  <2>3. ~Both(channel'[n])
    BY <1>2, <1>8 DEF Both
  <2> QED BY <1>6, <2>2, <2>3 DEF AgreeAt
<1> QED BY <1>7, <1>8

LEMMA LeftApart ==
  ASSUME AInv, CInv', NEW x \in Nodes, HandleRemotePeerLeft(x)
  PROVE  AInv'
<1>1. CInv /\ ~Contains(bus[x], Strays(x))
  BY DEF AInv, ForeignAt
<1>2. /\ bus[x] # << >> /\ bus'[x] = Tail(bus[x]) /\ Sends(x, << >>)
      /\ ~Verified(channel'[x]) /\ ChallengedAt(x)'
      /\ \A s \in Stubs(channel'[x]) : channel'[x].peers[s].id \in Foreign(x)
  BY PeerLeftIs
<1>3. ForeignAt(x)'
  BY <1>1, <1>2, StraysKept DEF ForeignAt, Foreign, Strays
<1> QED BY <1>2, <1>3, ApartStep

-----------------------------------------------------------------------------
(* The other steps of a node                                                *)

LEMMA KeptSame ==
  ASSUME NEW x, bus'[x] = bus[x]
  PROVE  Kept(x)
BY DEF Kept

\* A message is taken that neither announces nor takes out a member; what it
\* has answered is known.
LEMMA KeptTail ==
  ASSUME NEW x, bus[x] # << >>, bus[x] \in Seq(Message), bus'[x] = Tail(bus[x]),
         Head(bus[x]) \in Message, Head(bus[x]).type \in {"relay", "response"},
         Settled /\ Head(bus[x]).type = "response" =>
           (Both(channel'[x]) => Holding(channel'[x]))
  PROVE  Kept(x)
<1> DEFINE h == Head(bus[x])
<1>1. h \notin Joins /\ h \notin Asks /\ h \notin Leaves
  BY DEF Joins, Asks, Leaves
<1>2. /\ Contains(bus'[x], Strays(x)) => Contains(bus[x], Strays(x))
      /\ Contains(bus'[x], Joins) <=> Contains(bus[x], Joins)
      /\ Contains(bus'[x], Asks) <=> Contains(bus[x], Asks)
      /\ Contains(bus'[x], Leaves) <=> Contains(bus[x], Leaves)
      /\ After(bus[x], Joins, Leaves) => After(bus'[x], Joins, Leaves)
      /\ After(bus[x], Asks, Leaves) => After(bus'[x], Asks, Leaves)
  BY <1>1, TailHas
<1>3. After(bus[x], Answers, Joins) =>
        \/ After(bus'[x], Answers, Joins)
        \/ h \in Answers /\ ~Contains(bus'[x], Joins)
  BY TailHas
<1>4. h \in Answers => h.type = "response"
  BY DEF Answers
<1> QED BY <1>2, <1>3, <1>4 DEF Kept

\* No member comes to be challenged without a word.
LEMMA ChallengedKept ==
  ASSUME AInv, NEW x \in Nodes,
         channel'[x].state = "CHALLENGING" =>
           /\ channel[x].state = "CHALLENGING"
           /\ \A c \in ConnsOf(channel'[x]) :
                /\ c \in ConnsOf(channel[x])
                /\ Open(c)' => Open(c) /\ (view'[c] = view[c] \/ view'[c].type = "verify_rejected")
  PROVE  ChallengedAt(x)'
BY DEF AInv, ChallengedAt

LEMMA CalmStep ==
  ASSUME registered' = registered, deletes' = deletes \/ deletes' # {},
         \A c \in Conns : \/ handler'[c] = handler[c]
                          \/ handler[c].at \notin {"leaving", "unregistering"}
                          \/ handler'[c].at \in {"leaving", "unregistering"}
  PROVE  Calm
BY DEF Calm, Busy

LEMMA AnswerHere ==
  ASSUME CInv, NEW n \in Nodes, NEW k, ChannelOK(n, k), Answer(n, k)
  PROVE  \A c \in Conns : Home[c] # n => view'[c] = view[c]
<1>1. TypeOK /\ \A d \in ConnsOf(k) : Home[d] = n
  BY ConnsAre DEF CInv
<1>2. CASE ~Verified(k)
  BY <1>2 DEF Answer
<1>3. CASE Verified(k)
  <2> DEFINE f == [d \in ConnsOf(k) |->
          [type |-> "verify_peer",
           peer |-> k.peers[1 - First(SlotsOf(k, d))].id]]
  <2>1. Tell(f) /\ DOMAIN f = ConnsOf(k)
    BY <1>3 DEF Answer
  <2> HIDE DEF f
  <2> QED BY <1>1, <2>1, TellHere
<1> QED BY <1>2, <1>3

LEMMA TamelyResponse ==
  ASSUME AInv, NEW c \in Conns, HandleResponse(c)
  PROVE  \E x \in Nodes : \E msgs : Tamely(x, msgs)
<1> DEFINE x == Home[c]
           k == channel[x]
<1>1. x \in Nodes /\ CInv /\ TypeOK /\ ChannelOK(x, k) /\ IdOf[c] \in Ids
  BY Nil DEF AInv, CInv, NodeOK
<1>2. PICK s \in SlotsOf(k, c) :
        /\ Answering(c, s)
        /\ Answer(x, [k EXCEPT !.peers[s].answered = TRUE])
        /\ Publish(x, bus, Forwarded(k, s))
  BY DEF HandleResponse
<1>3. UNCHANGED <<registered, inChannel, handler, challengeTimers, waitTimers, deletes>>
  BY DEF HandleResponse
<1>4. s \in Locals(k) /\ s \in Members(k) /\ s \in Slot /\ k.peers[s].id = IdOf[c]
  <2>1. s \in Locals(k) /\ s \in Members(k) /\ s \in Slot
    BY <1>1, <1>2, OneSlot
  <2> QED BY <1>1, <1>2, <2>1, SlotIs DEF SlotsOf
<1> DEFINE a == [k EXCEPT !.peers[s].answered = TRUE]
           e == Remote("response", IdOf[c])
           msgs == IF 1 - s \in Stubs(k) THEN <<e>> ELSE << >>
           k2 == channel'[x]
<1>5. /\ Tame(k, k2) /\ Locals(k2) = Locals(k) /\ Stubs(k2) = Stubs(k)
      /\ ConnsOf(k2) = ConnsOf(k)
      /\ \A m \in Nodes : m # x => channel'[m] = channel[m]
      /\ \/ view' = view /\ k2.state = k.state
         \/ k2.state = "ACTIVE"
  <2> HIDE DEF k
  <2> QED BY <1>1, <1>2, <1>4, TameAnswer
<1>6. \A d \in Conns : Home[d] # x => view'[d] = view[d]
  <2>1. ChannelOK(x, a)
    BY <1>1, <1>4, NotedOK
  <2> HIDE DEF a
  <2>2. Answer(x, a)
    BY <1>2 DEF a
  <2> QED BY <1>1, <2>1, <2>2, AnswerHere
<1>7. e \in Message /\ e.id = IdOf[c] /\ e \in Answers /\ e \notin Joins /\ e \notin Leaves
  BY <1>1, NotifyIs
<1>8. Publish(x, bus, msgs)
  BY <1>2, <1>4 DEF Forwarded
<1> HIDE DEF e
<1>9. /\ msgs \in Seq(Own(x)) /\ ~Contains(msgs, Joins) /\ ~Contains(msgs, Leaves)
      /\ 1 - s \in Stubs(k) => Contains(msgs, Answers)
  BY <1>7, OneSent
<1>10. Ready(k2) => Contains(msgs, Answers)
  <2> SUFFICES ASSUME Ready(k2)
               PROVE  1 - s \in Stubs(k)
    BY <1>9
  <2>1. PICK r : r \in Stubs(k)
    BY <1>5 DEF Ready, Both
  <2>2. r \in Slot /\ r # s
    BY <1>4, <2>1 DEF Stubs, Members
  <2>3. r = 1 - s
    BY <1>4, <2>2 DEF Slot
  <2> QED BY <2>1, <2>3
<1> HIDE DEF msgs
<1>11. Sends(x, msgs) /\ bus'[x] = bus[x]
  <2> HIDE DEF x
  <2> QED BY <1>1, <1>3, <1>5, <1>6, <1>8, <1>9, SendsIs
<1>12. Kept(x) /\ Calm
  BY <1>3, <1>11, KeptSame, CalmStep
<1>13. ChallengedAt(x)'
  <2>1. \A d : Open(d)' => Open(d)
    BY <1>3 DEF Open
  <2> QED BY <1>1, <1>5, <2>1, ChallengedKept
<1>14. counts'.faults = counts.faults /\ (counts.cut => counts'.cut)
  BY <1>1, <1>2 DEF Answering, TypeOK
<1>15. Tamely(x, msgs)
  BY <1>5, <1>9, <1>10, <1>11, <1>12, <1>13, <1>14 DEF Tamely
<1> QED BY <1>1, <1>15

\* A step of x that leaves the Channel as it is.
LEMMA TamelySame ==
  ASSUME AInv, NEW x \in Nodes, NEW msgs, Sends(x, msgs), channel' = channel, Kept(x),
         Calm, ~Contains(msgs, Joins), ~Contains(msgs, Leaves),
         \A c \in ConnsOf(channel[x]) :
           Open(c)' => Open(c) /\ (view'[c] = view[c] \/ view'[c].type = "verify_rejected"),
         counts'.faults = counts.faults, counts.cut => counts'.cut
  PROVE  Tamely(x, msgs)
<1>1. Tame(channel[x], channel'[x])
  BY TameSame DEF AInv
<1>2. ChallengedAt(x)'
  BY ChallengedKept
<1> QED BY <1>1, <1>2 DEF Tamely

LEMMA TamelyRelay ==
  ASSUME AInv, NEW c \in Conns, HandleRelay(c)
  PROVE  \E x \in Nodes : \E msgs : Tamely(x, msgs)
<1> DEFINE x == Home[c]
           k == channel[x]
<1>1. x \in Nodes /\ CInv /\ TypeOK /\ ChannelOK(x, k) /\ IdOf[c] \in Ids
  BY Nil DEF AInv, CInv, NodeOK
<1>2. PICK s \in SlotsOf(k, c) :
        Publish(x, bus, IF 1 - s \in Stubs(k)
                        THEN <<Remote("relay", k.peers[s].id)>> ELSE << >>)
  BY DEF HandleRelay
<1>3. UNCHANGED <<channel, registered, inChannel, handler, challengeTimers,
                  waitTimers, deletes, view, counts>>
  BY DEF HandleRelay
<1>4. k.peers[s].id = IdOf[c]
  <2>1. s \in Locals(k) /\ s \in Slot
    BY <1>1, <1>2, OneSlot
  <2> QED BY <1>1, <1>2, <2>1, SlotIs DEF SlotsOf
<1> DEFINE e == Remote("relay", IdOf[c])
           msgs == IF 1 - s \in Stubs(k) THEN <<e>> ELSE << >>
<1>5. e \in Message /\ e.id = IdOf[c] /\ e \notin Joins /\ e \notin Leaves
  BY <1>1, NotifyIs
<1>6. Publish(x, bus, msgs)
  BY <1>2, <1>4
<1> HIDE DEF e
<1>7. msgs \in Seq(Own(x)) /\ ~Contains(msgs, Joins) /\ ~Contains(msgs, Leaves)
  BY <1>5, OneSent
<1> HIDE DEF msgs
<1>8. Sends(x, msgs) /\ bus'[x] = bus[x]
  <2> HIDE DEF x
  <2> QED BY <1>1, <1>3, <1>6, <1>7, SendsIs
<1>9. Kept(x) /\ Calm
  BY <1>3, <1>8, KeptSame, CalmStep
<1>10. \A d : Open(d)' => Open(d)
  BY <1>3 DEF Open
<1>11. Tamely(x, msgs)
  BY <1>1, <1>3, <1>7, <1>8, <1>9, <1>10, TamelySame
<1> QED BY <1>1, <1>11

\* Taking a local member out, whether the Channel is kept or dropped.
LEMMA TamelyRemoval ==
  ASSUME AInv, NEW c \in Conns, NEW s \in SlotsOf(channel[Home[c]], c),
         Removal(Home[c], channel[Home[c]], s),
         LET w == Without(channel[Home[c]], s) IN
           \/ channel'[Home[c]] = w
           \/ Members(w) = {} /\ channel'[Home[c]] = NoChannel,
         \A m \in Nodes : m # Home[c] => channel'[m] = channel[m],
         \A d \in Conns : Home[d] # Home[c] => handler'[d] = handler[d],
         Calm, counts' = counts
  PROVE  \E x \in Nodes : \E msgs : Tamely(x, msgs)
<1> DEFINE x == Home[c]
           k == channel[x]
           w == Without(k, s)
           k2 == channel'[x]
           e == Remote("peer_left", IdOf[c])
           msgs == IF Stubs(w) = {} THEN << >> ELSE <<e>>
<1>1. x \in Nodes /\ CInv /\ TypeOK /\ ChannelOK(x, k) /\ IdOf[c] \in Ids
  BY Nil DEF AInv, CInv, NodeOK
<1>2. s \in Locals(k) /\ s \in Members(k) /\ s \in Slot /\ k.peers[s].id = IdOf[c]
  <2>1. s \in Locals(k) /\ s \in Members(k) /\ s \in Slot
    BY <1>1, OneSlot
  <2> QED BY <1>1, <2>1, SlotIs DEF SlotsOf
<1>3. /\ Tame(k, w) /\ ~Both(w) /\ ~Ready(w) /\ Stubs(w) = Stubs(k)
  <2> HIDE DEF k
  <2> QED BY <1>1, <1>2, TameWithout
<1>4. /\ Locals(w) = Locals(k) \ {s} /\ Members(w) = Members(k) \ {s}
      /\ Members(w) = {} \/ w.state = "WAIT_PEER"
      /\ ChannelOK(x, w)
  <2> HIDE DEF k
  <2> QED BY <1>1, <1>2, WithoutOK
<1>5. Publish(x, bus, msgs)
  BY <1>2 DEF Removal
<1>6. \A d \in Conns : Home[d] # x => view'[d] = view[d]
  <2>1. \A d \in Conns :
          view'[d] = IF d \in ConnsOf(k) /\ Open(d)
                     THEN Note(IF d = c THEN "out" ELSE "peer_left") ELSE view[d]
    BY <1>1, RemovalIs
  <2>2. \A d \in ConnsOf(k) : Home[d] = x
    BY <1>1, ConnsAre
  <2> QED BY <2>1, <2>2
<1> HIDE DEF w
<1>7. /\ Tame(k, k2) /\ ~Ready(k2) /\ (Locals(k2) # {} => Locals(w) # {})
      /\ Stubs(k) # {} => Stubs(k2) # {}
      /\ k2.state = "CHALLENGING" => ConnsOf(k2) = {}
  <2>1. CASE k2 = w
    <3>1. Members(w) = {} => ConnsOf(w) = {}
      <4>1. Locals(w) = {} \/ Members(w) # {}
        <5>1. Locals(w) \subseteq Members(w)
          BY <1>1, <1>4, SlotIs DEF Locals
        <5> QED BY <5>1
      <4> QED BY <4>1 DEF ConnsOf
    <3> QED BY <1>3, <1>4, <2>1, <3>1
  <2>2. CASE Members(w) = {} /\ k2 = NoChannel
    <3>1. Tame(k, k2) /\ ~Ready(k2) /\ Locals(k2) = {}
      BY <2>2, Nil, TameGone
    <3>2. Stubs(k) = {}
      BY <1>3, <2>2 DEF Stubs
    <3>3. k2.state # "CHALLENGING"
      BY <2>2, Nil
    <3> QED BY <3>1, <3>2, <3>3
  <2> QED BY <2>1, <2>2 DEF w
<1>8. Stubs(w) # {} => Locals(k2) = {}
  <2> SUFFICES ASSUME NEW r \in Stubs(w)
               PROVE  Locals(w) = {}
    BY <1>7
  <2>1. r \in Slot /\ r # s /\ r \notin Locals(w) /\ s \notin Locals(w)
    BY <1>2, <1>3, <1>4 DEF Stubs, Members
  <2> QED BY <1>2, <2>1 DEF Slot, Locals
<1>9. e \in Message /\ e.id = IdOf[c] /\ e \notin Joins
  BY <1>1, NotifyIs
<1> HIDE DEF e
<1>10. /\ msgs \in Seq(Own(x)) /\ ~Contains(msgs, Joins)
       /\ Stubs(w) = {} => ~Contains(msgs, Leaves)
  BY <1>9, OneSent
<1> HIDE DEF msgs
<1>11. Sends(x, msgs) /\ bus'[x] = bus[x]
  <2> HIDE DEF x
  <2> QED BY <1>1, <1>5, <1>6, <1>10, SendsIs DEF x
<1>12. Kept(x)
  BY <1>11, KeptSame
<1>13. ChallengedAt(x)'
  BY <1>7 DEF ChallengedAt
<1>14. Tamely(x, msgs)
  BY <1>7, <1>8, <1>10, <1>11, <1>12, <1>13 DEF Tamely
<1> QED BY <1>1, <1>14

LEMMA TamelyLeave ==
  ASSUME AInv, NEW c \in Conns, HandleLeave(c)
  PROVE  \E x \in Nodes : \E msgs : Tamely(x, msgs)
<1> DEFINE x == Home[c]
           k == channel[x]
<1>1. x \in Nodes /\ CInv /\ TypeOK /\ ChannelOK(x, k) /\ handler[c].at = "reading"
  BY Nil DEF AInv, CInv, NodeOK, HandleLeave, Reading
<1>2. UNCHANGED <<registered, challengeTimers, deletes, counts>>
  BY DEF HandleLeave
<1>3. CASE LeaveMember(c)
  <2>1. PICK s \in SlotsOf(k, c) :
          /\ Removal(x, k, s) /\ SetChannel(x, Without(k, s))
          /\ \/ Goto(c, [at |-> "leaving", obj |-> k.obj])
             \/ UNCHANGED handler
    BY <1>3 DEF LeaveMember
  <2>2. Without(k, s) \in Channel
    <3>1. s \in Members(k) /\ s \in Slot
      BY <1>1, OneSlot
    <3> QED BY <1>1, <3>1, WithoutOK DEF ChannelOK
  <2>3. /\ channel'[x] = Without(k, s)
        /\ \A m \in Nodes : m # x => channel'[m] = channel[m]
    BY <1>1, <2>1, <2>2, SetChannelIs DEF TypeOK
  <2>4. \A d \in Conns : d # c => handler'[d] = handler[d]
    BY <1>1, <2>1 DEF Goto, TypeOK
  <2>5. Calm
    BY <1>1, <1>2, <2>4, CalmStep
  <2> HIDE DEF k, x
  <2>6. \A d \in Conns : Home[d] # x => handler'[d] = handler[d]
    BY <2>4 DEF x
  <2> QED BY <1>2, <2>1, <2>3, <2>5, <2>6, TamelyRemoval DEF k, x
<1>4. CASE LeaveStranger(c)
  <2>1. /\ SlotsOf(k, c) = {} /\ TellOut({c})
        /\ UNCHANGED <<channel, bus, handler, waitTimers>>
    BY <1>4 DEF LeaveStranger
  <2>2. \A d \in Conns : view'[d] = IF d \in {c} /\ Open(d) THEN Note("out") ELSE view[d]
    BY <1>1, <2>1, TellOutIs
  <2>3. c \notin ConnsOf(k)
    BY <1>1, <2>1, OneSlot
  <2>4. Sends(x, << >>)
    BY <1>1, <2>1, <2>2, NothingSent
  <2>5. Kept(x) /\ Calm
    BY <1>2, <2>1, KeptSame, CalmStep
  <2>6. \A d \in ConnsOf(k) : (Open(d)' => Open(d)) /\ view'[d] = view[d]
    BY <1>1, <2>1, <2>2, <2>3, ConnsAre DEF Open
  <2>7. Tamely(x, << >>)
    BY <1>1, <1>2, <2>1, <2>4, <2>5, <2>6, NothingIs, TamelySame
  <2> QED BY <1>1, <2>7
<1> QED BY <1>3, <1>4 DEF HandleLeave

LEMMA TamelyUnregisterConn ==
  ASSUME AInv, NEW c \in Conns, UnregisterConn(c)
  PROVE  \E x \in Nodes : \E msgs : Tamely(x, msgs)
<1> DEFINE x == Home[c]
           k == channel[x]
           s == First(SlotsOf(k, c))
           cut == handler[c].indexed /\ SlotsOf(k, c) # {}
           rest == Without(k, s)
           h == IF cut /\ Members(rest) = {}
                THEN [at |-> "unregistering", as |-> "close", to |-> NoConn]
                ELSE At("closed")
<1>1. x \in Nodes /\ CInv /\ TypeOK /\ ChannelOK(x, k)
  BY Nil DEF AInv, CInv, NodeOK
<1>2. /\ handler[c].at = "closing" /\ Goto(c, h)
      /\ IF cut
         THEN /\ Removal(x, k, s)
              /\ SetChannel(x, IF Members(rest) = {} THEN NoChannel ELSE rest)
         ELSE UNCHANGED <<channel, bus, waitTimers, view>>
      /\ UNCHANGED <<registered, deletes, counts>>
  BY DEF UnregisterConn
<1>3. \A d \in Conns : d # c => handler'[d] = handler[d]
  BY <1>1, <1>2 DEF Goto, TypeOK
<1>4. Calm
  BY <1>2, <1>3, CalmStep
<1>5. CASE cut
  <2>1. s \in SlotsOf(k, c) /\ s \in Members(k) /\ s \in Slot
    BY <1>1, <1>5, OneSlot
  <2>2. rest \in Channel
    BY <1>1, <2>1, WithoutOK DEF ChannelOK
  <2>3. Removal(x, k, s) /\ SetChannel(x, IF Members(rest) = {} THEN NoChannel ELSE rest)
    BY <1>2, <1>5
  <2> DEFINE w == IF Members(rest) = {} THEN NoChannel ELSE rest
  <2>4. w \in Channel
    BY <2>2, Nil
  <2>5. channel'[x] = w /\ \A m \in Nodes : m # x => channel'[m] = channel[m]
    BY <1>1, <2>3, <2>4, SetChannelIs DEF TypeOK
  <2>6. \/ channel'[x] = rest
        \/ Members(rest) = {} /\ channel'[x] = NoChannel
    <3> HIDE DEF rest
    <3> QED BY <2>5
  <2>7. \A d \in Conns : Home[d] # x => handler'[d] = handler[d]
    BY <1>3
  <2>8. \A m \in Nodes : m # x => channel'[m] = channel[m]
    BY <2>5
  <2> HIDE DEF s, w, x, k
  <2>9. counts' = counts
    BY <1>2
  <2> QED BY <1>4, <2>1, <2>3, <2>6, <2>7, <2>8, <2>9, TamelyRemoval DEF x, k
<1>6. CASE ~cut
  <2>1. UNCHANGED <<channel, bus, view>>
    BY <1>2, <1>6
  <2>2. Sends(x, << >>)
    BY <1>1, <1>3, <2>1, NothingSent
  <2>3. Kept(x)
    BY <2>1, KeptSame
  <2>4. \A d \in ConnsOf(k) : Open(d)' => Open(d)
    <3>1. Open(c)' => Open(c)
      BY <1>1, <1>2, <1>6 DEF Open, Goto, At, TypeOK
    <3> QED BY <1>1, <1>3, <3>1, ConnsAre DEF Open
  <2>5. Tamely(x, << >>)
    BY <1>1, <1>2, <1>4, <2>1, <2>2, <2>3, <2>4, NothingIs, TamelySame
  <2> QED BY <1>1, <2>5
<1> QED BY <1>5, <1>6

\* Only the connection c moves on.
LEMMA TamelyOwn ==
  ASSUME AInv, NEW c \in Conns, UNCHANGED <<channel, bus>>, Calm,
         \A d \in Conns : d # c => handler'[d] = handler[d],
         \A d \in Conns : Home[d] # Home[c] => view'[d] = view[d],
         \A d \in ConnsOf(channel[Home[c]]) :
           Open(d)' => Open(d) /\ (view'[d] = view[d] \/ view'[d].type = "verify_rejected"),
         counts'.faults = counts.faults, counts.cut => counts'.cut
  PROVE  \E x \in Nodes : \E msgs : Tamely(x, msgs)
<1> DEFINE x == Home[c]
<1>1. x \in Nodes /\ CInv
  BY Nil DEF AInv
<1>2. Sends(x, << >>)
  BY <1>1, NothingSent
<1>3. Kept(x)
  BY KeptSame
<1>4. Tamely(x, << >>)
  BY <1>1, <1>2, <1>3, NothingIs, TamelySame
<1> QED BY <1>1, <1>4

LEMMA TamelyClose ==
  ASSUME AInv, NEW c \in Conns, CloseConn(c)
  PROVE  \E x \in Nodes : \E msgs : Tamely(x, msgs)
<1>1. CInv /\ TypeOK
  BY DEF AInv, CInv
<1>2. /\ handler[c].at = "reading"
      /\ handler' = [handler EXCEPT ![c] = [at |-> "closing", indexed |-> c \in inChannel]]
      /\ view' = [view EXCEPT ![c] = Note("out")]
      /\ UNCHANGED <<channel, registered, bus, deletes, counts>>
  BY DEF CloseConn, Reading, Goto
<1>3. \A d \in Conns : d # c => handler'[d] = handler[d] /\ view'[d] = view[d]
  BY <1>1, <1>2 DEF TypeOK
<1>4. Calm
  BY <1>2, <1>3, CalmStep
<1>5. handler'[c].at = "closing"
  BY <1>1, <1>2 DEF TypeOK
<1>6. \A d \in ConnsOf(channel[Home[c]]) : Open(d)' => Open(d) /\ view'[d] = view[d]
  <2>1. ~Open(c)'
    BY <1>5 DEF Open
  <2>2. Home[c] \in Nodes /\ ChannelOK(Home[c], channel[Home[c]])
    BY <1>1, Nil DEF CInv, NodeOK
  <2>3. \A d \in ConnsOf(channel[Home[c]]) : d \in Conns
    BY <2>2, ConnsAre
  <2> QED BY <1>3, <2>1, <2>3 DEF Open
<1> QED BY <1>2, <1>3, <1>4, <1>6, TamelyOwn

\* A Channel is emptied or dropped, and the registration is about to go.
LEMMA TamelyGone ==
  ASSUME AInv, NEW n \in Nodes, NEW k2 \in Channel, SetChannel(n, k2), UNCHANGED bus,
         \/ \A s \in Slot : k2.peers[s] = NoPeer
         \/ /\ k2 = channel[n]
            /\ \A c \in ConnsOf(channel[n]) : (Open(c)' => Open(c)) /\ view'[c] = view[c],
         Busy', Calm, UNCHANGED counts,
         \A c \in Conns : Home[c] # n => handler'[c] = handler[c] /\ view'[c] = view[c]
  PROVE  \E x \in Nodes : \E msgs : Tamely(x, msgs)
<1>1. CInv /\ TypeOK
  BY DEF AInv, CInv
<1>2. channel'[n] = k2 /\ \A m \in Nodes : m # n => channel'[m] = channel[m]
  BY <1>1, SetChannelIs DEF TypeOK
<1>3. Sends(n, << >>)
  BY <1>1, <1>2, NothingSent
<1>4. Kept(n)
  BY KeptSame
<1>5. Tame(channel[n], k2) /\ (Ready(k2) => Ready(channel[n])) /\ ChallengedAt(n)'
  <2>1. CASE \A s \in Slot : k2.peers[s] = NoPeer
    <3>1. Tame(channel[n], k2) /\ ~Ready(k2) /\ Locals(k2) = {}
      BY <2>1, TameGone
    <3> QED BY <1>2, <3>1 DEF ChallengedAt, ConnsOf
  <2>2. CASE /\ k2 = channel[n]
             /\ \A c \in ConnsOf(channel[n]) : (Open(c)' => Open(c)) /\ view'[c] = view[c]
    <3>1. Tame(channel[n], k2)
      BY <2>2, TameSame DEF AInv
    <3>2. ChallengedAt(n)'
      BY <1>2, <2>2, ChallengedKept
    <3> QED BY <2>2, <3>1, <3>2
  <2> QED BY <2>1, <2>2
<1>6. Tamely(n, << >>)
  BY <1>2, <1>3, <1>4, <1>5, NothingIs DEF Tamely
<1> QED BY <1>6

\* What the steps that delete a Channel by pointer have in common.
LEMMA TamelyDeleted ==
  ASSUME AInv, NEW n \in Nodes, NEW o, DeleteIfSame(n, o), UNCHANGED bus,
         \A d \in ConnsOf(channel[n]) : Open(d)' => Open(d),
         Busy', Calm, UNCHANGED counts,
         \A d \in Conns : Home[d] # n => handler'[d] = handler[d]
  PROVE  \E x \in Nodes : \E msgs : Tamely(x, msgs)
<1> DEFINE k2 == IF channel[n].obj = o THEN NoChannel ELSE channel[n]
<1>1. CInv /\ TypeOK /\ SetChannel(n, k2)
  BY DEF AInv, CInv, DeleteIfSame
<1>2. k2 \in Channel
  BY <1>1, Nil DEF TypeOK
<1>3. /\ channel'[n] = k2
      /\ \A d \in Conns : \/ view'[d] = view[d]
                          \/ channel'[n] = NoChannel /\ Home[d] = n
  BY <1>1, DeletedIs
<1>4. k2 = NoChannel \/ k2 = channel[n]
  OBVIOUS
<1>5. \A d \in ConnsOf(channel[n]) : d \in Conns
  BY <1>1, ConnsAre DEF CInv, NodeOK
<1> HIDE DEF k2
<1>6. \/ \A s \in Slot : k2.peers[s] = NoPeer
      \/ /\ k2 = channel[n]
         /\ \A d \in ConnsOf(channel[n]) : (Open(d)' => Open(d)) /\ view'[d] = view[d]
  BY <1>3, <1>4, <1>5, Nil
<1> QED BY <1>1, <1>2, <1>3, <1>6, TamelyGone

LEMMA TamelyFinishLeave ==
  ASSUME AInv, NEW c \in Conns, FinishLeave(c)
  PROVE  \E x \in Nodes : \E msgs : Tamely(x, msgs)
<1> DEFINE n == Home[c]
           h == [at |-> "unregistering", as |-> "leave", to |-> NoConn]
<1>1. n \in Nodes /\ CInv /\ TypeOK
  BY Nil DEF AInv, CInv
<1>2. /\ handler[c].at = "leaving" /\ Goto(c, h) /\ DeleteIfSame(n, handler[c].obj)
      /\ UNCHANGED <<registered, bus, deletes, counts>>
  BY DEF FinishLeave
<1>3. handler'[c] = h /\ \A d \in Conns : d # c => handler'[d] = handler[d]
  BY <1>1, <1>2 DEF Goto, TypeOK
<1>4. Calm /\ Busy'
  BY <1>2, <1>3, CalmStep DEF Busy
<1>5. \A d \in ConnsOf(channel[n]) : Open(d)' => Open(d)
  <2>1. Open(c)
    BY <1>2 DEF Open
  <2>2. \A d \in ConnsOf(channel[n]) : d \in Conns
    BY <1>1, ConnsAre DEF CInv, NodeOK
  <2> QED BY <1>3, <2>1, <2>2 DEF Open
<1>6. \A d \in Conns : Home[d] # n => handler'[d] = handler[d]
  BY <1>3
<1> QED BY <1>1, <1>2, <1>4, <1>5, <1>6, TamelyDeleted

LEMMA TamelyDeferredDelete ==
  ASSUME AInv, NEW d \in deletes, DeferredDelete(d)
  PROVE  \E x \in Nodes : \E msgs : Tamely(x, msgs)
<1>1. d.node \in Nodes
  BY DEF AInv, CInv, TypeOK, Delete
<1>2. /\ DeleteIfSame(d.node, d.obj)
      /\ deletes' = (deletes \ {d}) \cup {[d EXCEPT !.next = "unregister"]}
      /\ UNCHANGED <<registered, bus, handler, counts>>
  BY DEF DeferredDelete
<1>3. deletes' # {}
  BY <1>2
<1>4. Calm /\ Busy'
  BY <1>2, <1>3, CalmStep DEF Busy
<1> QED BY <1>1, <1>2, <1>4, TamelyDeleted DEF Open

LEMMA TamelyWaitTimeout ==
  ASSUME AInv, NEW t \in waitTimers, WaitPeerTimeout(t)
  PROVE  \E x \in Nodes : \E msgs : Tamely(x, msgs)
<1> DEFINE n == t.node
           k == channel[n]
           empty == [k EXCEPT !.peers = NoChannel.peers]
<1>1. n \in Nodes /\ CInv /\ TypeOK /\ ChannelOK(n, k)
  BY DEF AInv, CInv, NodeOK, TypeOK, WaitTimer
<1>2. /\ k.state = "WAIT_PEER" /\ SetChannel(n, empty) /\ Emptied(n, empty, FALSE)
      /\ TellOut(ConnsOf(k)) /\ UNCHANGED <<registered, bus, handler, counts>>
  BY DEF WaitPeerTimeout
<1>3. ChannelOK(n, empty) /\ Members(empty) = {}
  <2> HIDE DEF k
  <2> QED BY <1>1, <1>2, EmptiedOK
<1>4. \A s \in Slot : empty.peers[s] = NoPeer
  BY <1>1, Nil DEF ChannelOK, Channel
<1> HIDE DEF empty
<1>5. deletes' # {}
  BY <1>2, <1>3 DEF Emptied
<1>6. Calm /\ Busy'
  BY <1>2, <1>5, CalmStep DEF Busy
<1>7. \A c \in Conns : Home[c] # n => handler'[c] = handler[c] /\ view'[c] = view[c]
  <2>1. \A c \in Conns : view'[c] = IF c \in ConnsOf(k) /\ Open(c) THEN Note("out") ELSE view[c]
    BY <1>1, <1>2, TellOutIs
  <2>2. \A c \in ConnsOf(k) : Home[c] = n
    BY <1>1, ConnsAre
  <2> QED BY <1>2, <2>1, <2>2
<1>8. empty \in Channel
  BY <1>3 DEF ChannelOK
<1> HIDE DEF k, n
<1> QED BY <1>1, <1>2, <1>4, <1>6, <1>7, <1>8, TamelyGone

LEMMA TamelyChallengeTimeout ==
  ASSUME AInv, NEW c \in Conns, ChallengeTimeout(c)
  PROVE  \E x \in Nodes : \E msgs : Tamely(x, msgs)
<1> DEFINE n == Home[c]
           k == channel[n]
<1>1. n \in Nodes /\ CInv /\ TypeOK /\ ChannelOK(n, k)
  BY Nil DEF AInv, CInv, NodeOK
<1>2. PICK s \in SlotsOf(k, c) :
        SetChannel(n, Without(k, s)) /\ Emptied(n, Without(k, s), FALSE)
  BY DEF ChallengeTimeout
<1>3. TellOut({c}) /\ UNCHANGED <<registered, bus, handler, counts>>
  BY DEF ChallengeTimeout
<1>4. s \in Locals(k) /\ s \in Members(k) /\ s \in Slot
  BY <1>1, OneSlot
<1> DEFINE w == Without(k, s)
<1>5. Tame(k, w) /\ ~Ready(w) /\ Stubs(w) = Stubs(k)
  <2> HIDE DEF k
  <2> QED BY <1>1, <1>4, TameWithout
<1>6. ChannelOK(n, w) /\ (Members(w) = {} \/ w.state = "WAIT_PEER")
  <2> HIDE DEF k
  <2> QED BY <1>1, <1>4, WithoutOK
<1> HIDE DEF w
<1>7. channel'[n] = w /\ \A m \in Nodes : m # n => channel'[m] = channel[m]
  BY <1>1, <1>2, <1>6, SetChannelIs DEF TypeOK, ChannelOK, w
<1>8. ChallengedAt(n)'
  <2>1. Members(w) = {} => ConnsOf(w) = {}
    <3>1. Locals(w) \subseteq Members(w)
      BY <1>6, SlotIs DEF Locals
    <3> QED BY <3>1 DEF ConnsOf
  <2> QED BY <1>6, <1>7, <2>1 DEF ChallengedAt
<1>9. \A d \in Conns : Home[d] # n => handler'[d] = handler[d] /\ view'[d] = view[d]
  BY <1>1, <1>3, TellOutIs
<1>10. deletes' = deletes \/ deletes' # {}
  BY <1>2 DEF Emptied
<1>11. Calm
  BY <1>3, <1>10, CalmStep
<1>12. Sends(n, << >>) /\ Kept(n)
  BY <1>1, <1>3, <1>7, <1>9, NothingSent, KeptSame
<1>13. Tamely(n, << >>)
  BY <1>3, <1>5, <1>7, <1>8, <1>11, <1>12, NothingIs DEF Tamely
<1> QED BY <1>1, <1>13

\* The registration goes: somebody may lose it.
LEMMA UnregisterCalm ==
  ASSUME TypeOK, UnregisterChannelPeer(counts), UNCHANGED channel
  PROVE  Calm /\ counts'.faults = counts.faults /\ (counts.cut => counts'.cut)
<1> DEFINE b == counts.cut \/ \E n \in Nodes : Locals(channel[n]) # {}
<1>1. counts' = [counts EXCEPT !.cut = b]
  BY DEF UnregisterChannelPeer
<1>2. b \/ \A n \in Nodes : Locals(channel'[n]) = {}
  OBVIOUS
<1>3. counts.cut => b
  OBVIOUS
<1> HIDE DEF b
<1>4. counts'.faults = counts.faults /\ counts'.cut = b
  BY <1>1 DEF TypeOK
<1> QED BY <1>2, <1>3, <1>4 DEF Calm

LEMMA TamelyUnregister ==
  ASSUME AInv, NEW c \in Conns, Unregister(c)
  PROVE  \E x \in Nodes : \E msgs : Tamely(x, msgs)
<1> DEFINE n == Home[c]
           to == handler[c].to
           h == At(IF handler[c].as = "close" THEN "closed" ELSE "reading")
           f == [d \in {to} \ {NoConn} |-> Note("verify_rejected")]
<1>1. n \in Nodes /\ CInv /\ TypeOK /\ ChannelOK(n, channel[n]) /\ ToldAt(n)
  BY Nil DEF AInv, CInv, NodeOK
<1>2. /\ handler[c].at = "unregistering" /\ Goto(c, h) /\ Tell(f)
      /\ UnregisterChannelPeer(counts) /\ UNCHANGED <<channel, bus, deletes>>
  BY DEF Unregister
<1>3. /\ h.at \in {"closed", "reading"}
      /\ handler[c].as = "close" => h.at = "closed"
  BY DEF At
<1> HIDE DEF h
<1>4. handler'[c] = h /\ \A d \in Conns : d # c => handler'[d] = handler[d]
  BY <1>1, <1>2 DEF Goto, TypeOK
<1>5. Open(c)' => Open(c)
  BY <1>2, <1>3, <1>4 DEF Open
<1>6. to \in Conns => Home[to] = n
  BY <1>1, <1>2, Nil DEF ToldAt
<1>7. \A d \in Conns : view'[d] = view[d] \/ view'[d].type = "verify_rejected"
  BY <1>2, NoteIs DEF Tell
<1>8. \A d \in Conns : Home[d] # n => view'[d] = view[d]
  <2>1. \A d \in DOMAIN f : d \in Conns => Home[d] = n
    BY <1>6
  <2> HIDE DEF f
  <2> QED BY <1>1, <1>2, <2>1, TellHere
<1>9. \A d \in ConnsOf(channel[n]) :
        Open(d)' => Open(d) /\ (view'[d] = view[d] \/ view'[d].type = "verify_rejected")
  <2>1. \A d \in ConnsOf(channel[n]) : d \in Conns
    BY <1>1, ConnsAre
  <2> QED BY <1>4, <1>5, <1>7, <2>1 DEF Open
<1>10. Calm /\ counts'.faults = counts.faults /\ (counts.cut => counts'.cut)
  BY <1>1, <1>2, UnregisterCalm
<1> QED BY <1>2, <1>4, <1>8, <1>9, <1>10, TamelyOwn

LEMMA TamelyDeferredUnregister ==
  ASSUME AInv, NEW d \in deletes, DeferredUnregister(d)
  PROVE  \E x \in Nodes : \E msgs : Tamely(x, msgs)
<1> DEFINE n == d.node
<1>1. n \in Nodes /\ CInv /\ TypeOK
  BY DEF AInv, CInv, TypeOK, Delete
<1>2. UnregisterChannelPeer(counts) /\ UNCHANGED <<channel, bus, handler, view>>
  BY DEF DeferredUnregister
<1>3. Calm /\ counts'.faults = counts.faults /\ (counts.cut => counts'.cut)
  BY <1>1, <1>2, UnregisterCalm
<1>4. Sends(n, << >>) /\ Kept(n)
  BY <1>1, <1>2, NothingSent, KeptSame
<1>5. \A c : (Open(c)' => Open(c)) /\ view'[c] = view[c]
  BY <1>2 DEF Open
<1>6. Tamely(n, << >>)
  BY <1>1, <1>2, <1>3, <1>4, <1>5, NothingIs, TamelySame
<1> QED BY <1>1, <1>6

LEMMA TamelyReject ==
  ASSUME AInv, NEW c \in Conns, HandleVerifyRejected(c)
  PROVE  \E x \in Nodes : \E msgs : Tamely(x, msgs)
<1> DEFINE n == Home[c]
           k == channel[n]
<1>1. n \in Nodes /\ CInv /\ TypeOK /\ ChannelOK(n, k) /\ handler[c].at = "reading"
  BY Nil DEF AInv, CInv, NodeOK, HandleVerifyRejected, Reading
<1>2. UNCHANGED <<registered, bus, deletes, counts>>
  BY DEF HandleVerifyRejected
<1>3. CASE Reject(c)
  <2> DEFINE others == {s \in Members(k) : k.peers[s].conn # c}
             last == IF 1 \in others THEN 1 ELSE 0
             h == [at |-> "unregistering", as |-> "reject",
                   to |-> IF others = {} THEN NoConn ELSE k.peers[last].conn]
             told == {c} \cup {k.peers[s].conn : s \in others \ {last}}
             f == [d \in told |-> Note(IF d = c THEN "out" ELSE "dropped")]
  <2>1. Stubs(k) = {} /\ SetChannel(n, NoChannel) /\ Goto(c, h) /\ Tell(f)
    BY <1>3 DEF Reject
  <2>2. \A d \in told : d \in Conns => Home[d] = n
    <3>1. \A s \in others : s \in Slot /\ s \in Members(k)
      BY DEF Members
    <3>2. \A s \in Slot : k.peers[s].conn \in Conns => Home[k.peers[s].conn] = n
      BY <1>1, Nil DEF ChannelOK, PeerOK
    <3> QED BY <3>1, <3>2
  <2>3. h.at = "unregistering"
    OBVIOUS
  <2> HIDE DEF others, last, told, h
  <2>4. handler'[c] = h /\ \A d \in Conns : d # c => handler'[d] = handler[d]
    BY <1>1, <2>1 DEF Goto, TypeOK
  <2>5. Calm /\ Busy'
    BY <1>1, <1>2, <2>3, <2>4, CalmStep DEF Busy
  <2>6. \A d \in Conns : Home[d] # n => view'[d] = view[d]
    <3>1. DOMAIN f = told
      OBVIOUS
    <3> HIDE DEF f
    <3> QED BY <1>1, <2>1, <2>2, <3>1, TellHere
  <2>7. NoChannel \in Channel /\ \A s \in Slot : NoChannel.peers[s] = NoPeer
    BY Nil
  <2>8. \A d \in Conns : Home[d] # n => handler'[d] = handler[d] /\ view'[d] = view[d]
    BY <2>4, <2>6
  <2> HIDE DEF n
  <2>9. n \in Nodes /\ SetChannel(n, NoChannel) /\ UNCHANGED <<bus, counts>>
    BY <1>1, <1>2, <2>1
  <2> QED BY <2>5, <2>7, <2>8, <2>9, TamelyGone
<1>4. CASE RejectStub(c)
  <2>1. Goto(c, At("stuck")) /\ UNCHANGED <<channel, view>>
    BY <1>4 DEF RejectStub
  <2>2. /\ handler'[c].at = "stuck"
        /\ \A d \in Conns : d # c => handler'[d] = handler[d]
    BY <1>1, <2>1 DEF Goto, TypeOK, At
  <2>3. Calm
    BY <1>1, <1>2, <2>2, CalmStep
  <2>4. \A d \in ConnsOf(k) : Open(d)' => Open(d)
    <3>1. \A d \in ConnsOf(k) : d \in Conns
      BY <1>1, ConnsAre
    <3> QED BY <2>2, <3>1 DEF Open
  <2> QED BY <1>2, <2>1, <2>2, <2>3, <2>4, TamelyOwn
<1> QED BY <1>3, <1>4 DEF HandleVerifyRejected

LEMMA TamelyRemoteRelay ==
  ASSUME AInv, NEW n \in Nodes, HandleRemoteRelay(n)
  PROVE  \E x \in Nodes : \E msgs : Tamely(x, msgs)
<1>1. CInv /\ TypeOK /\ << >> \in Seq(Own(n))
  BY DEF AInv, CInv
<1>2. /\ Receives(n, "relay") /\ Publish(n, Popped(n), << >>)
      /\ UNCHANGED <<channel, deletes, view>>
  BY DEF HandleRemoteRelay
<1>3. /\ Sends(n, << >>) /\ bus'[n] = Tail(bus[n]) /\ bus[n] # << >>
      /\ bus[n] \in Seq(Message) /\ Head(bus[n]) \in Message
      /\ Head(bus[n]).type = "relay"
      /\ UNCHANGED <<registered, handler, counts>>
  BY <1>1, <1>2, TakenIs
<1>4. Kept(n) /\ Calm
  BY <1>2, <1>3, KeptTail, CalmStep
<1>5. \A c : Open(c)' => Open(c)
  BY <1>3 DEF Open
<1>6. Tamely(n, << >>)
  BY <1>2, <1>3, <1>4, <1>5, NothingIs, TamelySame
<1> QED BY <1>6

LEMMA TamelyRemoteResponse ==
  ASSUME AInv, NEW n \in Nodes, HandleRemoteResponse(n)
  PROVE  \E x \in Nodes : \E msgs : Tamely(x, msgs)
<1> DEFINE k == channel[n]
           k2 == channel'[n]
           i == From(n)
           named == Named(k, i)
           s == First(named)
           a == [k EXCEPT !.peers[s].answered = TRUE]
<1>1. /\ CInv /\ TypeOK /\ << >> \in Seq(Own(n)) /\ ChannelOK(n, k) /\ ~Verified(k)
      /\ \A r \in Stubs(k) : k.peers[r].id \in Foreign(n)
  BY DEF AInv, CInv, NodeOK, ForeignAt
<1>2. /\ Receives(n, "response") /\ Publish(n, Popped(n), << >>) /\ UNCHANGED deletes
      /\ IF Mapped(n) THEN Answer(n, IF named = {} THEN k ELSE a)
         ELSE UNCHANGED <<channel, view>>
  BY DEF HandleRemoteResponse
<1>3. i \in Ids /\ UNCHANGED handler
  BY <1>1, <1>2, ReceivesIs
<1>4. named # {} => s \in named /\ s \in Slot /\ s \in Members(k)
  BY <1>3, Nil DEF First, Named, Slot, Members
<1>5. i \in Foreign(n)
  <2>1. bus[n] # << >> /\ bus[n] \in Seq(Message)
    BY <1>1, <1>2 DEF Receives, TypeOK
  <2> QED BY <2>1, FromForeign
<1>6. ASSUME ~Mapped(n) \/ named = {}
      PROVE  /\ Tame(k, k2) /\ Locals(k2) = Locals(k) /\ Stubs(k2) = Stubs(k)
             /\ ChallengedAt(n)'
             /\ \A m \in Nodes : m # n => channel'[m] = channel[m]
             /\ \A d \in Conns : Home[d] # n => view'[d] = view[d]
             /\ Settled => (Both(k2) => Holding(k2))
             /\ Settled /\ Ready(k2) => Ready(k)
  <2>1. /\ channel'[n] = k /\ \A m \in Nodes : m # n => channel'[m] = channel[m]
        /\ view' = view
    <3>1. CASE ~Mapped(n)
      BY <1>2, <3>1
    <3>2. CASE Mapped(n) /\ named = {}
      <4>1. SetChannel(n, k) /\ view' = view
        BY <1>1, <1>2, <3>2 DEF Answer
      <4> QED BY <1>1, <4>1, SetChannelIs DEF TypeOK, ChannelOK
    <3> QED BY <1>6, <3>1, <3>2
  <2>2. /\ Tame(k, k2) /\ Locals(k2) = Locals(k) /\ Stubs(k2) = Stubs(k)
        /\ Ready(k2) => Ready(k)
    BY <1>1, <2>1, TameSame
  <2>3. ChallengedAt(n)'
    BY <1>3, <2>1, ChallengedKept DEF Open
  <2>4. Settled => ~Both(k2)
    <3> SUFFICES ASSUME Settled, Both(k2)
                 PROVE  FALSE
      OBVIOUS
    <3>1. Locals(k) # {} /\ Stubs(k) # {}
      BY <2>2 DEF Both
    <3>2. PICK r : r \in Stubs(k)
      BY <3>1
    <3>3. k.peers[r].id = i
      BY <1>1, <1>5, <3>1, <3>2, LocalsPopulate, StubAndLocal
    <3>4. r \in named
      BY <3>2, <3>3 DEF Stubs, Members, Named
    <3>5. Mapped(n)
      BY <1>1, <3>2, EmptyOK DEF Mapped, ChannelOK, Stubs
    <3> QED BY <1>6, <3>4, <3>5
  <2>5. Settled /\ Ready(k2) => Ready(k)
    BY <2>4 DEF Ready
  <2> QED BY <2>1, <2>2, <2>3, <2>4, <2>5
<1>7. ASSUME Mapped(n), named # {}
      PROVE  /\ Tame(k, k2) /\ Locals(k2) = Locals(k) /\ Stubs(k2) = Stubs(k)
             /\ ChallengedAt(n)'
             /\ \A m \in Nodes : m # n => channel'[m] = channel[m]
             /\ \A d \in Conns : Home[d] # n => view'[d] = view[d]
             /\ Settled => (Both(k2) => Holding(k2))
             /\ Settled /\ Ready(k2) => Ready(k)
  <2>1. s \in named /\ s \in Members(k) /\ Answer(n, a)
    BY <1>2, <1>4, <1>7
  <2>2. /\ Tame(k, k2) /\ (Holding(k2) \/ s \notin Stubs(k))
        /\ Locals(k2) = Locals(k) /\ Stubs(k2) = Stubs(k) /\ ConnsOf(k2) = ConnsOf(k)
        /\ s \in Stubs(k) => (Ready(k2) => Ready(k))
        /\ \A m \in Nodes : m # n => channel'[m] = channel[m]
        /\ \/ view' = view /\ k2.state = k.state
           \/ k2.state = "ACTIVE"
    <3> HIDE DEF k, s
    <3> QED BY <1>1, <2>1, TameAnswer
  <2>3. \A d \in Conns : Home[d] # n => view'[d] = view[d]
    <3>1. ChannelOK(n, a)
      BY <1>1, <1>4, <1>7, NotedOK
    <3> HIDE DEF a
    <3> QED BY <1>1, <2>1, <3>1, AnswerHere
  <2>4. ChallengedAt(n)'
    <3>1. \A d : Open(d)' => Open(d)
      BY <1>3 DEF Open
    <3> QED BY <1>1, <2>2, <3>1, ChallengedKept
  <2>5. ASSUME Settled, Both(k2)
        PROVE  s \in Stubs(k)
    <3>1. Locals(k) # {}
      BY <2>2, <2>5 DEF Both
    <3>2. \A r \in Locals(k) : k.peers[r].id # i
      BY <1>1, <1>5, <2>5, <3>1, LocalsPopulate, StubAndLocal
    <3>3. k.peers[s].id = i
      BY <2>1 DEF Named
    <3>4. s \notin Locals(k)
      BY <3>2, <3>3
    <3> QED BY <2>1, <3>4 DEF Stubs
  <2>6. /\ Settled => (Both(k2) => Holding(k2))
        /\ Settled /\ Ready(k2) => Ready(k)
    BY <2>2, <2>5 DEF Ready
  <2> QED BY <2>2, <2>3, <2>4, <2>6
<1>8. /\ Tame(k, k2) /\ Locals(k2) = Locals(k) /\ Stubs(k2) = Stubs(k)
      /\ ChallengedAt(n)'
      /\ \A m \in Nodes : m # n => channel'[m] = channel[m]
      /\ \A d \in Conns : Home[d] # n => view'[d] = view[d]
      /\ Settled => (Both(k2) => Holding(k2))
      /\ Settled /\ Ready(k2) => Ready(k)
  BY <1>6, <1>7
<1>9. /\ Sends(n, << >>) /\ bus'[n] = Tail(bus[n]) /\ bus[n] # << >>
      /\ bus[n] \in Seq(Message) /\ Head(bus[n]) \in Message
      /\ Head(bus[n]).type = "response"
      /\ UNCHANGED <<registered, handler, counts>>
  BY <1>1, <1>2, <1>8, TakenIs
<1>10. Kept(n) /\ Calm
  BY <1>2, <1>8, <1>9, KeptTail, CalmStep
<1>11. Tamely(n, << >>)
  BY <1>8, <1>9, <1>10, NothingIs DEF Tamely
<1> QED BY <1>11

-----------------------------------------------------------------------------
(* The start, the faults and every step                                     *)

\* What AInv, MeetInv and AgreeInv say of a fault: that nothing comes to a node
\* from itself.
LEMMA FaultStep ==
  ASSUME AInv, CInv', NEW n \in Nodes, counts' = [counts EXCEPT !.faults = @ + 1],
         \A m \in Nodes : m # n => channel'[m] = channel[m] /\ bus'[m] = bus[m],
         \A c \in Conns : Home[c] # n => handler'[c] = handler[c] /\ view'[c] = view[c],
         ForeignAt(n)', ~Verified(channel'[n]), ChallengedAt(n)'
  PROVE  AInv' /\ MeetInv' /\ AgreeInv'
<1>1. TypeOK
  BY DEF AInv, CInv
<1>2. counts'.faults # 0
  BY <1>1 DEF TypeOK
<1>3. << >> \in Seq(Own(n)) /\ \A m \in Nodes : bus[m] \o << >> = bus[m]
  BY <1>1 DEF TypeOK
<1>4. Sends(n, << >>)
  BY <1>3 DEF Sends
<1> QED BY <1>2, <1>4, ApartStep DEF MeetInv, AgreeInv

LEMMA FaultsAll ==
  ASSUME AInv, CInv', NEW n \in Nodes, Lose(n) \/ Restart(n) \/ KeyExpires
  PROVE  AInv' /\ MeetInv' /\ AgreeInv'
<1>1. /\ CInv /\ TypeOK /\ ChannelOK(n, channel[n]) /\ bus[n] \in Seq(Message)
      /\ ForeignAt(n) /\ ~Verified(channel[n])
  BY DEF AInv, CInv, NodeOK, TypeOK
<1>2. CASE Restart(n)
  <2> DEFINE here == {c \in Conns : Home[c] = n}
  <2>1. /\ counts' = [counts EXCEPT !.faults = @ + 1]
        /\ SetChannel(n, NoChannel) /\ bus' = [bus EXCEPT ![n] = << >>]
        /\ handler' = [c \in Conns |-> IF c \in here /\ counts.joins[c] > 0
                                       THEN At("closed") ELSE handler[c]]
        /\ view' = [c \in Conns |-> IF c \in here THEN Note("out") ELSE view[c]]
    BY <1>2 DEF Restart, Fault
  <2>2. channel'[n] = NoChannel /\ \A m \in Nodes : m # n => channel'[m] = channel[m]
    BY <1>1, <2>1, Nil, SetChannelIs DEF TypeOK
  <2>3. bus'[n] = << >> /\ \A m \in Nodes : m # n => bus'[m] = bus[m]
    BY <1>1, <2>1 DEF TypeOK
  <2>4. \A c \in Conns : Home[c] # n => handler'[c] = handler[c] /\ view'[c] = view[c]
    BY <1>1, <2>1 DEF TypeOK
  <2>5. ForeignAt(n)'
    <3>1. ~Contains(<< >>, Strays(n)) /\ Stubs(NoChannel) = {}
      BY NothingIs, EmptyOK DEF Stubs
    <3> QED BY <2>2, <2>3, <3>1 DEF ForeignAt, Strays, Foreign
  <2>6. ~Verified(channel'[n]) /\ ChallengedAt(n)'
    BY <2>2, Nil DEF Verified, ChallengedAt, Slot
  <2> QED BY <2>1, <2>2, <2>3, <2>4, <2>5, <2>6, FaultStep
<1>3. ASSUME UNCHANGED <<channel, handler, view>>,
             counts' = [counts EXCEPT !.faults = @ + 1],
             \A m \in Nodes : m # n => bus'[m] = bus[m],
             ~Contains(bus'[n], Strays(n))
      PROVE  AInv' /\ MeetInv' /\ AgreeInv'
  <2>1. ForeignAt(n)'
    BY <1>1, <1>3 DEF ForeignAt, Foreign, Strays
  <2>2. \A c : Open(c)' => Open(c)
    BY <1>3 DEF Open
  <2>3. ChallengedAt(n)'
    BY <1>3, <2>2, ChallengedKept
  <2> QED BY <1>1, <1>3, <2>1, <2>3, FaultStep
<1>4. CASE Lose(n)
  <2>1. /\ UNCHANGED <<channel, handler, view>> /\ bus[n] # << >> /\ bus' = Popped(n)
        /\ counts' = [counts EXCEPT !.faults = @ + 1]
    BY <1>4 DEF Lose, Fault
  <2>2. bus'[n] = Tail(bus[n]) /\ \A m \in Nodes : m # n => bus'[m] = bus[m]
    BY <1>1, <2>1, PoppedIs DEF TypeOK, Popped
  <2>3. ~Contains(bus'[n], Strays(n))
    BY <1>1, <2>1, <2>2, StraysKept DEF ForeignAt
  <2> QED BY <1>3, <2>1, <2>2, <2>3
<1>5. CASE KeyExpires
  <2>1. /\ UNCHANGED <<channel, bus, handler, view>>
        /\ counts' = [counts EXCEPT !.faults = @ + 1]
    BY <1>5 DEF KeyExpires, Fault
  <2> QED BY <1>1, <1>3, <2>1 DEF ForeignAt
<1> QED BY <1>2, <1>4, <1>5

\* Every step of a node but a join and the handling of join_notify or peer_left.
LEMMA TamelyServe ==
  ASSUME AInv, NEW c \in Conns, Serve(c), ~JoinFirst(c), ~JoinSecond(c)
  PROVE  \E x \in Nodes : \E msgs : Tamely(x, msgs)
<1>1. CASE HandleResponse(c) \/ HandleRelay(c)
  BY <1>1, TamelyResponse, TamelyRelay
<1>2. CASE HandleLeave(c) \/ FinishLeave(c)
  BY <1>2, TamelyLeave, TamelyFinishLeave
<1>3. CASE HandleVerifyRejected(c)
  BY <1>3, TamelyReject
<1>4. CASE CloseConn(c) \/ UnregisterConn(c) \/ Unregister(c)
  BY <1>4, TamelyClose, TamelyUnregisterConn, TamelyUnregister
<1>5. CASE ChallengeTimeout(c)
  BY <1>5, TamelyChallengeTimeout
<1> QED BY <1>1, <1>2, <1>3, <1>4, <1>5 DEF Serve

LEMMA TamelyBackground ==
  ASSUME AInv, Background
  PROVE  \E x \in Nodes : \E msgs : Tamely(x, msgs)
BY TamelyWaitTimeout, TamelyDeferredDelete, TamelyDeferredUnregister DEF Background

RestInv == AInv /\ MeetInv /\ AgreeInv

LEMMA TamelyStep ==
  ASSUME RestInv, CInv', \E x \in Nodes : \E msgs : Tamely(x, msgs)
  PROVE  RestInv'
<1>1. PICK x \in Nodes : \E msgs : Tamely(x, msgs)
  OBVIOUS
<1>2. PICK msgs : Tamely(x, msgs)
  BY <1>1
<1>3. CInv
  BY DEF RestInv, AInv
<1>4. AInv'
  BY <1>2, TameApart DEF RestInv
<1>5. MeetInv'
  BY <1>2, <1>3, TameMeet DEF RestInv
<1>6. AgreeInv'
  BY <1>2, <1>3, TameAgree DEF RestInv
<1> QED BY <1>4, <1>5, <1>6 DEF RestInv

LEMMA RestStep ==
  ASSUME RestInv, [Next]_vars
  PROVE  RestInv'
<1>1. AInv /\ MeetInv /\ AgreeInv /\ CInv
  BY DEF RestInv, AInv
<1>2. CInv'
  BY <1>1, CInvStep
<1>3. ASSUME NEW c \in Conns, Serve(c)
      PROVE  RestInv'
  <2>1. CASE JoinFirst(c)
    <3>1. AInv'
      BY <1>1, <1>2, <2>1, FirstApart
    <3>2. MeetInv'
      BY <1>1, <1>2, <2>1, FirstMeet
    <3>3. AgreeInv'
      BY <1>1, <1>2, <2>1, FirstAgree
    <3> QED BY <3>1, <3>2, <3>3 DEF RestInv
  <2>2. CASE JoinSecond(c)
    <3>1. AInv'
      BY <1>1, <1>2, <2>2, SecondApart
    <3>2. MeetInv'
      BY <1>1, <1>2, <2>2, SecondMeet
    <3>3. AgreeInv'
      BY <1>1, <1>2, <2>2, SecondAgree
    <3> QED BY <3>1, <3>2, <3>3 DEF RestInv
  <2>3. CASE ~JoinFirst(c) /\ ~JoinSecond(c)
    BY <1>1, <1>2, <1>3, <2>3, TamelyServe, TamelyStep
  <2> QED BY <2>1, <2>2, <2>3
<1>4. ASSUME Background
      PROVE  RestInv'
  BY <1>1, <1>2, <1>4, TamelyBackground, TamelyStep
<1>5. ASSUME NEW n \in Nodes, Receive(n)
      PROVE  RestInv'
  <2>1. CASE HandleRemoteJoinNotify(n)
    <3>1. AInv'
      BY <1>1, <1>2, <2>1, NotifyApart
    <3>2. MeetInv'
      BY <1>1, <1>2, <2>1, NotifyMeet
    <3>3. AgreeInv'
      BY <1>1, <1>2, <2>1, NotifyAgree
    <3> QED BY <3>1, <3>2, <3>3 DEF RestInv
  <2>2. CASE HandleRemotePeerLeft(n)
    <3>1. AInv'
      BY <1>1, <1>2, <2>2, LeftApart
    <3>2. MeetInv'
      BY <1>1, <1>2, <2>2, LeftMeet
    <3>3. AgreeInv'
      BY <1>1, <1>2, <2>2, LeftAgree
    <3> QED BY <3>1, <3>2, <3>3 DEF RestInv
  <2>3. CASE HandleRemoteResponse(n) \/ HandleRemoteRelay(n)
    BY <1>1, <1>2, <2>3, TamelyRemoteResponse, TamelyRemoteRelay, TamelyStep
  <2> QED BY <1>5, <2>1, <2>2, <2>3 DEF Receive
<1>6. ASSUME NEW n \in Nodes, Lose(n) \/ Restart(n)
      PROVE  RestInv'
  BY <1>1, <1>2, <1>6, FaultsAll DEF RestInv
<1>7. CASE KeyExpires
  <2>1. CASE Nodes = {}
    <3> QED BY <1>2, <2>1 DEF RestInv, AInv, MeetInv, AgreeInv
  <2>2. CASE Nodes # {}
    BY <1>1, <1>2, <1>7, <2>2, FaultsAll DEF RestInv
  <2> QED BY <2>1, <2>2
<1>8. CASE UNCHANGED vars
  <2>1. \A c : Open(c)' <=> Open(c)
    BY <1>8 DEF Open, vars
  <2>2. UNCHANGED <<channel, registered, bus, handler, deletes, view, counts>>
    BY <1>8 DEF vars
  <2>3. AInv'
    BY <1>1, <1>2, <2>1, <2>2 DEF AInv, ForeignAt, ChallengedAt, Strays, Foreign
  <2>4. MeetInv'
    BY <1>1, <2>2 DEF MeetInv, MeetAt, HasNote, Busy, Settled, Populated, Joins, Asks, Leaves
  <2>5. AgreeInv'
    BY <1>1, <2>2 DEF AgreeInv, AgreeAt, Settled, Populated, Joins, Answers, Leaves
  <2> QED BY <2>3, <2>4, <2>5 DEF RestInv
<1> QED BY <1>3, <1>4, <1>5, <1>6, <1>7, <1>8 DEF Next

LEMMA RestInit ==
  ASSUME Init
  PROVE  RestInv
<1>1. CInv
  BY CInvInit
<1>2. \A n \in Nodes : channel[n] = NoChannel /\ bus[n] = << >>
  BY DEF Init
<1>3. Locals(NoChannel) = {} /\ Stubs(NoChannel) = {} /\ ~Verified(NoChannel)
  BY EmptyOK, Nil DEF Stubs, Verified, Slot
<1>4. AInv
  BY <1>1, <1>2, <1>3, Nil, NothingIs DEF AInv, ForeignAt, ChallengedAt
<1>5. MeetInv
  BY <1>2, <1>3 DEF MeetInv, MeetAt
<1>6. AgreeInv
  BY <1>2, <1>3 DEF AgreeInv, AgreeAt, Ready, Both
<1> QED BY <1>4, <1>5, <1>6 DEF RestInv

\* RestInv: no message, stub or complete exchange of answers is where it should
\* not be; of two nodes with a member each, each knows of the other or will; and
\* a node that has its member's answer knows that the other has it or will.
\* Whatever the nodes and the order of their messages, it holds in every state.
THEOREM CrossRestInductive == Spec => []RestInv
<1>1. Init => RestInv
  BY RestInit
<1>2. RestInv /\ [Next]_vars => RestInv'
  BY RestStep
<1> QED BY <1>1, <1>2, PTL DEF Spec

\* When every message has been served: members on two nodes have met.
THEOREM CrossMeetAtRest == Spec => []MeetAtRest
<1>1. RestInv => MeetAtRest
  <2> SUFFICES ASSUME RestInv, Settled, AtRest, counts.faults = 0, ~counts.cut,
                      NEW m \in Nodes, NEW n \in Nodes, m # n,
                      Locals(channel[m]) # {}, Locals(channel[n]) # {}
               PROVE  Stubs(channel[m]) # {}
    BY DEF MeetAtRest, Knows
  <2>1. ~Busy
    BY DEF AtRest, Busy
  <2>2. Populated(n)
    BY LocalsPopulate DEF RestInv, AInv, CInv, NodeOK
  <2>3. MeetAt(m, n)
    BY <2>1, <2>2 DEF RestInv, MeetInv
  <2>4. bus[m] = << >> /\ bus[n] = << >>
    BY DEF AtRest
  <2> QED BY <2>3, <2>4, NothingIs DEF MeetAt, HasNote
<1> QED BY <1>1, CrossRestInductive, PTL

\* When every message has been served and every challenge answered: two nodes
\* that know of each other are both ACTIVE or neither is.
THEOREM CrossAgreeAtRest == Spec => []AgreeAtRest
<1>1. RestInv => AgreeAtRest
  <2> SUFFICES ASSUME RestInv, Settled, AtRest, counts.faults = 0,
                      NEW m \in Nodes, NEW n \in Nodes,
                      Both(channel[m]), Both(channel[n]), channel[m].state = "ACTIVE",
                      channel[n].state # "ACTIVE"
               PROVE  \E c \in ConnsOf(channel[n]) : view[c].type = "verify_rejected"
    BY DEF AgreeAtRest, Knows, Both
  <2> DEFINE k == channel[n]
  <2>1. /\ ChannelOK(n, k) /\ IndexedAt(n) /\ ChallengedAt(n) /\ ~Verified(k)
        /\ bus[m] = << >> /\ bus[n] = << >> /\ Serving(n)
    BY DEF RestInv, AInv, CInv, NodeOK, AtRest
  <2>2. Populated(n)
    BY <2>1, LocalsPopulate DEF Both
  <2>3. AgreeAt(m, n) /\ Ready(channel[m])
    BY <2>2 DEF RestInv, AgreeInv, Ready
  <2>4. Holding(k)
    BY <2>1, <2>3, NothingIs DEF AgreeAt
  <2>5. PICK s \in Stubs(k) : k.peers[s].answered
    BY <2>4 DEF Holding
  <2>6. PICK r : r \in Locals(k)
    BY DEF Both
  <2>7. /\ r \in Slot /\ s \in Slot /\ r # s
        /\ r \in Members(k) /\ s \in Members(k)
    BY <2>1, <2>5, <2>6, SlotIs DEF Stubs, Members, Locals
  <2>8. Members(k) = Slot
    BY <2>7 DEF Slot, Members
  <2>9. ~k.peers[r].answered
    BY <2>1, <2>5, <2>7 DEF Verified, Slot
  <2>10. k.state = "CHALLENGING"
    <3>1. k.state # "WAIT_PEER"
      BY <2>1, <2>8 DEF ChannelOK
    <3>2. k.state # "NONE"
      BY <2>1, <2>7, EmptyOK DEF ChannelOK
    <3> QED BY <2>1, <3>1, <3>2 DEF ChannelOK, Channel
  <2> DEFINE c == k.peers[r].conn
  <2>11. c \in ConnsOf(k) /\ c \in Conns
    BY <2>1, <2>6, <2>7, SlotIs DEF ConnsOf
  <2>12. view[c].type # "challenge"
    BY <2>6, <2>9 DEF AtRest
  <2>13. Open(c)
    <3>1. ~Away(c)
      BY <2>1, <2>11 DEF IndexedAt
    <3>2. handler[c].at = "reading" \/ handler[c].at = "closed"
      BY <2>11 DEF AtRest
    <3> QED BY <3>1, <3>2 DEF Away, Open
  <2>14. view[c].type \in {"challenge", "verify_rejected"}
    BY <2>1, <2>10, <2>11, <2>13 DEF ChallengedAt
  <2> QED BY <2>11, <2>12, <2>14
<1> QED BY <1>1, CrossRestInductive, PTL
=============================================================================
