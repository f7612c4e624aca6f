---------------------------- MODULE SessionProofs ----------------------------
(***************************************************************************)
(* Theorems about Session: the server's invariants hold with the Go client *)
(* in the loop; an answer that does not verify is always a stale one; and, *)
(* while no inbox is full, who is evicted without knowing it has an error  *)
(* on its way, and clients and server agree once nothing is under way.     *)
(* For every set of connections and every size of the inbox.               *)
(***************************************************************************)
EXTENDS Session, RelayViewsProofs, SequenceTheorems

-----------------------------------------------------------------------------
(* The inductive invariant                                                  *)

\* The frames client c may hold while channel k has drawn r nonces: an answer
\* of another client, made for no later a nonce than the one it is shown
\* with; and else nothing newer than the challenge that c has to answer.
Timely(c, k, r) ==
  {msg \in Frame :
     IF msg.type = "verify_peer"
     THEN msg.peer # IdOf[c] /\ (msg.nonce = 0 \/ msg.mac <= msg.nonce)
     ELSE /\ msg.nonce <= r
          /\ \A s \in SlotsOf(k, c) :
               k.peers[s].nonce = 0 \/ msg.nonce <= k.peers[s].nonce}

\* All that is pending for c is timely.
FramesOK(c) ==
  LET D == Timely(c, channels[Ch], reads) IN
  /\ down[c] \in Seq(D) /\ inbox[c] \in Seq(D) /\ returned[c] \in Seq(D)
  /\ taken[c] \in D

\* debounceChallenge holds a challenge; a client that has closed its end
\* knows no channel and reads nothing; the server closes only after it.
ClientOK(c) ==
  /\ Len(inbox[c]) <= InboxSize
  /\ phase[c] = "debouncing" => taken[c].type # "verify_peer"
  /\ Open(c) \/ phase[c] = "closed"
  /\ phase[c] = "closed" => known[c] = "none" /\ down[c] = << >>

\* A stored Response was made for no later a nonce than the one it answers.
MacsBound ==
  \A s \in Slot :
    LET m == channels[Ch].peers[s] IN
    m.answered => m.nonce = 0 \/ mac[m.conn] <= m.nonce

ClientTypeOK ==
  /\ down \in [Conns -> Seq(Frame)]
  /\ inbox \in [Conns -> Seq(Frame)]
  /\ returned \in [Conns -> Seq(Frame)]
  /\ phase \in [Conns -> Calling \cup {"idle", "done", "failed", "closed"}]
  /\ taken \in [Conns -> Frame]
  /\ known \in [Conns -> {"none", "inactive", "active"}]

SInv ==
  /\ IInv
  /\ mac \in [Conns -> Nonce]
  /\ MacsBound
  /\ ClientTypeOK
  /\ \A c \in Conns : FramesOK(c)
  /\ \A c \in Conns : ClientOK(c)

-----------------------------------------------------------------------------
(* Queues and frames                                                        *)

\* What the operations on a queue of elements of S give.
LEMMA Queue ==
  ASSUME NEW S, NEW q \in Seq(S)
  PROVE  /\ q # << >> => /\ Head(q) \in S /\ Tail(q) \in Seq(S)
                         /\ Len(Tail(q)) = Len(q) - 1
         /\ Len(q) \in Nat
         /\ \A e \in S : Append(q, e) \in Seq(S) /\ Len(Append(q, e)) = Len(q) + 1
         /\ \A i \in DOMAIN q : q[i] \in S /\ RemoveAt(q, i) \in Seq(S)
<1>1. q # << >> => /\ Head(q) \in S /\ Tail(q) \in Seq(S)
                   /\ Len(Tail(q)) = Len(q) - 1
  BY HeadTailProperties
<1>2. \A e \in S : Append(q, e) \in Seq(S) /\ Len(Append(q, e)) = Len(q) + 1
  BY AppendProperties
<1>3. \A i \in DOMAIN q : q[i] \in S /\ RemoveAt(q, i) \in Seq(S)
  BY DEF RemoveAt
<1> QED BY <1>1, <1>2, <1>3

\* An error, a peer_left or no frame at all may come at any time.
LEMMA PlainTimely ==
  ASSUME NEW c \in Conns, NEW k \in Channel, NEW r \in Nat,
         NEW type \in {"peer_left", "error", "none"}
  PROVE  Plain(type) \in Timely(c, k, r)
<1>1. /\ Plain(type) \in Frame /\ Plain(type).type # "verify_peer"
      /\ Plain(type).nonce = 0
  BY DEF Plain, Frame, Nonce
<1>2. \A s \in SlotsOf(k, c) : k.peers[s].nonce \in Nat
  BY DEF SlotsOf, Channel, Peer, ChannelMember, NoPeer, Nonce
<1> HIDE DEF Plain
<1> QED BY <1>1, <1>2 DEF Timely

-----------------------------------------------------------------------------
(* Steps of the server                                                      *)

\* Between k and l, with r nonces drawn before, a slot stays as it is or has
\* no challenge, or a new one, and no answer.
Settled(k, l, r) ==
  \A s \in Slot :
    \/ l.peers[s] = k.peers[s]
    \/ ~l.peers[s].answered /\ (l.peers[s].nonce = 0 \/ l.peers[s].nonce > r)

\* The same without the answers.
NoncesKept(k, l, r) ==
  \A s \in Slot :
    \/ l.peers[s].conn = k.peers[s].conn /\ l.peers[s].nonce = k.peers[s].nonce
    \/ l.peers[s].nonce = 0
    \/ l.peers[s].nonce > r

\* A slot that stays as it is keeps its connection and its nonce.
LEMMA SettledKeepsNonces ==
  ASSUME NEW k, NEW l, NEW r, Settled(k, l, r) PROVE NoncesKept(k, l, r)
BY DEF Settled, NoncesKept

\* Time passes, and what was timely still is: nonces only grow.
LEMMA TimelyKept ==
  ASSUME NEW k \in Channel, NEW l \in Channel, NEW r \in Nat, NEW q \in Nat,
         r <= q, NoncesKept(k, l, r), NEW c \in Conns
  PROVE  Timely(c, k, r) \subseteq Timely(c, l, q)
<1> SUFFICES ASSUME NEW msg \in Timely(c, k, r), msg.type # "verify_peer"
             PROVE  /\ msg.nonce <= q
                    /\ \A s \in SlotsOf(l, c) :
                         l.peers[s].nonce = 0 \/ msg.nonce <= l.peers[s].nonce
  BY DEF Timely
<1>1. msg.nonce \in Nat /\ msg.nonce <= r
  BY DEF Timely, Frame, Nonce
<1>2. ASSUME NEW s \in SlotsOf(l, c)
      PROVE  l.peers[s].nonce = 0 \/ msg.nonce <= l.peers[s].nonce
  <2>1. s \in Slot /\ l.peers[s].conn = c /\ l.peers[s].nonce \in Nat
    BY DEF SlotsOf, Channel, Peer, ChannelMember, NoPeer, Nonce
  <2>2. CASE k.peers[s].conn = c /\ l.peers[s].nonce = k.peers[s].nonce
    BY <2>1, <2>2 DEF Timely, SlotsOf
  <2>3. CASE l.peers[s].nonce > r
    BY <1>1, <2>1, <2>3
  <2> QED BY <2>1, <2>2, <2>3 DEF NoncesKept
<1> QED BY <1>1, <1>2

\* What KeepMacs keeps is still bounded.
LEMMA MacsKept ==
  ASSUME SInv, IInv', KeepMacs, Settled(channels[Ch], channels'[Ch], reads)
  PROVE  mac' \in [Conns -> Nonce] /\ MacsBound'
<1>1. mac' \in [Conns -> Nonce]
  BY DEF KeepMacs, SInv, Nonce
<1>2. ASSUME NEW s \in Slot, channels'[Ch].peers[s].answered
      PROVE  \/ channels'[Ch].peers[s].nonce = 0
             \/ mac'[channels'[Ch].peers[s].conn] <= channels'[Ch].peers[s].nonce
  <2> DEFINE m == channels'[Ch].peers[s]
  <2>1. channels'[Ch] \in Channel
    BY ChAssumption DEF IInv, TypeOK
  <2>2. m.conn \in Conns /\ m = channels[Ch].peers[s]
    BY <1>2, <2>1 DEF Settled, Channel, Peer, ChannelMember, NoPeer
  <2>3. s \in SlotsOf(channels'[Ch], m.conn)
    BY DEF SlotsOf
  <2>4. mac'[m.conn] = mac[m.conn]
    BY <1>2, <2>2, <2>3 DEF KeepMacs
  <2> QED BY <1>2, <2>2, <2>4 DEF SInv, MacsBound
<1> QED BY <1>1, <1>2 DEF MacsBound

\* What the channel of a join is before the joining connection is seated.
LEMMA SettledOpened ==
  ASSUME IInv, NEW c \in Conns
  PROVE  /\ Settled(channels[Ch], AfterReplacement(c, Opened(Ch)), reads)
         /\ \A s \in Slot :
              AfterReplacement(c, Opened(Ch)).peers[s].conn # NoConn
                => IdOf[AfterReplacement(c, Opened(Ch)).peers[s].conn] # IdOf[c]
<1> DEFINE o == Opened(Ch)
           k == AfterReplacement(c, o)
<1>1. channels[Ch] \in Channel /\ o \in Channel /\ k \in Channel
  BY ChAssumption, OpenedType, AfterReplacementType DEF IInv, TypeOK
<1>2. \A s \in Slot : o.peers[s] = channels[Ch].peers[s] \/ o.peers[s] = NoPeer
  BY DEF Opened, NoPeers
<1>3. \A s \in Slot : k.peers[s] = o.peers[s] \/ k.peers[s] = NoPeer
  BY <1>1 DEF AfterReplacement, Channel
<1>4. Settled(channels[Ch], k, reads)
  BY <1>2, <1>3 DEF Settled, NoPeer
<1>5. ASSUME NEW s \in Slot, k.peers[s].conn # NoConn
      PROVE  IdOf[k.peers[s].conn] # IdOf[c]
  <2>1. k.peers[s] = o.peers[s] /\ o.peers[s].conn \notin Replaced(c, o)
    BY <1>1, <1>5 DEF AfterReplacement, Channel, NoPeer
  <2>2. o.peers[s].conn \in ConnsOf(o)
    BY <1>5, <2>1 DEF ConnsOf, Members
  <2> QED BY <2>1, <2>2 DEF Replaced
<1> QED BY <1>4, <1>5

\* Taking a member out leaves neither challenge nor answer behind,
LEMMA SettledWithout ==
  ASSUME NEW k \in Channel, NEW s \in Slot, NEW r
  PROVE  Settled(k, Without(k, s), r)
<1>1. CASE Members(k) \ {s} = {}
  BY <1>1 DEF Without, Settled, Channel, NoPeer
<1>2. CASE Members(k) \ {s} # {}
  BY <1>2 DEF Without, BackToWait, Settled, NoPeer
<1> QED BY <1>1, <1>2

\* nor does emptying the channel,
LEMMA SettledEmptied ==
  ASSUME NEW k, NEW r
  PROVE  Settled(k, k, r) /\ Settled(k, NoChannel, r)
BY DEF Settled, NoChannel, NoPeers, NoPeer

\* nor does a join, which draws new nonces.
LEMMA SettledJoin ==
  ASSUME IInv, NEW c \in Conns, HandleJoin(c, Ch)
  PROVE  reads' >= reads /\ Settled(channels[Ch], channels'[Ch], reads)
<1> DEFINE o == Opened(Ch)
           k == AfterReplacement(c, o)
<1>1. /\ channels[Ch] \in Channel /\ o \in Channel /\ k \in Channel
      /\ reads \in Nat /\ Ch \in DOMAIN channels
  BY ChAssumption, OpenedType, AfterReplacementType DEF IInv, TypeOK
<1>2. Settled(channels[Ch], k, reads)
  BY SettledOpened
<1>3. ASSUME NEW l, l.peers = k.peers PROVE Settled(channels[Ch], l, reads)
  BY <1>2, <1>3 DEF Settled
<1> HIDE DEF k
<1>4. CASE JoinFirst(c, Ch)
  <2>1. /\ reads' = reads + 1
        /\ channels'[Ch].peers = [k.peers EXCEPT ![0] =
             [conn |-> c, nonce |-> reads + 1, answered |-> FALSE]]
    BY <1>1, <1>4 DEF JoinFirst, Draw, BackToWait, Seat, k, Channel
  <2>2. DOMAIN k.peers = Slot
    BY <1>1 DEF Channel
  <2> QED BY <1>1, <1>2, <2>1, <2>2 DEF Settled, Slot
<1>5. CASE JoinSecond(c, Ch)
  <2>1. reads' = reads + 2
    BY <1>5 DEF JoinSecond, Draw
  <2>2. channels'[Ch] =
          [Seat(Seat(k, FreeSlot(k), c, reads + 1), 1 - FreeSlot(k),
                k.peers[1 - FreeSlot(k)].conn, reads + 2)
             EXCEPT !.state = "CHALLENGING"]
    BY <1>1, <1>5 DEF JoinSecond, k
  <2>3. ASSUME NEW s \in Slot
        PROVE  ~channels'[Ch].peers[s].answered /\ channels'[Ch].peers[s].nonce > reads
    <3>1. CASE FreeSlot(k) = 0
      BY <1>1, <2>2, <3>1 DEF Seat, Channel, Slot
    <3>2. CASE FreeSlot(k) = 1
      BY <1>1, <2>2, <3>2 DEF Seat, Channel, Slot
    <3> QED BY <3>1, <3>2 DEF FreeSlot
  <2> QED BY <1>1, <2>1, <2>3 DEF Settled
<1>6. CASE JoinNonceFails(c, Ch)
  BY <1>1, <1>3, <1>6 DEF JoinNonceFails, Draw, k
<1>7. CASE JoinSecondNonceFails(c, Ch)
  <2>1. channels'[Ch].peers = k.peers /\ reads' = reads + 2
    BY <1>1, <1>7 DEF JoinSecondNonceFails, Draw, BackToWait, k
  <2> QED BY <1>1, <1>3, <2>1
<1> QED BY <1>4, <1>5, <1>6, <1>7 DEF HandleJoin

\* verify_rejected drops the channel with its answers.
LEMMA SettledVerifyRejected ==
  ASSUME IInv, NEW c \in Conns, HandleVerifyRejected(c, Ch)
  PROVE  reads' = reads /\ Settled(channels[Ch], channels'[Ch], reads)
<1>1. reads' = reads /\ channels'[Ch] = NoChannel
  BY ChAssumption DEF HandleVerifyRejected, IInv, TypeOK
<1> QED BY <1>1, SettledEmptied

\* Steps of the server that no client asked for.
ServerStep ==
  \/ \E c \in Conns : SendRejected(c) \/ UnregisterConn(c)
  \/ FireChallenge \/ FireWait \/ FinishDelete

\* What the server does of itself draws no nonce either.
LEMMA SettledServerStep ==
  ASSUME IInv, ServerStep
  PROVE  reads' = reads /\ Settled(channels[Ch], channels'[Ch], reads)
<1>1. Ch \in ChIds /\ channels[Ch] \in Channel
  BY ChAssumption DEF IInv, TypeOK
<1>2. ASSUME NEW c \in Conns, SendRejected(c)
      PROVE  reads' = reads /\ Settled(channels[Ch], channels'[Ch], reads)
  BY <1>2, SettledEmptied DEF SendRejected
<1>3. ASSUME NEW c \in Conns, UnregisterConn(c)
      PROVE  reads' = reads /\ Settled(channels[Ch], channels'[Ch], reads)
  <2>1. reads' = reads /\ channels'[Ch] \in {Cut(c, Ch), channels[Ch]}
    BY <1>1, <1>3 DEF UnregisterConn
  <2>2. SlotOf(channels[Ch], c) \in Slot
    BY DEF SlotOf, Slot
  <2>3. Cut(c, Ch) \in {channels[Ch], NoChannel,
                        Without(channels[Ch], SlotOf(channels[Ch], c))}
    BY DEF Cut
  <2> QED BY <1>1, <2>1, <2>2, <2>3, SettledEmptied, SettledWithout
<1>4. ASSUME NEW c \in Conns, NEW ch \in ChIds, ChallengeTimeout(c, ch)
      PROVE  reads' = reads /\ Settled(channels[Ch], channels'[Ch], reads)
  <2>1. ch = Ch /\ reads' = reads
    BY <1>4, ChAssumption DEF ChallengeTimeout
  <2>2. \/ channels' = channels
        \/ \E s \in Slot : channels' = [channels EXCEPT ![Ch] = Without(channels[Ch], s)]
    BY <1>4, <2>1 DEF ChallengeTimeout, Expire, SlotsOf
  <2>3. channels'[Ch] = channels[Ch]
        \/ \E s \in Slot : channels'[Ch] = Without(channels[Ch], s)
    BY <1>1, <2>2 DEF IInv, TypeOK
  <2> QED BY <1>1, <2>1, <2>3, SettledEmptied, SettledWithout
<1>5. ASSUME NEW t \in waitTimers, WaitPeerTimeout(t)
      PROVE  reads' = reads /\ Settled(channels[Ch], channels'[Ch], reads)
  <2>1. t.ch = Ch
    BY ChAssumption DEF IInv, TypeOK, WaitTimer
  <2>2. reads' = reads /\ (channels' = channels \/ channels'[Ch].peers = NoPeers)
    BY <1>1, <1>5, <2>1 DEF WaitPeerTimeout, IInv, TypeOK, Channel
  <2> QED BY <2>2 DEF Settled, NoPeers, NoPeer
<1>6. ASSUME NEW d \in deletes, DeferredDelete(d)
      PROVE  reads' = reads /\ Settled(channels[Ch], channels'[Ch], reads)
  <2>1. reads' = reads /\ channels'[Ch] \in {NoChannel, channels[Ch]}
    BY <1>1, <1>6 DEF DeferredDelete, DeleteIfSame, IInv, TypeOK
  <2> QED BY <2>1, SettledEmptied
<1> QED BY <1>2, <1>3, <1>4, <1>5, <1>6
        DEF ServerStep, FireChallenge, FireWait, FinishDelete

-----------------------------------------------------------------------------
(* What the clients are sent                                                *)

\* What d hears in a step that shows nobody to anybody: a challenge is the
\* one that the channel now holds for it.
NewsOK(d) ==
  LET v == view'[d][Ch] IN
  \/ v.type \notin {"challenge", "verify_peer"}
  \/ /\ v.type = "challenge" /\ v.nonce <= reads'
     /\ \A s \in SlotsOf(channels'[Ch], d) : channels'[Ch].peers[s].nonce = v.nonce

\* What the server sends is timely: a challenge has the member's nonce, and an
\* introduction that of the other member, with the answer it gave.
LEMMA FrameTimely ==
  ASSUME IInv', NEW d \in Conns,
         d \notin ConnsOf(channels'[Ch]) \/ NewsOK(d)
  PROVE  FrameTo(d) \in Timely(d, channels'[Ch], reads')
<1>1. /\ channels'[Ch] \in Channel /\ reads' \in Nat
      /\ view'[d][Ch] \in Notice
  BY ChAssumption DEF IInv, TypeOK
<1>2. /\ Plain("error") \in Timely(d, channels'[Ch], reads')
      /\ Plain("peer_left") \in Timely(d, channels'[Ch], reads')
  BY <1>1, PlainTimely
<1>3. CASE d \notin ConnsOf(channels'[Ch])
  BY <1>2, <1>3 DEF FrameTo
<1>4. CASE d \in ConnsOf(channels'[Ch]) /\ view'[d][Ch].type = "challenge"
  <2>1. FrameTo(d) = [type |-> "challenge", nonce |-> view'[d][Ch].nonce,
                      mac |-> 0, peer |-> NoId]
    BY <1>4 DEF FrameTo, Plain
  <2>2. NewsOK(d)
    BY <1>4
  <2>3. FrameTo(d) \in Frame
    BY <1>1, <2>1 DEF Frame, Notice, Nonce
  <2> QED BY <1>1, <1>4, <2>1, <2>2, <2>3 DEF Timely, NewsOK, Notice, Nonce
<1>5. CASE /\ d \in ConnsOf(channels'[Ch])
           /\ view'[d][Ch].type \notin {"challenge", "verify_peer"}
  <2>1. FrameTo(d) \in {Plain("error"), Plain("peer_left")}
    BY <1>5 DEF FrameTo
  <2> QED BY <1>2, <2>1
<1> QED BY <1>3, <1>4, <1>5 DEF NewsOK

\* There is one channel only.
LEMMA OneView ==
  ASSUME IInv, IInv', NEW d \in Conns, view'[d] # view[d]
  PROVE  view'[d][Ch] # view[d][Ch]
BY ChAssumption, SMTT(30) DEF IInv, TypeOK

\* The news of a join: challenges with the new nonces.
LEMMA NewsJoin ==
  ASSUME IInv, IInv', NEW c \in Conns, HandleJoin(c, Ch),
         NEW d \in Conns, view'[d] # view[d], d \in ConnsOf(channels'[Ch])
  PROVE  NewsOK(d)
<1> DEFINE o == Opened(Ch)
           k == AfterReplacement(c, o)
           old == Replaced(c, o)
<1>1. /\ channels[Ch] \in Channel /\ o \in Channel /\ k \in Channel
      /\ reads \in Nat /\ Ch \in ChIds /\ Ch \in DOMAIN channels /\ view \in ViewType
  BY ChAssumption, OpenedType, AfterReplacementType DEF IInv, TypeOK, ViewType
<1>2. view'[d][Ch] # view[d][Ch]
  BY OneView
<1>3. \A s \in Slot : k.peers[s].conn # NoConn => IdOf[k.peers[s].conn] # IdOf[c]
  BY SettledOpened
<1>4. c # NoConn
  BY ConnsAssumption
<1> HIDE DEF k, old
<1>5. CASE JoinFirst(c, Ch)
  <2>1. /\ reads' = reads + 1
        /\ channels'[Ch].peers = [k.peers EXCEPT ![0] =
             [conn |-> c, nonce |-> reads + 1, answered |-> FALSE]]
        /\ Members(k) = {}
    BY <1>1, <1>5 DEF JoinFirst, Draw, BackToWait, Seat, k, Channel
  <2>2. Tell(Ch, [e \in old \cup {c} |->
                    IF e = c THEN Challenge(reads + 1) ELSE Note("out")])
    BY <1>5 DEF JoinFirst, k, old
  <2>3. view'[d][Ch] = IF d = c THEN Challenge(reads + 1) ELSE Note("out")
    BY <1>1, <1>2, <2>2, TellView
  <2>4. DOMAIN k.peers = Slot
    BY <1>1 DEF Channel
  <2>5. CASE d = c
    <3>1. \A s \in SlotsOf(channels'[Ch], c) : channels'[Ch].peers[s].nonce = reads + 1
      BY <1>4, <2>1, <2>4 DEF SlotsOf, Slot, Members
    <3> QED BY <1>1, <2>1, <2>3, <2>5, <3>1 DEF NewsOK, Challenge
  <2>6. CASE d # c
    BY <2>3, <2>6 DEF NewsOK, Note
  <2> QED BY <2>5, <2>6
<1>6. CASE JoinSecond(c, Ch)
  <2> DEFINE f == FreeSlot(k)
             p == k.peers[1 - f].conn
  <2>1. reads' = reads + 2 /\ Members(k) = {1 - f} /\ f \in Slot
    BY <1>6 DEF JoinSecond, Draw, k, FreeSlot, Slot
  <2>2. channels'[Ch] = [Seat(Seat(k, f, c, reads + 1), 1 - f, p, reads + 2)
                           EXCEPT !.state = "CHALLENGING"]
    BY <1>1, <1>6 DEF JoinSecond, k
  <2>3. Tell(Ch, [e \in old \cup {c, p} |->
                    CASE e = c -> Challenge(reads + 1)
                      [] e = p -> Challenge(reads + 2)
                      [] OTHER -> Note("out")])
    BY <1>6 DEF JoinSecond, k, old
  <2>4. p # c /\ p # NoConn
    <3>1. 1 - f \in Slot /\ p # NoConn
      BY <2>1 DEF Members, Slot
    <3> QED BY <1>3, <3>1
  <2>5. view'[d][Ch] = CASE d = c -> Challenge(reads + 1)
                         [] d = p -> Challenge(reads + 2)
                         [] OTHER -> Note("out")
    BY <1>1, <1>2, <2>3, TellView
  <2>6. /\ channels'[Ch].peers[f] =
             [conn |-> c, nonce |-> reads + 1, answered |-> FALSE]
        /\ channels'[Ch].peers[1 - f] =
             [conn |-> p, nonce |-> reads + 2, answered |-> FALSE]
    <3> DEFINE j == [conn |-> c, nonce |-> reads + 1, answered |-> FALSE]
               m == [conn |-> p, nonce |-> reads + 2, answered |-> FALSE]
    <3>1. channels'[Ch].peers = [k.peers EXCEPT ![f] = j, ![1 - f] = m]
      BY <1>1, <2>2 DEF Seat, Channel
    <3>2. DOMAIN k.peers = Slot /\ 1 - f \in Slot /\ f # 1 - f
      BY <1>1, <2>1 DEF Channel, Slot
    <3> HIDE DEF j, m, f, p
    <3>3. channels'[Ch].peers[f] = j /\ channels'[Ch].peers[1 - f] = m
      BY <2>1, <3>1, <3>2
    <3> QED BY <3>3 DEF j, m
  <2>7. \A s \in Slot : s = f \/ s = 1 - f
    BY <2>1 DEF Slot
  <2> HIDE DEF f, p
  <2>8. CASE d = c
    <3>1. \A s \in SlotsOf(channels'[Ch], c) : channels'[Ch].peers[s].nonce = reads + 1
      BY <2>4, <2>6, <2>7 DEF SlotsOf
    <3>2. view'[d][Ch] = Challenge(reads + 1)
      BY <2>4, <2>5, <2>8
    <3> QED BY <1>1, <2>1, <2>8, <3>1, <3>2 DEF NewsOK, Challenge
  <2>9. CASE d = p
    <3>1. \A s \in SlotsOf(channels'[Ch], p) : channels'[Ch].peers[s].nonce = reads + 2
      BY <2>4, <2>6, <2>7 DEF SlotsOf
    <3>2. view'[d][Ch] = Challenge(reads + 2)
      BY <2>4, <2>5, <2>9
    <3> QED BY <1>1, <2>1, <2>9, <3>1, <3>2 DEF NewsOK, Challenge
  <2>10. CASE d # c /\ d # p
    <3>1. view'[d][Ch] = Note("out")
      BY <2>5, <2>10
    <3> QED BY <3>1 DEF NewsOK, Note
  <2> QED BY <2>8, <2>9, <2>10
<1>7. CASE JoinNonceFails(c, Ch) \/ JoinSecondNonceFails(c, Ch)
  <2>1. Tell(Ch, [e \in old |-> Note("out")])
    BY <1>7 DEF JoinNonceFails, JoinSecondNonceFails, old
  <2>2. view'[d][Ch] = Note("out")
    BY <1>1, <1>2, <2>1, TellView
  <2> QED BY <2>2 DEF NewsOK, Note
<1> QED BY <1>5, <1>6, <1>7 DEF HandleJoin

\* The steps of the server alone tell of a peer that left or of an eviction.
LEMMA NewsServerStep ==
  ASSUME IInv, IInv', ServerStep, NEW d \in Conns, view'[d] # view[d]
  PROVE  NewsOK(d)
<1>1. Ch \in ChIds /\ view \in ViewType
  BY ChAssumption DEF IInv, TypeOK, ViewType
<1>2. view'[d][Ch] # view[d][Ch]
  BY OneView
<1> SUFFICES view'[d][Ch].type \in {"out", "verify_rejected", "peer_left"}
  BY DEF NewsOK
<1>3. ASSUME NEW c \in Conns, SendRejected(c)
      PROVE  view'[d][Ch].type = "verify_rejected"
  <2>1. Tell(handler[c].ch, [e \in {handler[c].to} |-> Note("verify_rejected")])
    BY <1>3 DEF SendRejected
  <2>2. handler[c].ch \in ChIds
    BY <1>3 DEF SendRejected, IInv, TypeOK, Handler
  <2>3. view'[d][Ch] = Note("verify_rejected")
    BY <1>1, <1>2, <2>1, <2>2, TellView
  <2> QED BY <2>3 DEF Note
<1>4. ASSUME NEW c \in Conns, UnregisterConn(c)
      PROVE  view'[d][Ch].type = "peer_left"
  <2>1. view'[d][Ch] = Note("peer_left")
    BY <1>1, <1>2, <1>4 DEF UnregisterConn
  <2> QED BY <2>1 DEF Note
<1>5. ASSUME NEW c \in Conns, NEW ch \in ChIds, ChallengeTimeout(c, ch)
      PROVE  view'[d][Ch].type = "out"
  <2>1. ~UNCHANGED view
    BY <1>2
  <2>2. Tell(ch, [e \in {c} |-> Note("out")])
    BY <1>5, <2>1 DEF ChallengeTimeout, Expire
  <2>3. view'[d][Ch] = Note("out")
    BY <1>1, <1>2, <2>2, TellView
  <2> QED BY <2>3 DEF Note
<1>6. ASSUME NEW t \in waitTimers, WaitPeerTimeout(t)
      PROVE  view'[d][Ch].type = "out"
  <2>1. ~UNCHANGED view /\ t.ch \in ChIds
    BY <1>2 DEF IInv, TypeOK, WaitTimer
  <2>2. Tell(t.ch, [e \in ConnsOf(channels[t.ch]) |-> Note("out")])
    BY <1>6, <2>1 DEF WaitPeerTimeout
  <2>3. view'[d][Ch] = Note("out")
    BY <1>1, <1>2, <2>1, <2>2, TellView
  <2> QED BY <2>3 DEF Note
<1>7. ~FinishDelete
  BY <1>2 DEF FinishDelete, DeferredDelete
<1> QED BY <1>3, <1>4, <1>5, <1>6, <1>7 DEF ServerStep, FireChallenge, FireWait

-----------------------------------------------------------------------------
(* A response                                                               *)

\* The nonce n is none that c is challenged with later than now.
NotAhead(c, n) ==
  /\ n \in Nat
  /\ \A s \in SlotsOf(channels[Ch], c) :
       channels[Ch].peers[s].nonce = 0 \/ n <= channels[Ch].peers[s].nonce

\* Each connection has at most one slot, and it is the one SlotOf gives.
LEMMA OneSlot ==
  ASSUME IInv, NEW c \in Conns, NEW s \in SlotsOf(channels[Ch], c)
  PROVE  s = SlotOf(channels[Ch], c)
<1>1. \A t \in SlotsOf(channels[Ch], c) : t \in Members(channels[Ch])
  BY ConnsAssumption DEF SlotsOf, Members
<1>2. DistinctOK(channels[Ch])
  BY ChAssumption DEF IInv, ChannelOK
<1>3. ASSUME NEW t \in SlotsOf(channels[Ch], c) PROVE t = s
  BY <1>1, <1>2 DEF DistinctOK, SlotsOf
<1>4. CASE s = 0
  BY <1>4 DEF SlotsOf, SlotOf
<1>5. CASE s = 1
  <2>1. 0 \notin SlotsOf(channels[Ch], c)
    BY <1>3, <1>5
  <2> QED BY <1>5, <2>1 DEF SlotsOf, SlotOf, Slot
<1> QED BY <1>4, <1>5 DEF SlotsOf, Slot

\* The channel after a response: no nonce changes but to be cleared, and the
\* answers that stay are made for no later a nonce.
LEMMA ResponseKeeps ==
  ASSUME SInv, NEW c \in Conns, NEW n, NotAhead(c, n),
         HandleResponse(c, Ch), mac' = [mac EXCEPT ![c] = n]
  PROVE  /\ reads' = reads /\ handler' = handler
         /\ NoncesKept(channels[Ch], channels'[Ch], reads)
         /\ mac' \in [Conns -> Nonce] /\ MacsBound'
<1> DEFINE k == channels[Ch]
<1>1. /\ reads' = reads /\ handler' = handler
      /\ mac' \in [Conns -> Nonce]
  BY DEF HandleResponse, SInv, NotAhead, Nonce
<1>2. k \in Channel /\ Ch \in DOMAIN channels
  BY ChAssumption DEF SInv, IInv, TypeOK
<1>3. PICK s \in SlotsOf(k, c) : channels'[Ch] \in {Answered(k, s), Activated(k)}
  BY <1>2 DEF HandleResponse
<1>4. s \in Slot /\ k.peers[s].conn = c
  BY DEF SlotsOf
<1> HIDE DEF k
<1>5. CASE channels'[Ch] = Answered(k, s)
  <2>1. /\ \A t \in Slot \ {s} : channels'[Ch].peers[t] = k.peers[t]
        /\ channels'[Ch].peers[s].conn = k.peers[s].conn
        /\ channels'[Ch].peers[s].nonce = k.peers[s].nonce
    BY <1>2, <1>4, <1>5 DEF Answered, Channel, Peer, ChannelMember, NoPeer
  <2>2. NoncesKept(k, channels'[Ch], reads)
    BY <2>1 DEF NoncesKept
  <2>3. ASSUME NEW t \in Slot, channels'[Ch].peers[t].answered
        PROVE  LET m == channels'[Ch].peers[t] IN
               m.nonce = 0 \/ mac'[m.conn] <= m.nonce
    <3>1. CASE k.peers[t].conn = c
      <4>1. /\ channels'[Ch].peers[t].conn = c
            /\ channels'[Ch].peers[t].nonce = k.peers[t].nonce
        BY <1>4, <2>1, <3>1
      <4>2. mac'[c] = n /\ t \in SlotsOf(k, c)
        BY <3>1 DEF SInv, SlotsOf
      <4> QED BY <4>1, <4>2 DEF NotAhead, k
    <3>2. CASE k.peers[t].conn # c
      <4>1. channels'[Ch].peers[t] = k.peers[t]
        BY <1>4, <2>1, <3>2
      <4>2. k.peers[t].conn \in Conns
        BY <1>2, <2>3, <4>1 DEF Channel, Peer, ChannelMember, NoPeer
      <4>3. mac'[k.peers[t].conn] = mac[k.peers[t].conn]
        BY <3>2, <4>2 DEF SInv
      <4> QED BY <2>3, <4>1, <4>3 DEF SInv, MacsBound, k
    <3> QED BY <3>1, <3>2
  <2> QED BY <1>1, <2>2, <2>3 DEF MacsBound, k
<1>6. CASE channels'[Ch] = Activated(k)
  <2>1. \A t \in Slot : /\ channels'[Ch].peers[t].nonce = 0
                        /\ ~channels'[Ch].peers[t].answered
    BY <1>2, <1>6 DEF Activated, Channel
  <2> QED BY <1>1, <2>1 DEF MacsBound, NoncesKept
<1> QED BY <1>3, <1>5, <1>6

\* In an activation each of the two is shown the other's answer.
LEMMA AnswerShown ==
  ASSUME SInv, NEW c \in Conns, NEW n \in Nat,
         HandleResponse(c, Ch), mac' = [mac EXCEPT ![c] = n],
         Completes(channels[Ch], SlotOf(channels[Ch], c)),
         NEW d \in ConnsOf(channels[Ch]), Open(d)
  PROVE  LET k == channels[Ch]
             other == k.peers[OtherSlot(k, d)]
         IN /\ k.peers[SlotOf(k, d)].conn = d /\ OtherSlot(k, d) \in Slot
            /\ other.conn \in Conns /\ IdOf[other.conn] # IdOf[d]
            /\ other.nonce \in Nat /\ mac'[other.conn] \in Nat
            /\ other.conn = c \/ (other.answered /\ mac'[other.conn] = mac[other.conn])
            /\ FrameTo(d) = [type |-> "verify_peer", nonce |-> other.nonce,
                             mac |-> mac'[other.conn], peer |-> IdOf[other.conn]]
<1> DEFINE k == channels[Ch]
           s == SlotOf(k, c)
           u == OtherSlot(k, d)
           other == k.peers[u]
<1>1. /\ k \in Channel /\ Ch \in ChIds /\ Ch \in DOMAIN channels
      /\ view \in ViewType /\ d \in Conns
  BY ChAssumption, ConnsOfType DEF SInv, IInv, TypeOK, ViewType
<1>2. /\ s \in SlotsOf(k, c) /\ s \in Slot /\ k.peers[s].conn = c
      /\ channels' = [channels EXCEPT ![Ch] = Activated(k)]
      /\ Tell(Ch, [e \in ConnsOf(k) |-> VerifyPeer(k.peers[OtherSlot(k, e)])])
  <2>1. PICK t \in SlotsOf(k, c) :
          \/ ~Completes(k, t)
          \/ /\ channels' = [channels EXCEPT ![Ch] = Activated(k)]
             /\ Tell(Ch, [e \in ConnsOf(k) |->
                            VerifyPeer(k.peers[OtherSlot(k, e)])])
    BY DEF HandleResponse
  <2>2. t = s
    BY OneSlot DEF SInv
  <2> QED BY <2>1, <2>2 DEF SlotsOf
<1>3. \A t \in Slot \ {s} : k.peers[t].answered /\ k.peers[t].conn \in Conns
  BY <1>1 DEF Completes, Channel, Peer, ChannelMember, NoPeer
<1>4. Members(k) = Slot
  BY <1>2, <1>3, ConnsAssumption DEF Members
<1>5. u \in Slot /\ SlotOf(k, d) \in Slot /\ u # SlotOf(k, d)
  BY DEF OtherSlot, SlotOf, Slot
<1>6. k.peers[SlotOf(k, d)].conn = d
  <2>1. PICK t \in Slot : k.peers[t].conn = d
    BY DEF ConnsOf, Members
  <2> QED BY <2>1 DEF SlotOf, Slot
<1>7. other.conn \in Conns /\ IdOf[other.conn] # IdOf[d]
  <2>1. DistinctOK(k)
    BY ChAssumption DEF SInv, IInv, ChannelOK
  <2>2. IdOf[other.conn] # IdOf[d]
    BY <1>4, <1>5, <1>6, <2>1 DEF DistinctOK
  <2> QED BY <1>2, <1>3, <1>5, <2>2
<1>8. /\ other.nonce \in Nat
      /\ other.conn = c \/ (other.answered /\ mac'[other.conn] = mac[other.conn])
  <2>1. other.nonce \in Nat
    BY <1>1, <1>5 DEF Channel, Peer, ChannelMember, NoPeer, Nonce
  <2>2. CASE other.conn # c
    <3>1. other.answered /\ mac'[other.conn] = mac[other.conn]
      BY <1>2, <1>3, <1>5, <1>7, <2>2 DEF SInv
    <3> QED BY <2>1, <3>1
  <2> QED BY <2>1, <2>2
<1>9. /\ mac'[other.conn] \in Nat
      /\ view'[d][Ch] = VerifyPeer(other)
      /\ d \in ConnsOf(channels'[Ch])
  <2>1. mac' \in [Conns -> Nonce]
    BY DEF SInv, Nonce
  <2>2. view'[d][Ch] = VerifyPeer(other)
    <3> DEFINE notices == [e \in ConnsOf(k) |-> VerifyPeer(k.peers[OtherSlot(k, e)])]
    <3>1. notices[d] = VerifyPeer(other) /\ d \in DOMAIN notices
      OBVIOUS
    <3>2. Tell(Ch, notices)
      BY <1>2
    <3> HIDE DEF notices
    <3> QED BY <1>1, <3>1, <3>2, TellView
  <2>3. channels'[Ch].peers[SlotOf(k, d)].conn = d
    <3>1. channels'[Ch] = Activated(k)
      BY <1>1, <1>2
    <3>2. Activated(k).peers[SlotOf(k, d)].conn = k.peers[SlotOf(k, d)].conn
      BY <1>1, <1>5 DEF Activated, Channel
    <3> QED BY <1>6, <3>1, <3>2
  <2>4. d \in ConnsOf(channels'[Ch])
    BY <1>1, <1>5, <2>3, ConnsAssumption DEF ConnsOf, Members
  <2> QED BY <1>7, <2>1, <2>2, <2>4 DEF Nonce
<1>10. FrameTo(d) = [type |-> "verify_peer", nonce |-> other.nonce,
                     mac |-> mac'[other.conn], peer |-> IdOf[other.conn]]
  BY <1>9 DEF FrameTo, VerifyPeer
<1> QED BY <1>5, <1>6, <1>7, <1>8, <1>9, <1>10

\* That is a timely frame.
LEMMA ResponseFrames ==
  ASSUME SInv, NEW c \in Conns, NEW n, NotAhead(c, n),
         HandleResponse(c, Ch), mac' = [mac EXCEPT ![c] = n],
         Completes(channels[Ch], SlotOf(channels[Ch], c)),
         NEW d \in ConnsOf(channels[Ch]), Open(d)
  PROVE  FrameTo(d) \in Timely(d, channels'[Ch], reads')
<1> DEFINE k == channels[Ch]
           u == OtherSlot(k, d)
           other == k.peers[u]
<1>1. /\ u \in Slot /\ other.conn \in Conns /\ IdOf[other.conn] # IdOf[d]
      /\ other.nonce \in Nat /\ mac'[other.conn] \in Nat
      /\ other.conn = c \/ (other.answered /\ mac'[other.conn] = mac[other.conn])
      /\ FrameTo(d) = [type |-> "verify_peer", nonce |-> other.nonce,
                       mac |-> mac'[other.conn], peer |-> IdOf[other.conn]]
  <2>1. n \in Nat
    BY DEF NotAhead
  <2>2. LET j == channels[Ch]
            o == j.peers[OtherSlot(j, d)]
        IN /\ j.peers[SlotOf(j, d)].conn = d /\ OtherSlot(j, d) \in Slot
           /\ o.conn \in Conns /\ IdOf[o.conn] # IdOf[d]
           /\ o.nonce \in Nat /\ mac'[o.conn] \in Nat
           /\ o.conn = c \/ (o.answered /\ mac'[o.conn] = mac[o.conn])
           /\ FrameTo(d) = [type |-> "verify_peer", nonce |-> o.nonce,
                            mac |-> mac'[o.conn], peer |-> IdOf[o.conn]]
    BY <2>1, AnswerShown, Zenon
  <2> QED BY <2>2
<1>2. other.nonce = 0 \/ mac'[other.conn] <= other.nonce
  <2>1. CASE other.conn = c
    <3>1. u \in SlotsOf(k, c) /\ mac'[c] = n
      BY <1>1, <2>1 DEF SlotsOf, SInv
    <3> QED BY <1>1, <2>1, <3>1 DEF NotAhead
  <2>2. CASE other.conn # c
    BY <1>1, <2>2 DEF SInv, MacsBound
  <2> QED BY <2>1, <2>2
<1>3. IdOf[other.conn] \in Ids
  BY <1>1, IdsAssumption
<1> HIDE DEF other, u, k
<1>4. FrameTo(d) \in Frame
  BY <1>1, <1>3 DEF Frame, Nonce
<1> QED BY <1>1, <1>2, <1>4 DEF Timely

-----------------------------------------------------------------------------
(* Delivery                                                                 *)

\* queue and box hold frames that are timely for channel k after r nonces.
QueuesFit(queue, box, k, r) ==
  /\ queue \in [Conns -> Seq(Frame)] /\ box \in [Conns -> Seq(Frame)]
  /\ \A d \in Conns : /\ queue[d] \in Seq(Timely(d, k, r))
                      /\ box[d] \in Seq(Timely(d, k, r))
                      /\ Len(box[d]) <= InboxSize

\* No frame that was timely before the step is not after it.
StillTimely ==
  \A d \in Conns : Timely(d, channels[Ch], reads)
                     \subseteq Timely(d, channels'[Ch], reads')

\* Queues, too, stay timely.
LEMMA MoreTimely ==
  ASSUME StillTimely, NEW queue, NEW box,
         QueuesFit(queue, box, channels[Ch], reads)
  PROVE  QueuesFit(queue, box, channels'[Ch], reads')
<1>1. ASSUME NEW d \in Conns
      PROVE  /\ queue[d] \in Seq(Timely(d, channels'[Ch], reads'))
             /\ box[d] \in Seq(Timely(d, channels'[Ch], reads'))
  <2>1. Timely(d, channels[Ch], reads) \subseteq Timely(d, channels'[Ch], reads')
    BY DEF StillTimely
  <2>2. /\ queue[d] \in Seq(Timely(d, channels[Ch], reads))
        /\ box[d] \in Seq(Timely(d, channels[Ch], reads))
    BY DEF QueuesFit
  <2> QED BY <2>1, <2>2, SeqMonotonic
<1> QED BY <1>1 DEF QueuesFit

\* The queues after a delivery; a client that has closed its end gets nothing.
LEMMA Delivered ==
  ASSUME SInv, StillTimely, NEW told, NEW queue, NEW box,
         QueuesFit(queue, box, channels[Ch], reads),
         \A d \in Conns : d \in told /\ phase[d] # "closed"
           => FrameTo(d) \in Timely(d, channels'[Ch], reads'),
         Deliver(told, queue, box)
  PROVE  /\ QueuesFit(down', inbox', channels'[Ch], reads')
         /\ \A d \in Conns : phase[d] = "closed" => down'[d] = queue[d]
<1>0. QueuesFit(queue, box, channels'[Ch], reads')
  BY MoreTimely
<1>1. ASSUME NEW d \in Conns
      PROVE  /\ down'[d] \in Seq(Timely(d, channels'[Ch], reads'))
             /\ inbox'[d] \in Seq(Timely(d, channels'[Ch], reads'))
             /\ Len(inbox'[d]) <= InboxSize
             /\ phase[d] = "closed" => down'[d] = queue[d]
             /\ down'[d] \in Seq(Frame) /\ inbox'[d] \in Seq(Frame)
  <2> DEFINE T == Timely(d, channels'[Ch], reads')
  <2>1. /\ down'[d] \in {queue[d], Append(queue[d], FrameTo(d))}
        /\ down'[d] # queue[d] => d \in told /\ known[d] # "none"
        /\ inbox'[d] \in {box[d], Append(box[d], FrameTo(d))}
        /\ inbox'[d] # box[d] => /\ d \in told /\ phase[d] # "closed"
                                 /\ Len(box[d]) < InboxSize
    BY DEF Deliver
  <2>2. phase[d] = "closed" => known[d] = "none"
    BY DEF SInv, ClientOK
  <2>3. /\ queue[d] \in Seq(T) /\ box[d] \in Seq(T) /\ Len(box[d]) <= InboxSize
        /\ queue[d] \in Seq(Frame) /\ box[d] \in Seq(Frame)
    BY <1>0 DEF QueuesFit
  <2>4. T \subseteq Frame
    BY DEF Timely
  <2>5. InboxSize \in Nat
    BY InboxAssumption
  <2> HIDE DEF T
  <2>6. CASE d \in told /\ phase[d] # "closed"
    <3>1. FrameTo(d) \in T /\ FrameTo(d) \in Frame
      BY <2>4, <2>6 DEF T
    <3>2. /\ Append(queue[d], FrameTo(d)) \in Seq(T)
          /\ Append(queue[d], FrameTo(d)) \in Seq(Frame)
          /\ Append(box[d], FrameTo(d)) \in Seq(T)
          /\ Append(box[d], FrameTo(d)) \in Seq(Frame)
          /\ Len(Append(box[d], FrameTo(d))) = Len(box[d]) + 1
          /\ Len(box[d]) \in Nat
      BY <2>3, <3>1, Queue
    <3>3. Len(inbox'[d]) <= InboxSize
      BY <2>1, <2>3, <2>5, <3>2
    <3> QED BY <2>1, <2>3, <2>6, <3>2, <3>3 DEF T
  <2>7. CASE ~(d \in told /\ phase[d] # "closed")
    <3>1. down'[d] = queue[d] /\ inbox'[d] = box[d]
      BY <2>1, <2>2, <2>7
    <3> QED BY <2>3, <3>1 DEF T
  <2> QED BY <2>6, <2>7
<1>2. down' \in [Conns -> Seq(Frame)] /\ inbox' \in [Conns -> Seq(Frame)]
  <2>1. /\ down' = [d \in Conns |-> down'[d]]
        /\ inbox' = [d \in Conns |-> inbox'[d]]
    BY DEF Deliver
  <2> QED BY <1>1, <2>1
<1> QED BY <1>1, <1>2 DEF QueuesFit

-----------------------------------------------------------------------------
(* A step keeps SInv: what it has to keep                                   *)

\* The server's half of a step.
Served ==
  /\ mac' \in [Conns -> Nonce] /\ MacsBound'
  /\ StillTimely
  /\ \A d \in Conns : Open(d) => Open(d)' \/ phase[d] = "closed"

\* The client's half.
ClientTypes ==
  /\ returned \in [Conns -> Seq(Frame)]
  /\ phase \in [Conns -> Calling \cup {"idle", "done", "failed", "closed"}]
  /\ taken \in [Conns -> Frame]
  /\ known \in [Conns -> {"none", "inactive", "active"}]

\* All but c go on as they were.
OthersSame(c) ==
  \A d \in Conns \ {c} :
    /\ returned'[d] = returned[d] /\ phase'[d] = phase[d]
    /\ taken'[d] = taken[d] /\ known'[d] = known[d]
    /\ phase[d] = "closed" => down'[d] = down[d]

\* c is as the invariant wants it.
ClientFits(c) ==
  LET D == Timely(c, channels[Ch], reads) IN
  /\ returned[c] \in Seq(D) /\ taken[c] \in D
  /\ phase[c] = "debouncing" => taken[c].type # "verify_peer"
  /\ phase[c] = "closed" => known[c] = "none" /\ down[c] = << >>

\* SInv after a step, from its parts: the server's, client c's and the others'.
LEMMA Kept ==
  ASSUME SInv, IInv', Served, NEW c \in Conns, OthersSame(c),
         QueuesFit(down', inbox', channels'[Ch], reads'),
         ClientTypes', ClientFits(c)',
         phase[c] = "closed" => phase'[c] = "closed"
  PROVE  SInv'
<1>1. ClientTypeOK'
  BY DEF ClientTypeOK, ClientTypes, QueuesFit
<1>2. ASSUME NEW d \in Conns PROVE FramesOK(d)'
  <2>1. /\ down'[d] \in Seq(Timely(d, channels'[Ch], reads'))
        /\ inbox'[d] \in Seq(Timely(d, channels'[Ch], reads'))
    BY DEF QueuesFit
  <2>2. CASE d = c
    BY <2>1, <2>2 DEF ClientFits, FramesOK
  <2>3. CASE d # c
    <3>1. returned'[d] = returned[d] /\ taken'[d] = taken[d]
      BY <2>3 DEF OthersSame
    <3>2. Timely(d, channels[Ch], reads) \subseteq Timely(d, channels'[Ch], reads')
      BY DEF Served, StillTimely
    <3>3. /\ returned[d] \in Seq(Timely(d, channels[Ch], reads))
          /\ taken[d] \in Timely(d, channels[Ch], reads)
      BY DEF SInv, FramesOK
    <3>4. returned[d] \in Seq(Timely(d, channels'[Ch], reads'))
      BY <3>2, <3>3, SeqMonotonic
    <3> QED BY <2>1, <3>1, <3>2, <3>3, <3>4 DEF FramesOK
  <2> QED BY <2>2, <2>3
<1>3. ASSUME NEW d \in Conns PROVE ClientOK(d)'
  <2>1. Len(inbox'[d]) <= InboxSize
    BY DEF QueuesFit
  <2>2. ClientOK(d)
    BY DEF SInv
  <2>3. Open(d) => Open(d)' \/ phase[d] = "closed"
    BY DEF Served
  <2>4. CASE d = c
    BY <2>1, <2>2, <2>3, <2>4 DEF ClientFits, ClientOK
  <2>5. CASE d # c
    BY <2>1, <2>2, <2>3, <2>5 DEF OthersSame, ClientOK
  <2> QED BY <2>4, <2>5
<1> QED BY <1>1, <1>2, <1>3 DEF SInv, Served

\* The halves of SInv.
LEMMA Halves ==
  ASSUME SInv
  PROVE  /\ QueuesFit(down, inbox, channels[Ch], reads)
         /\ ClientTypes
         /\ \A c \in Conns : ClientFits(c)
         /\ IInv
BY DEF SInv, QueuesFit, ClientTypeOK, ClientTypes, FramesOK, ClientOK, ClientFits

\* A connection that replaces itself has an error put into one of its queues, or
\* into none when its inbox is full.
LEMMA ReplacedIs ==
  ASSUME SInv, NEW c \in Conns
  PROVE  /\ QueuesFit(ReplacedQueue(c), ReplacedBox(c), channels[Ch], reads)
         /\ \A d \in Conns \ {c} : /\ ReplacedQueue(c)[d] = down[d]
                                 /\ ReplacedBox(c)[d] = inbox[d]
         /\ ReplacedQueue(c)[c] \in {down[c], Append(down[c], Plain("error"))}
         /\ ReplacedBox(c)[c] \in {inbox[c], Append(inbox[c], Plain("error"))}
         /\ known[c] = "none" => ReplacedQueue(c) = down
<1> DEFINE e == Plain("error")
           D == Timely(c, channels[Ch], reads)
<1>1. /\ down \in [Conns -> Seq(Frame)] /\ inbox \in [Conns -> Seq(Frame)]
      /\ QueuesFit(down, inbox, channels[Ch], reads)
      /\ channels[Ch] \in Channel /\ reads \in Nat /\ InboxSize \in Nat
  BY Halves, ChAssumption, InboxAssumption DEF SInv, ClientTypeOK, IInv, TypeOK
<1>2. e \in D /\ e \in Frame
  <2>1. e \in D
    BY <1>1, PlainTimely
  <2> QED BY <2>1 DEF Timely
<1> HIDE DEF e
<1>3. /\ down[c] \in Seq(D) /\ inbox[c] \in Seq(D) /\ Len(inbox[c]) <= InboxSize
      /\ down[c] \in Seq(Frame) /\ inbox[c] \in Seq(Frame)
  BY <1>1 DEF QueuesFit
<1> HIDE DEF D
<1>4. /\ Append(down[c], e) \in Seq(D) /\ Append(down[c], e) \in Seq(Frame)
      /\ Append(inbox[c], e) \in Seq(D) /\ Append(inbox[c], e) \in Seq(Frame)
      /\ Len(Append(inbox[c], e)) = Len(inbox[c]) + 1 /\ Len(inbox[c]) \in Nat
  BY <1>2, <1>3, Queue
<1>5. /\ ReplacedQueue(c) \in {down, [down EXCEPT ![c] = Append(down[c], e)]}
      /\ known[c] = "none" => ReplacedQueue(c) = down
      /\ \/ ReplacedBox(c) = inbox
         \/ /\ ReplacedBox(c) = [inbox EXCEPT ![c] = Append(inbox[c], e)]
            /\ Len(inbox[c]) < InboxSize
  BY DEF ReplacedQueue, ReplacedBox, e
<1> HIDE DEF ReplacedQueue, ReplacedBox
<1>6. /\ ReplacedQueue(c) \in [Conns -> Seq(Frame)]
      /\ ReplacedQueue(c)[c] \in {down[c], Append(down[c], e)}
      /\ \A d \in Conns \ {c} : ReplacedQueue(c)[d] = down[d]
  BY <1>1, <1>4, <1>5
<1>7. /\ ReplacedBox(c) \in [Conns -> Seq(Frame)]
      /\ ReplacedBox(c)[c] \in {inbox[c], Append(inbox[c], e)}
      /\ \A d \in Conns \ {c} : ReplacedBox(c)[d] = inbox[d]
      /\ Len(ReplacedBox(c)[c]) <= InboxSize
  <2>1. CASE ReplacedBox(c) = inbox
    BY <1>1, <1>3, <2>1
  <2>2. CASE /\ ReplacedBox(c) = [inbox EXCEPT ![c] = Append(inbox[c], e)]
             /\ Len(inbox[c]) < InboxSize
    <3>1. Len(inbox[c]) + 1 <= InboxSize
      BY <1>1, <1>4, <2>2
    <3>2. ReplacedBox(c)[c] = Append(inbox[c], e)
      BY <1>1, <2>2
    <3>3. Len(ReplacedBox(c)[c]) <= InboxSize
      BY <1>4, <3>1, <3>2
    <3>4. /\ ReplacedBox(c) \in [Conns -> Seq(Frame)]
          /\ \A d \in Conns \ {c} : ReplacedBox(c)[d] = inbox[d]
      BY <1>1, <1>4, <2>2
    <3> QED BY <3>2, <3>3, <3>4
  <2> QED BY <1>5, <2>1, <2>2
<1>8. QueuesFit(ReplacedQueue(c), ReplacedBox(c), channels[Ch], reads)
  <2>1. ReplacedQueue(c)[c] \in Seq(D) /\ ReplacedBox(c)[c] \in Seq(D)
    BY <1>3, <1>4, <1>6, <1>7
  <2> QED BY <1>1, <1>6, <1>7, <2>1 DEF QueuesFit, D
<1> QED BY <1>5, <1>6, <1>7, <1>8 DEF e

\* A step that the server has no part in.
LEMMA Unserved ==
  ASSUME SInv, UNCHANGED <<vars, mac>>
  PROVE  IInv' /\ Served /\ channels' = channels /\ reads' = reads
<1>1. channels' = channels /\ reads' = reads /\ handler' = handler
  BY DEF vars
<1>2. IInv'
  BY InvStep DEF SInv
<1>3. StillTimely
  BY <1>1 DEF StillTimely
<1>4. Served
  BY <1>1, <1>3 DEF Served, SInv, MacsBound, Open
<1> QED BY <1>1, <1>2, <1>4

\* A step in which the server touches no socket.
LEMMA ServedSettled ==
  ASSUME SInv, IInv', KeepMacs, reads' >= reads,
         Settled(channels[Ch], channels'[Ch], reads),
         \A d \in Conns : Open(d) => Open(d)' \/ phase[d] = "closed"
  PROVE  Served
<1>1. /\ channels[Ch] \in Channel /\ channels'[Ch] \in Channel
      /\ reads \in Nat /\ reads' \in Nat
  BY ChAssumption DEF SInv, IInv, TypeOK
<1>2. StillTimely
  BY <1>1, SettledKeepsNonces, TimelyKept DEF StillTimely
<1> QED BY <1>2, MacsKept DEF Served

-----------------------------------------------------------------------------
(* Steps of a client alone                                                  *)

Phases == Calling \cup {"idle", "done", "failed", "closed"}

\* The step that gives c these values and touches nothing else.
Becomes(c, d, i, r, p, t, k) ==
  /\ UNCHANGED <<vars, mac>>
  /\ down' = [down EXCEPT ![c] = d] /\ inbox' = [inbox EXCEPT ![c] = i]
  /\ returned' = [returned EXCEPT ![c] = r]
  /\ phase' = [phase EXCEPT ![c] = p] /\ taken' = [taken EXCEPT ![c] = t]
  /\ known' = [known EXCEPT ![c] = k]

\* They are timely and fit together.
ValuesFit(c, d, i, r, p, t, k) ==
  LET D == Timely(c, channels[Ch], reads) IN
  /\ d \in Seq(D) /\ i \in Seq(D) /\ r \in Seq(D) /\ t \in D
  /\ Len(i) <= InboxSize
  /\ p \in Phases /\ k \in {"none", "inactive", "active"}
  /\ p = "debouncing" => t.type # "verify_peer"
  /\ p = "closed" => k = "none" /\ d = << >>
  /\ phase[c] = "closed" => p = "closed"

\* A step of client c that the server has no part in.
LEMMA Local ==
  ASSUME SInv, NEW c \in Conns, NEW d, NEW i, NEW r, NEW p, NEW t, NEW k,
         Becomes(c, d, i, r, p, t, k), ValuesFit(c, d, i, r, p, t, k)
  PROVE  SInv'
<1> DEFINE D == Timely(c, channels[Ch], reads)
<1>1. IInv' /\ Served /\ channels' = channels /\ reads' = reads
  BY Unserved DEF Becomes
<1>2. /\ QueuesFit(down, inbox, channels[Ch], reads)
      /\ ClientTypes
  BY Halves
<1>3. /\ d \in Seq(D) /\ i \in Seq(D) /\ r \in Seq(D) /\ t \in D
      /\ Len(i) <= InboxSize
  BY DEF ValuesFit
<1>4. d \in Seq(Frame) /\ i \in Seq(Frame) /\ r \in Seq(Frame) /\ t \in Frame
  <2>1. D \subseteq Frame
    BY DEF Timely
  <2> HIDE DEF D
  <2> QED BY <1>3, <2>1, SeqMonotonic
<1>5. QueuesFit(down', inbox', channels'[Ch], reads')
  <2>1. \A e \in Conns \ {c} : down'[e] = down[e] /\ inbox'[e] = inbox[e]
    BY <1>2 DEF Becomes, QueuesFit
  <2>2. down'[c] = d /\ inbox'[c] = i
    BY <1>2 DEF Becomes, QueuesFit
  <2>3. down' \in [Conns -> Seq(Frame)] /\ inbox' \in [Conns -> Seq(Frame)]
    BY <1>2, <1>4 DEF Becomes, QueuesFit
  <2> QED BY <1>1, <1>2, <1>3, <2>1, <2>2, <2>3 DEF QueuesFit
<1>6. ClientTypes'
  <2>1. p \in Phases /\ k \in {"none", "inactive", "active"}
    BY DEF ValuesFit
  <2>2. /\ returned' \in [Conns -> Seq(Frame)] /\ taken' \in [Conns -> Frame]
    BY <1>2, <1>4 DEF Becomes, ClientTypes
  <2>3. /\ phase' \in [Conns -> Phases]
        /\ known' \in [Conns -> {"none", "inactive", "active"}]
    BY <1>2, <2>1 DEF Becomes, ClientTypes, Phases
  <2> QED BY <2>2, <2>3 DEF ClientTypes, Phases
<1>7. /\ down'[c] = d /\ returned'[c] = r /\ phase'[c] = p
      /\ taken'[c] = t /\ known'[c] = k
  BY <1>2 DEF Becomes, ClientTypes, QueuesFit
<1>8. ClientFits(c)'
  BY <1>1, <1>3, <1>7 DEF ClientFits, ValuesFit
<1>9. OthersSame(c)
  BY <1>2 DEF OthersSame, Becomes, ClientTypes, QueuesFit
<1>10. phase[c] = "closed" => phase'[c] = "closed"
  BY <1>7 DEF ValuesFit
<1> QED BY <1>1, <1>5, <1>6, <1>8, <1>9, <1>10, Kept

\* What c holds fits, and putting a value back changes nothing.
LEMMA Present ==
  ASSUME SInv, NEW c \in Conns
  PROVE  /\ ValuesFit(c, down[c], inbox[c], returned[c], phase[c], taken[c], known[c])
         /\ down = [down EXCEPT ![c] = down[c]]
         /\ inbox = [inbox EXCEPT ![c] = inbox[c]]
         /\ returned = [returned EXCEPT ![c] = returned[c]]
         /\ phase = [phase EXCEPT ![c] = phase[c]]
         /\ taken = [taken EXCEPT ![c] = taken[c]]
         /\ known = [known EXCEPT ![c] = known[c]]
<1>1. /\ down \in [Conns -> Seq(Frame)] /\ inbox \in [Conns -> Seq(Frame)]
      /\ returned \in [Conns -> Seq(Frame)] /\ phase \in [Conns -> Phases]
      /\ taken \in [Conns -> Frame]
      /\ known \in [Conns -> {"none", "inactive", "active"}]
  BY DEF SInv, ClientTypeOK, Phases
<1>2. ValuesFit(c, down[c], inbox[c], returned[c], phase[c], taken[c], known[c])
  BY <1>1 DEF SInv, FramesOK, ClientOK, ValuesFit
<1> QED BY <1>1, <1>2

\* NoFrame may be held at any time.
LEMMA NoFrameTimely ==
  ASSUME SInv, NEW c \in Conns
  PROVE  NoFrame \in Timely(c, channels[Ch], reads) /\ NoFrame.type = "none"
<1>1. channels[Ch] \in Channel /\ reads \in Nat
  BY ChAssumption DEF SInv, IInv, TypeOK
<1> QED BY <1>1, PlainTimely DEF NoFrame, Plain

\* The caller of PairDirect or Rejoin takes a message from the inbox.
LEMMA TakeKeeps ==
  ASSUME SInv, NEW c \in Conns,
         \/ TakeError(c) \/ TakeChallenge(c) \/ TakeVerifyPeer(c)
         \/ DebounceChallenge(c)
  PROVE  SInv'
<1> DEFINE D == Timely(c, channels[Ch], reads)
           msg == Head(inbox[c])
<1>0. ValuesFit(c, down[c], inbox[c], returned[c], phase[c], taken[c], known[c])
  BY Present
<1>1. /\ inbox[c] # << >> /\ phase[c] # "closed"
      /\ inbox' = [inbox EXCEPT ![c] = Tail(inbox[c])]
  BY DEF TakeError, TakeChallenge, TakeVerifyPeer, DebounceChallenge, Offers,
         Waiting, Rest
<1>2. msg \in D /\ Tail(inbox[c]) \in Seq(D) /\ Len(Tail(inbox[c])) <= InboxSize
  <2>1. inbox[c] \in Seq(D) /\ Len(inbox[c]) <= InboxSize
    BY <1>0 DEF ValuesFit
  <2>2. InboxSize \in Nat
    BY InboxAssumption
  <2> HIDE DEF D
  <2> QED BY <1>1, <2>1, <2>2, Queue
<1> DEFINE Value(p, t) == ValuesFit(c, down[c], Tail(inbox[c]), returned[c], p, t, known[c])
           Step(p, t) == Becomes(c, down[c], Tail(inbox[c]), returned[c], p, t, known[c])
<1>3. \A p \in Phases \ {"closed"}, t \in D :
        (p = "debouncing" => t.type # "verify_peer") => Value(p, t)
  BY <1>0, <1>1, <1>2 DEF ValuesFit
<1>4. ASSUME TakeError(c) PROVE SInv'
  <2>1. Step("failed", taken[c])
    BY <1>1, <1>4, Present DEF TakeError, Becomes
  <2>2. taken[c] \in D /\ "failed" \in Phases \ {"closed"}
    BY <1>0 DEF ValuesFit, Phases
  <2>3. Value("failed", taken[c])
    BY <1>3, <2>2
  <2> QED BY <2>1, <2>3, Local
<1>5. ASSUME TakeChallenge(c) PROVE SInv'
  <2>1. Step("debouncing", msg) /\ msg.type = "challenge"
    BY <1>1, <1>5, Present DEF TakeChallenge, Offers, Becomes
  <2>2. Value("debouncing", msg)
    BY <1>2, <1>3, <2>1 DEF Phases, Calling
  <2> QED BY <2>1, <2>2, Local
<1>6. ASSUME TakeVerifyPeer(c) PROVE SInv'
  <2>1. Step("verifying", msg)
    BY <1>1, <1>6, Present DEF TakeVerifyPeer, Becomes
  <2>2. Value("verifying", msg)
    BY <1>2, <1>3 DEF Phases, Calling
  <2> QED BY <2>1, <2>2, Local
<1>7. ASSUME DebounceChallenge(c) PROVE SInv'
  <2>1. Step(phase[c], msg) /\ msg.type = "challenge" /\ phase[c] = "debouncing"
    BY <1>1, <1>7, Present DEF DebounceChallenge, Becomes
  <2>2. Value(phase[c], msg)
    BY <1>2, <1>3, <2>1 DEF Phases, Calling
  <2> QED BY <2>1, <2>2, Local
<1> QED BY <1>4, <1>5, <1>6, <1>7

\* Its other steps of which the server sees nothing.
LEMMA CallKeeps ==
  ASSUME SInv, NEW c \in Conns, WaitTimeout(c) \/ PutBack(c) \/ Accept(c) \/ Close(c)
  PROVE  SInv'
<1> DEFINE D == Timely(c, channels[Ch], reads)
<1>0. ValuesFit(c, down[c], inbox[c], returned[c], phase[c], taken[c], known[c])
  BY Present
<1>1. ASSUME WaitTimeout(c) PROVE SInv'
  <2>1. Becomes(c, down[c], inbox[c], returned[c], "failed", taken[c], known[c])
    BY <1>1, Present DEF WaitTimeout, Becomes
  <2>2. ValuesFit(c, down[c], inbox[c], returned[c], "failed", taken[c], known[c])
    BY <1>0, <1>1 DEF WaitTimeout, ValuesFit, Waiting, Phases
  <2> QED BY <2>1, <2>2, Local
<1>2. ASSUME PutBack(c) PROVE SInv'
  <2>1. PICK i \in DOMAIN returned[c] :
          /\ inbox' = [inbox EXCEPT ![c] = Append(@, returned[c][i])]
          /\ returned' = [returned EXCEPT ![c] = RemoveAt(@, i)]
    BY <1>2 DEF PutBack
  <2>2. Becomes(c, down[c], Append(inbox[c], returned[c][i]),
                RemoveAt(returned[c], i), phase[c], taken[c], known[c])
    BY <1>2, <2>1, Present DEF PutBack, Becomes
  <2>3. /\ Append(inbox[c], returned[c][i]) \in Seq(D)
        /\ Len(Append(inbox[c], returned[c][i])) <= InboxSize
        /\ RemoveAt(returned[c], i) \in Seq(D)
    <3>1. inbox[c] \in Seq(D) /\ returned[c] \in Seq(D)
      BY <1>0 DEF ValuesFit
    <3>2. Len(inbox[c]) < InboxSize /\ InboxSize \in Nat
      BY <1>2, InboxAssumption DEF PutBack
    <3> HIDE DEF D
    <3>3. returned[c][i] \in D /\ RemoveAt(returned[c], i) \in Seq(D)
      BY <3>1, Queue
    <3>4. /\ Append(inbox[c], returned[c][i]) \in Seq(D)
          /\ Len(Append(inbox[c], returned[c][i])) = Len(inbox[c]) + 1
          /\ Len(inbox[c]) \in Nat
      BY <3>1, <3>3, Queue
    <3> QED BY <3>2, <3>3, <3>4
  <2>4. ValuesFit(c, down[c], Append(inbox[c], returned[c][i]),
                  RemoveAt(returned[c], i), phase[c], taken[c], known[c])
    BY <1>0, <2>3 DEF ValuesFit
  <2> QED BY <2>2, <2>4, Local
<1>3. ASSUME Accept(c) PROVE SInv'
  <2>1. Becomes(c, down[c], inbox[c], returned[c], "done", NoFrame, "active")
    BY <1>3, Present DEF Accept, Becomes
  <2>2. ValuesFit(c, down[c], inbox[c], returned[c], "done", NoFrame, "active")
    BY <1>0, <1>3, NoFrameTimely DEF Accept, ValuesFit, Phases
  <2> QED BY <2>1, <2>2, Local
<1>4. ASSUME Close(c) PROVE SInv'
  <2>1. Becomes(c, << >>, << >>, << >>, "closed", NoFrame, "none")
    BY <1>4 DEF Close, Becomes
  <2>2. << >> \in Seq(D) /\ Len(<< >>) <= InboxSize
    BY InboxAssumption, EmptySeq
  <2>3. ValuesFit(c, << >>, << >>, << >>, "closed", NoFrame, "none")
    BY <2>2, NoFrameTimely DEF ValuesFit, Phases
  <2> QED BY <2>1, <2>3, Local
<1> QED BY <1>1, <1>2, <1>3, <1>4

\* readLoop deals with a frame by itself.
LEMMA ReadKeeps ==
  ASSUME SInv, NEW c \in Conns, ReadPeerLeft(c) \/ AutoVerify(c) \/ ReadError(c)
  PROVE  SInv'
<1> DEFINE D == Timely(c, channels[Ch], reads)
<1>0. ValuesFit(c, down[c], inbox[c], returned[c], phase[c], taken[c], known[c])
  BY Present
<1>1. /\ down[c] # << >> /\ phase[c] # "closed"
      /\ down' = [down EXCEPT ![c] = Tail(down[c])]
  BY <1>0 DEF ReadPeerLeft, AutoVerify, ReadError, Reads, Unread, ValuesFit
<1>2. /\ down[c] \in Seq(D) /\ inbox[c] \in Seq(D) /\ Len(inbox[c]) <= InboxSize
      /\ InboxSize \in Nat
  BY <1>0, InboxAssumption DEF ValuesFit
<1>3. Head(down[c]) \in D /\ Tail(down[c]) \in Seq(D)
  <2> HIDE DEF D
  <2> QED BY <1>1, <1>2, Queue
<1> DEFINE Value(i, k) == ValuesFit(c, Tail(down[c]), i, returned[c], phase[c], taken[c], k)
           Step(i, k) == Becomes(c, Tail(down[c]), i, returned[c], phase[c], taken[c], k)
<1>4. \A i \in Seq(D), k \in {"none", "inactive", "active"} :
        Len(i) <= InboxSize => Value(i, k)
  BY <1>0, <1>1, <1>3 DEF ValuesFit
<1>5. known[c] \in {"none", "inactive", "active"}
  BY <1>0 DEF ValuesFit
<1>6. ASSUME ReadPeerLeft(c) PROVE SInv'
  <2>1. Step(inbox[c], "inactive")
    BY <1>1, <1>6, Present DEF ReadPeerLeft, Becomes
  <2> QED BY <1>2, <1>4, <2>1, Local
<1>7. ASSUME AutoVerify(c) PROVE SInv'
  <2> DEFINE k == IF Verifies(c, Head(down[c])) THEN "active" ELSE known[c]
  <2>1. Step(inbox[c], k)
    BY <1>1, <1>7, Present DEF AutoVerify, Becomes
  <2>2. k \in {"none", "inactive", "active"}
    BY <1>5
  <2> HIDE DEF k
  <2>3. Value(inbox[c], k)
    BY <1>2, <1>4, <2>2
  <2> QED BY <2>1, <2>3, Local
<1>8. ASSUME ReadError(c) PROVE SInv'
  <2> DEFINE i == IF Len(inbox[c]) < InboxSize THEN Append(inbox[c], Head(down[c]))
                  ELSE inbox[c]
  <2>1. Step(i, known[c])
    BY <1>1, <1>8, Present DEF ReadError, Becomes
  <2>2. i \in Seq(D) /\ Len(i) <= InboxSize
    <3> HIDE DEF D
    <3>1. /\ Append(inbox[c], Head(down[c])) \in Seq(D)
          /\ Len(Append(inbox[c], Head(down[c]))) = Len(inbox[c]) + 1
          /\ Len(inbox[c]) \in Nat
      BY <1>2, <1>3, Queue
    <3> QED BY <1>2, <3>1
  <2> HIDE DEF i
  <2>3. Value(i, known[c])
    BY <1>4, <1>5, <2>2
  <2> QED BY <2>1, <2>3, Local
<1> QED BY <1>6, <1>7, <1>8

-----------------------------------------------------------------------------
(* Steps that the server has a part in                                      *)

\* Only a connection whose end the server has read is no longer open.
LEMMA OpenServerStep ==
  ASSUME IInv, ServerStep, NEW d \in Conns, Open(d)
  PROVE  Open(d)'
<1>0. handler \in [Conns -> Handler]
  BY DEF IInv, TypeOK
<1>1. ASSUME NEW c \in Conns, SendRejected(c) PROVE Open(d)'
  BY <1>0, <1>1 DEF SendRejected, Open, At
<1>2. ASSUME NEW c \in Conns, UnregisterConn(c) PROVE Open(d)'
  BY <1>0, <1>2 DEF UnregisterConn, Open
<1>3. FireChallenge \/ FireWait \/ FinishDelete => handler' = handler
  BY DEF FireChallenge, FireWait, FinishDelete, ChallengeTimeout, WaitPeerTimeout,
         DeferredDelete
<1> QED BY <1>1, <1>2, <1>3 DEF ServerStep, Open

\* Every step is one of the server's, or leaves it as it is.
LEMMA ServerStepNext == ServerStep => Next
BY DEF ServerStep, Next, Serve

\* A client that goes on as it was fits if it did before the step.
LEMMA FitsStill ==
  ASSUME SInv, Served, NEW c \in Conns,
         QueuesFit(down', inbox', channels'[Ch], reads'),
         returned'[c] = returned[c],
         taken'[c] = taken[c] \/ taken'[c] = NoFrame,
         known'[c] = known[c],
         phase'[c] = "debouncing" => phase[c] = "debouncing",
         phase'[c] = "closed" => phase[c] = "closed",
         phase[c] = "closed" => down'[c] = down[c],
         IInv'
  PROVE  ClientFits(c)'
<1> DEFINE D == Timely(c, channels[Ch], reads)
           E == Timely(c, channels'[Ch], reads')
<1>1. ClientFits(c)
  BY Halves
<1>2. D \subseteq E
  BY DEF Served, StillTimely
<1>3. returned[c] \in Seq(D) /\ taken[c] \in D
  BY <1>1 DEF ClientFits
<1>4. NoFrame \in E /\ NoFrame.type = "none"
  <2>1. channels'[Ch] \in Channel /\ reads' \in Nat
    BY ChAssumption DEF IInv, TypeOK
  <2> QED BY <2>1, PlainTimely DEF NoFrame, Plain
<1>5. returned'[c] \in Seq(E) /\ taken'[c] \in E
  <2> HIDE DEF D, E
  <2>1. returned[c] \in Seq(E)
    BY <1>2, <1>3, SeqMonotonic
  <2> QED BY <1>2, <1>3, <1>4, <2>1
<1> QED BY <1>1, <1>4, <1>5 DEF ClientFits

\* The server reads the end of a connection,
LEMMA HangupKeeps ==
  ASSUME SInv, NEW c \in Conns, Hangup(c), IInv'
  PROVE  SInv'
<1>1. /\ CloseConn(c) /\ phase[c] = "closed"
      /\ UNCHANGED <<down, mac, clientVars>>
  BY DEF Hangup
<1>2. /\ UNCHANGED <<down, mac, inbox, returned, phase, taken, known>>
      /\ UNCHANGED <<channels, reads>>
      /\ handler' = [handler EXCEPT ![c] = [at |-> "closing", chs |-> connChannels[c]]]
  BY <1>1 DEF clientVars, CloseConn
<1>3. Served
  <2>1. \A d \in Conns : Open(d) => Open(d)' \/ phase[d] = "closed"
    BY <1>1, <1>2 DEF Open, SInv, IInv, TypeOK
  <2> QED BY <1>2, <2>1 DEF Served, StillTimely, SInv, MacsBound
<1>4. QueuesFit(down', inbox', channels'[Ch], reads') /\ ClientTypes'
  BY <1>2, Halves DEF ClientTypes
<1>5. OthersSame(c)
  BY <1>2 DEF OthersSame
<1>6. ClientFits(c)'
  BY <1>2, <1>3, <1>4, FitsStill
<1> QED BY <1>2, <1>3, <1>4, <1>5, <1>6, Kept

\* a timer or a handler goes on and what it says is delivered,
LEMMA NotifyKeeps ==
  ASSUME SInv, Notify, IInv'
  PROVE  SInv'
<1>1. /\ ServerStep /\ KeepMacs /\ Deliver(Told, down, inbox)
      /\ UNCHANGED <<returned, phase, taken, known>>
  BY DEF Notify, ServerStep
<1>2. IInv /\ QueuesFit(down, inbox, channels[Ch], reads) /\ ClientTypes
  BY Halves
<1>3. Served
  <2>1. reads' = reads /\ Settled(channels[Ch], channels'[Ch], reads) /\ reads \in Nat
    BY <1>1, <1>2, SettledServerStep DEF IInv, TypeOK
  <2>2. \A d \in Conns : Open(d) => Open(d)'
    BY <1>1, <1>2, OpenServerStep
  <2> QED BY <1>1, <2>1, <2>2, ServedSettled
<1>4. ASSUME NEW d \in Told PROVE FrameTo(d) \in Timely(d, channels'[Ch], reads')
  <2>1. d \in Conns /\ view'[d] # view[d]
    BY DEF Told
  <2>2. NewsOK(d)
    BY <1>1, <1>2, <2>1, NewsServerStep
  <2> QED BY <2>1, <2>2, FrameTimely
<1>5. /\ QueuesFit(down', inbox', channels'[Ch], reads')
      /\ \A d \in Conns : phase[d] = "closed" => down'[d] = down[d]
  <2>1. StillTimely
    BY <1>3 DEF Served
  <2> QED BY <1>1, <1>2, <1>4, <2>1, Delivered
<1>6. ClientTypes'
  BY <1>1, <1>2 DEF ClientTypes
<1>7. ASSUME NEW c \in Conns PROVE OthersSame(c) /\ ClientFits(c)'
  <2>1. OthersSame(c)
    BY <1>1, <1>5 DEF OthersSame
  <2>2. ClientFits(c)'
    BY <1>1, <1>3, <1>5, FitsStill
  <2> QED BY <2>1, <2>2
<1>8. CASE Conns # {}
  <2>1. PICK c \in Conns : TRUE
    BY <1>8
  <2> QED BY <1>1, <1>3, <1>5, <1>6, <1>7, <2>1, Kept
<1>9. CASE Conns = {}
  <2>1. ClientTypeOK'
    BY <1>5, <1>6 DEF QueuesFit, ClientTypes, ClientTypeOK
  <2> QED BY <1>3, <1>9, <2>1 DEF SInv, Served
<1> QED BY <1>8, <1>9

\* a client joins,
LEMMA JoinKeeps ==
  ASSUME SInv, NEW c \in Conns, Join(c), IInv'
  PROVE  SInv'
<1> DEFINE told == Told \cup ({c} \ ConnsOf(channels'[Ch]))
           queue == ReplacedQueue(c)
           box == ReplacedBox(c)
<1>1. /\ HandleJoin(c, Ch) /\ KeepMacs /\ Deliver(told, queue, box)
      /\ phase[c] \in {"idle", "failed", "done"}
      /\ phase' = [phase EXCEPT ![c] = "joining"]
      /\ UNCHANGED <<returned, taken, known>>
  BY DEF Join, SendJoin
<1>2. /\ IInv /\ ClientTypes
      /\ QueuesFit(queue, box, channels[Ch], reads)
      /\ \A d \in Conns \ {c} : queue[d] = down[d]
  BY Halves, ReplacedIs
<1> HIDE DEF queue, box
<1>3. Served
  <2>1. reads' >= reads /\ Settled(channels[Ch], channels'[Ch], reads)
    BY <1>1, <1>2, SettledJoin
  <2>2. handler' = handler
    BY <1>1 DEF HandleJoin, JoinFirst, JoinSecond, JoinNonceFails,
                JoinSecondNonceFails
  <2>3. \A d \in Conns : Open(d) => Open(d)'
    BY <2>2 DEF Open
  <2> QED BY <1>1, <2>1, <2>3, ServedSettled
<1>4. ASSUME NEW d \in told PROVE FrameTo(d) \in Timely(d, channels'[Ch], reads')
  <2>1. d \in Conns /\ (d \in ConnsOf(channels'[Ch]) => view'[d] # view[d])
    BY DEF Told
  <2>2. d \in ConnsOf(channels'[Ch]) => NewsOK(d)
    BY <1>1, <1>2, <2>1, NewsJoin
  <2> QED BY <2>1, <2>2, FrameTimely
<1>5. /\ QueuesFit(down', inbox', channels'[Ch], reads')
      /\ \A d \in Conns : phase[d] = "closed" => down'[d] = queue[d]
  <2>1. StillTimely
    BY <1>3 DEF Served
  <2> HIDE DEF told
  <2> QED BY <1>1, <1>2, <1>4, <2>1, Delivered
<1>6. ClientTypes' /\ phase'[c] = "joining"
  BY <1>1, <1>2 DEF ClientTypes, Calling, Waiting
<1>7. OthersSame(c)
  BY <1>1, <1>2, <1>5 DEF OthersSame, ClientTypes
<1>8. ClientFits(c)'
  BY <1>1, <1>3, <1>5, <1>6, FitsStill
<1> QED BY <1>1, <1>3, <1>5, <1>6, <1>7, <1>8, Kept

\* or it finds a wrong answer.
LEMMA RejectKeeps ==
  ASSUME SInv, NEW c \in Conns, Reject(c), IInv'
  PROVE  SInv'
<1>1. /\ SendVerifyRejected(c) /\ KeepMacs /\ UNCHANGED <<down, inbox>>
      /\ phase[c] = "verifying" /\ phase' = [phase EXCEPT ![c] = "failed"]
      /\ taken' = [taken EXCEPT ![c] = NoFrame]
      /\ UNCHANGED <<returned, known>>
  BY DEF Reject, SendVerifyRejected
<1>2. IInv /\ QueuesFit(down, inbox, channels[Ch], reads) /\ ClientTypes
  BY Halves
<1>3. /\ reads' = reads /\ reads \in Nat
      /\ Settled(channels[Ch], channels'[Ch], reads)
      /\ \A d \in Conns : Open(d) => Open(d)'
  <2>0. reads \in Nat /\ handler \in [Conns -> Handler]
    BY <1>2 DEF IInv, TypeOK
  <2>1. CASE HandleVerifyRejected(c, Ch)
    <3>1. \E to \in {At("reading"), [at |-> "rejecting", ch |-> Ch,
              to |-> channels[Ch].peers[IF 1 \in {s \in Members(channels[Ch]) :
                                                    channels[Ch].peers[s].conn # c}
                                        THEN 1 ELSE 0].conn]} :
            handler' = [handler EXCEPT ![c] = to]
      BY <2>1 DEF HandleVerifyRejected
    <3>2. \A d \in Conns : Open(d) => Open(d)'
      BY <2>0, <3>1 DEF Open, At
    <3> QED BY <1>2, <2>0, <2>1, <3>2, SettledVerifyRejected
  <2>2. CASE UNCHANGED vars
    BY <2>0, <2>2, SettledEmptied DEF vars, Open
  <2> QED BY <1>1, <2>1, <2>2 DEF SendVerifyRejected
<1>4. Served
  BY <1>1, <1>3, ServedSettled
<1>5. QueuesFit(down', inbox', channels'[Ch], reads')
  <2>1. StillTimely
    BY <1>4 DEF Served
  <2> QED BY <1>1, <1>2, <2>1, MoreTimely
<1>6. ClientTypes' /\ phase'[c] = "failed" /\ taken'[c] = NoFrame
  <2>1. NoFrame \in Frame
    BY DEF NoFrame, Plain, Frame, Nonce
  <2> QED BY <1>1, <1>2, <2>1 DEF ClientTypes
<1>7. OthersSame(c)
  BY <1>1, <1>2 DEF OthersSame, ClientTypes
<1>8. ClientFits(c)'
  BY <1>1, <1>4, <1>5, <1>6, FitsStill
<1> QED BY <1>1, <1>4, <1>5, <1>6, <1>7, <1>8, Kept

\* A response, whatever queues it is sent from.
LEMMA SendResponseServed ==
  ASSUME SInv, IInv', NEW c \in Conns, NEW n, NotAhead(c, n), NEW queue, NEW box,
         QueuesFit(queue, box, channels[Ch], reads), SendResponse(c, n, queue, box)
  PROVE  /\ Served
         /\ QueuesFit(down', inbox', channels'[Ch], reads')
         /\ \A d \in Conns : phase[d] = "closed" => down'[d] = queue[d]
<1> DEFINE k == channels[Ch]
           told == IF SlotsOf(k, c) = {} THEN {c}
                   ELSE IF Completes(k, SlotOf(k, c)) THEN ConnsOf(k) ELSE {}
<1>0. IInv /\ k \in Channel /\ channels'[Ch] \in Channel /\ reads \in Nat
  BY ChAssumption DEF SInv, IInv, TypeOK
<1>1. Deliver(told, queue, box)
  BY DEF SendResponse
<1>2. CASE HandleResponse(c, Ch) /\ mac' = [mac EXCEPT ![c] = n]
  <2>1. /\ reads' = reads /\ handler' = handler
        /\ NoncesKept(k, channels'[Ch], reads)
        /\ mac' \in [Conns -> Nonce] /\ MacsBound'
    BY <1>2, ResponseKeeps
  <2>2. StillTimely
    BY <1>0, <2>1, TimelyKept DEF StillTimely
  <2>3. Served
    BY <2>1, <2>2 DEF Served, Open
  <2>4. ASSUME NEW d \in Conns, d \in told, phase[d] # "closed"
        PROVE  FrameTo(d) \in Timely(d, channels'[Ch], reads')
    <3>1. Open(d)
      BY <2>4 DEF SInv, ClientOK
    <3>2. SlotsOf(k, c) # {}
      BY <1>2 DEF HandleResponse
    <3>3. Completes(k, SlotOf(k, c)) /\ d \in ConnsOf(k)
      BY <2>4, <3>2
    <3> QED BY <1>2, <3>1, <3>3, ResponseFrames
  <2> HIDE DEF told
  <2> QED BY <1>1, <2>2, <2>3, <2>4, Delivered
<1>3. CASE SlotsOf(k, c) = {} /\ UNCHANGED <<vars, mac>>
  <2>1. Served /\ channels' = channels /\ reads' = reads
    BY <1>3, Unserved
  <2>2. c \notin ConnsOf(channels'[Ch])
    BY <1>3, <2>1 DEF ConnsOf, SlotsOf, Members
  <2>3. \A d \in told : FrameTo(d) \in Timely(d, channels'[Ch], reads')
    BY <1>3, <2>2, FrameTimely
  <2>4. StillTimely
    BY <2>1 DEF Served
  <2> HIDE DEF told
  <2> QED BY <1>1, <2>1, <2>3, <2>4, Delivered
<1> QED BY <1>2, <1>3 DEF SendResponse

\* What is in a queue of c other than an answer may be responded to.
LEMMA TimelyNotAhead ==
  ASSUME NEW c \in Conns, NEW msg \in Timely(c, channels[Ch], reads),
         msg.type # "verify_peer"
  PROVE  NotAhead(c, msg.nonce)
BY DEF Timely, NotAhead, Frame, Nonce

\* The queues without the first element of one of c's.
LEMMA QueuesLess ==
  ASSUME SInv, NEW c \in Conns
  PROVE  /\ QueuesFit(down, inbox, channels[Ch], reads)
         /\ inbox[c] # << >> =>
              /\ QueuesFit(down, Rest(c), channels[Ch], reads)
              /\ Head(inbox[c]) \in Timely(c, channels[Ch], reads)
         /\ down[c] # << >> =>
              /\ QueuesFit(Unread(c), inbox, channels[Ch], reads)
              /\ Head(down[c]) \in Timely(c, channels[Ch], reads)
              /\ \A d \in Conns \ {c} : Unread(c)[d] = down[d]
<1> DEFINE D == Timely(c, channels[Ch], reads)
<1>1. QueuesFit(down, inbox, channels[Ch], reads)
  BY Halves
<1>2. /\ down[c] \in Seq(D) /\ inbox[c] \in Seq(D) /\ Len(inbox[c]) <= InboxSize
      /\ down[c] \in Seq(Frame) /\ inbox[c] \in Seq(Frame) /\ InboxSize \in Nat
  BY <1>1, InboxAssumption DEF QueuesFit
<1> HIDE DEF D
<1>3. ASSUME inbox[c] # << >>
      PROVE  /\ QueuesFit(down, Rest(c), channels[Ch], reads)
             /\ Head(inbox[c]) \in D
  <2>1. /\ Head(inbox[c]) \in D /\ Tail(inbox[c]) \in Seq(D)
        /\ Tail(inbox[c]) \in Seq(Frame) /\ Len(Tail(inbox[c])) <= InboxSize
    BY <1>2, <1>3, Queue
  <2>2. Rest(c) \in [Conns -> Seq(Frame)]
    BY <1>1, <2>1 DEF Rest, QueuesFit
  <2>3. /\ Rest(c)[c] = Tail(inbox[c])
        /\ \A d \in Conns \ {c} : Rest(c)[d] = inbox[d]
    BY <1>1 DEF Rest, QueuesFit
  <2> QED BY <1>1, <2>1, <2>2, <2>3 DEF QueuesFit, D
<1>4. ASSUME down[c] # << >>
      PROVE  /\ QueuesFit(Unread(c), inbox, channels[Ch], reads)
             /\ Head(down[c]) \in D
             /\ \A d \in Conns \ {c} : Unread(c)[d] = down[d]
  <2>1. /\ Head(down[c]) \in D /\ Tail(down[c]) \in Seq(D)
        /\ Tail(down[c]) \in Seq(Frame)
    BY <1>2, <1>4, Queue
  <2>2. Unread(c) \in [Conns -> Seq(Frame)]
    BY <1>1, <2>1 DEF Unread, QueuesFit
  <2>3. /\ Unread(c)[c] = Tail(down[c])
        /\ \A d \in Conns \ {c} : Unread(c)[d] = down[d]
    BY <1>1 DEF Unread, QueuesFit
  <2> QED BY <1>1, <2>1, <2>2, <2>3 DEF QueuesFit, D
<1> QED BY <1>1, <1>3, <1>4 DEF D

\* An answer from the caller,
LEMMA AnswerAgainKeeps ==
  ASSUME SInv, NEW c \in Conns, AnswerAgain(c), IInv'
  PROVE  SInv'
<1> DEFINE msg == Head(inbox[c])
<1>1. /\ inbox[c] # << >> /\ msg.type = "challenge"
      /\ SendResponse(c, msg.nonce, down, Rest(c))
      /\ UNCHANGED <<returned, phase, taken, known>>
  BY DEF AnswerAgain, Offers
<1>2. /\ QueuesFit(down, Rest(c), channels[Ch], reads)
      /\ msg \in Timely(c, channels[Ch], reads)
  BY <1>1, QueuesLess
<1> HIDE DEF msg
<1>3. NotAhead(c, msg.nonce)
  BY <1>1, <1>2, TimelyNotAhead
<1>4. /\ Served /\ QueuesFit(down', inbox', channels'[Ch], reads')
      /\ \A d \in Conns : phase[d] = "closed" => down'[d] = down[d]
  BY <1>1, <1>2, <1>3, SendResponseServed
<1>5. ClientTypes' /\ OthersSame(c)
  BY <1>1, <1>4, Halves DEF ClientTypes, OthersSame
<1>6. ClientFits(c)'
  BY <1>1, <1>4, FitsStill
<1> QED BY <1>1, <1>4, <1>5, <1>6, Kept

\* from readLoop,
LEMMA AutoRespondKeeps ==
  ASSUME SInv, NEW c \in Conns, AutoRespond(c), IInv'
  PROVE  SInv'
<1> DEFINE msg == Head(down[c])
<1>1. /\ down[c] # << >> /\ msg.type = "challenge"
      /\ SendResponse(c, msg.nonce, Unread(c), inbox)
      /\ UNCHANGED <<returned, phase, taken, known>>
  BY DEF AutoRespond, Reads
<1>2. /\ QueuesFit(Unread(c), inbox, channels[Ch], reads)
      /\ msg \in Timely(c, channels[Ch], reads)
      /\ \A d \in Conns \ {c} : Unread(c)[d] = down[d]
  BY <1>1, QueuesLess
<1> HIDE DEF msg
<1>3. NotAhead(c, msg.nonce)
  BY <1>1, <1>2, TimelyNotAhead
<1>4. /\ Served /\ QueuesFit(down', inbox', channels'[Ch], reads')
      /\ \A d \in Conns : phase[d] = "closed" => down'[d] = Unread(c)[d]
  BY <1>1, <1>2, <1>3, SendResponseServed
<1>5. phase[c] # "closed"
  BY <1>1 DEF SInv, ClientOK
<1>6. ClientTypes' /\ OthersSame(c)
  BY <1>1, <1>2, <1>4, Halves DEF ClientTypes, OthersSame
<1>7. ClientFits(c)'
  BY <1>1, <1>4, <1>5, FitsStill
<1> QED BY <1>1, <1>4, <1>5, <1>6, <1>7, Kept

\* and after debouncing, with or without a message to put back.
LEMMA DebounceOverKeeps ==
  ASSUME SInv, NEW c \in Conns, DebounceOver(c), IInv'
  PROVE  SInv'
<1> DEFINE D == Timely(c, channels[Ch], reads)
           E == Timely(c, channels'[Ch], reads')
<1>1. /\ phase[c] = "debouncing" /\ phase' = [phase EXCEPT ![c] = "answered"]
      /\ taken' = [taken EXCEPT ![c] = NoFrame]
      /\ UNCHANGED known
  BY DEF DebounceOver
<1>2. PICK msg \in D : \E box :
        /\ \/ returned' = returned
           \/ returned' = [returned EXCEPT ![c] = Append(@, msg)]
        /\ QueuesFit(down, box, channels[Ch], reads)
        /\ SendResponse(c, taken[c].nonce, down, box)
  <2>1. CASE UNCHANGED returned /\ SendResponse(c, taken[c].nonce, down, inbox)
    <3>1. taken[c] \in D
      BY DEF SInv, FramesOK
    <3> HIDE DEF D
    <3> QED BY <2>1, <3>1, QueuesLess
  <2>2. CASE /\ inbox[c] # << >>
             /\ returned' = [returned EXCEPT ![c] = Append(@, Head(inbox[c]))]
             /\ SendResponse(c, taken[c].nonce, down, Rest(c))
    BY <2>2, QueuesLess
  <2> QED BY <2>1, <2>2 DEF DebounceOver
<1>3. NotAhead(c, taken[c].nonce)
  <2>1. taken[c] \in D /\ taken[c].type # "verify_peer"
    BY <1>1 DEF SInv, FramesOK, ClientOK
  <2> QED BY <2>1, TimelyNotAhead
<1>4. /\ Served /\ QueuesFit(down', inbox', channels'[Ch], reads')
      /\ \A d \in Conns : phase[d] = "closed" => down'[d] = down[d]
  BY <1>2, <1>3, SendResponseServed
<1>5. returned[c] \in Seq(D) /\ returned[c] \in Seq(Frame) /\ D \subseteq E
      /\ D \subseteq Frame
  <2>1. returned[c] \in Seq(D) /\ returned[c] \in Seq(Frame)
    BY DEF SInv, FramesOK, ClientTypeOK
  <2>2. D \subseteq E
    BY <1>4 DEF Served, StillTimely
  <2> QED BY <2>1, <2>2 DEF Timely
<1>6. NoFrame \in E /\ NoFrame.type = "none" /\ NoFrame \in Frame
  <2>1. channels'[Ch] \in Channel /\ reads' \in Nat
    BY ChAssumption DEF IInv, TypeOK
  <2>2. NoFrame \in E
    BY <2>1, PlainTimely DEF NoFrame
  <2> QED BY <2>2 DEF NoFrame, Plain, Timely
<1>7. ClientTypes
  BY Halves
<1>8. /\ returned' \in [Conns -> Seq(Frame)]
      /\ \A d \in Conns \ {c} : returned'[d] = returned[d]
      /\ returned'[c] \in Seq(E)
  <2>1. /\ Append(returned[c], msg) \in Seq(D)
        /\ Append(returned[c], msg) \in Seq(Frame)
    <3> HIDE DEF D, E
    <3>1. msg \in Frame
      BY <1>5
    <3> QED BY <1>5, <3>1, Queue
  <2>2. returned[c] \in Seq(E) /\ Append(returned[c], msg) \in Seq(E)
    <3> HIDE DEF D, E
    <3> QED BY <1>5, <2>1, SeqMonotonic
  <2>3. \/ returned' = returned
        \/ returned' = [returned EXCEPT ![c] = Append(@, msg)]
    BY <1>2
  <2> HIDE DEF D, E
  <2> QED BY <1>7, <2>1, <2>2, <2>3 DEF ClientTypes
<1>9. /\ phase' \in [Conns -> Phases] /\ phase'[c] = "answered"
      /\ taken' \in [Conns -> Frame] /\ taken'[c] = NoFrame
      /\ known' = known
  <2>1. /\ phase \in [Conns -> Phases] /\ taken \in [Conns -> Frame]
        /\ "answered" \in Phases
    BY <1>7 DEF ClientTypes, Phases, Calling, Waiting
  <2> QED BY <1>1, <1>6, <2>1
<1>10. ClientTypes'
  BY <1>7, <1>8, <1>9 DEF ClientTypes, Phases
<1>11. OthersSame(c)
  BY <1>1, <1>4, <1>7, <1>8 DEF OthersSame, ClientTypes
<1>12. ClientFits(c)'
  BY <1>6, <1>8, <1>9 DEF ClientFits
<1> QED BY <1>1, <1>4, <1>10, <1>11, <1>12, Kept

-----------------------------------------------------------------------------
(* Theorems                                                                 *)

\* No channel, no frames and no calls.
LEMMA SessionInit == SInit => SInv
<1> SUFFICES ASSUME SInit PROVE SInv
  OBVIOUS
<1>1. /\ channels = [ch \in ChIds |-> NoChannel]
      /\ \A c \in Conns : handler[c] = At("reading")
      /\ reads = 0
  BY DEF SInit
<1>2. TypeOK
  BY NoPeerType, AtType, NoteType DEF SInit, TypeOK
<1>3. IInv
  BY <1>1, <1>2, EmptyOK DEF IInv, MembersIndexed, LeaversLeft, At
<1>4. NoFrame \in Frame /\ NoFrame.type = "none"
  BY DEF NoFrame, Plain, Frame, Nonce
<1>5. ClientTypeOK /\ mac \in [Conns -> Nonce]
  BY <1>4, EmptySeq DEF SInit, ClientTypeOK, Nonce
<1>6. MacsBound
  BY <1>1, ChAssumption DEF MacsBound, NoChannel, NoPeers, NoPeer
<1>7. ASSUME NEW c \in Conns PROVE FramesOK(c) /\ ClientOK(c)
  <2>1. channels[Ch] \in Channel /\ reads \in Nat
    BY <1>2, ChAssumption DEF TypeOK
  <2>2. NoFrame \in Timely(c, channels[Ch], reads)
    BY <2>1, PlainTimely DEF NoFrame
  <2>3. FramesOK(c)
    BY <2>2, EmptySeq DEF SInit, FramesOK
  <2>4. ClientOK(c)
    BY <1>1, InboxAssumption, EmptySeq DEF SInit, ClientOK, Open, At
  <2> QED BY <2>3, <2>4
<1> QED BY <1>3, <1>5, <1>6, <1>7 DEF SInv

\* The server sees of a client's step a message, a hang-up or nothing.
LEMMA SessionStep == [SNext]_sessionVars => [Next]_vars
<1> SUFFICES ASSUME SNext, ~UNCHANGED vars PROVE Next
  BY DEF sessionVars
<1>1. Ch \in ChIds
  BY ChAssumption
<1>2. ASSUME NEW c \in Conns, Hangup(c) PROVE Next
  BY <1>2 DEF Hangup, Next, Serve
<1>3. ASSUME NEW c \in Conns, HandleJoin(c, Ch) \/ HandleResponse(c, Ch)
                                \/ HandleVerifyRejected(c, Ch)
      PROVE  Next
  BY <1>1, <1>3 DEF Next, Serve
<1>4. Notify => Next
  BY ServerStepNext DEF Notify, ServerStep
<1>5. ASSUME NEW c \in Conns, Join(c) \/ Call(c) \/ PutBack(c) \/ ReadLoop(c) \/ Close(c)
      PROVE  \/ HandleJoin(c, Ch) \/ HandleResponse(c, Ch)
             \/ HandleVerifyRejected(c, Ch)
  BY <1>5
  DEF Join, SendJoin, Call, TakeError, TakeChallenge, AnswerAgain, TakeVerifyPeer,
      WaitTimeout, DebounceChallenge, DebounceOver, Accept, Reject, SendResponse,
      SendVerifyRejected, PutBack, ReadLoop, ReadPeerLeft, AutoRespond, AutoVerify,
      ReadError, Close
<1> QED BY <1>2, <1>3, <1>4, <1>5 DEF SNext

\* Every step of a client, of the server or of both keeps SInv.
LEMMA SessionKeeps == SInv /\ [SNext]_sessionVars => SInv'
<1> SUFFICES ASSUME SInv, [SNext]_sessionVars PROVE SInv'
  OBVIOUS
<1>1. IInv'
  BY SessionStep, InvStep DEF SInv
<1>2. ASSUME NEW c \in Conns, Call(c) PROVE SInv'
  BY <1>1, <1>2, TakeKeeps, CallKeeps, AnswerAgainKeeps, DebounceOverKeeps,
     RejectKeeps DEF Call
<1>3. ASSUME NEW c \in Conns, ReadLoop(c) PROVE SInv'
  BY <1>1, <1>3, ReadKeeps, AutoRespondKeeps DEF ReadLoop
<1>4. ASSUME NEW c \in Conns, Hangup(c) \/ Join(c) \/ Close(c) \/ PutBack(c)
      PROVE  SInv'
  BY <1>1, <1>4, HangupKeeps, JoinKeeps, CallKeeps
<1>5. CASE Notify
  BY <1>1, <1>5, NotifyKeeps
<1>6. CASE UNCHANGED sessionVars
  BY <1>6 DEF sessionVars, clientVars, vars, SInv, IInv, TypeOK, MembersIndexed,
              Indexed, LeaversLeft, MacsBound, ClientTypeOK, FramesOK, ClientOK,
              Open
<1> QED BY <1>2, <1>3, <1>4, <1>5, <1>6 DEF SNext

\* SInv holds in every reachable state, for every bound on the inboxes.
THEOREM SessionInductive == SSpec => []SInv
BY SessionInit, SessionKeeps, PTL DEF SSpec

\* Every variable of the client has the shape of its Go value, and neither
\* readLoop nor a goroutine of debounceChallenge overfills an inbox.
THEOREM SessionTypeCorrect == SSpec => []STypeOK
<1>1. SInv => STypeOK
  BY DEF SInv, IInv, ClientTypeOK, ClientOK, STypeOK
<1> QED BY <1>1, SessionInductive, PTL

\* Whatever is delayed, put back, debounced, answered again or sent to a
\* channel made anew, the answer a client is shown and that does not verify
\* was made for an earlier nonce than the one shown with it, or is shown
\* without its nonce: the check of handleVerifyPeer never meets an answer to
\* a challenge that is still to come, nor one of the client itself.
THEOREM SessionAnswersStale == SSpec => []WrongAnswersAreStale
<1>1. SInv => WrongAnswersAreStale
  <2> SUFFICES ASSUME SInv, NEW c \in Conns, NEW msg \in Shown(c), ~Verifies(c, msg)
               PROVE  msg.mac < msg.nonce \/ msg.nonce = 0
    BY DEF WrongAnswersAreStale
  <2> DEFINE D == Timely(c, channels[Ch], reads)
  <2>1. \A q \in Seq(D) : Range(q) \subseteq D
    BY DEF Range
  <2>2. msg \in D /\ msg.type = "verify_peer"
    <3> HIDE DEF D
    <3>1. /\ down[c] \in Seq(D) /\ inbox[c] \in Seq(D) /\ returned[c] \in Seq(D)
          /\ taken[c] \in D
      BY DEF SInv, FramesOK, D
    <3> QED BY <2>1, <3>1 DEF Shown, Pending
  <2>3. msg.mac \in Nat /\ msg.nonce \in Nat
    BY <2>2 DEF Timely, Frame, Nonce
  <2> QED BY <2>2, <2>3 DEF Timely, Verifies
<1> QED BY <1>1, SessionInductive, PTL

-----------------------------------------------------------------------------
(* Evictions reach the client, as long as no inbox is full                  *)

\* No inbox drops a message.
Roomy == \A c \in Conns : Len(inbox[c]) < InboxSize

\* The clients under one id are used one after the other, and a channel is
\* shared by two ids: those of the two clients that paired for it.
OneAtATime ==
  \A c, d \in Conns : c # d /\ IdOf[c] = IdOf[d] => c \in Before[d] \/ d \in Before[c]
TwoIds ==
  \A c, d, e \in Conns : IdOf[c] = IdOf[d] \/ IdOf[d] = IdOf[e] \/ IdOf[c] = IdOf[e]

\* An error is on its way to c or waits to be read.
ErrorComes(c) ==
  \E msg \in Range(down[c]) \cup Range(inbox[c]) \cup Range(returned[c]) :
    msg.type = "error"

\* A client that is calling or has called with success takes itself for a
\* member with reason, or will see an error.
Heard(c) ==
  phase[c] \in {"idle", "failed", "closed"} \/ view[c][Ch].type \in Inside
    \/ ErrorComes(c)

\* A client that has never called knows and reads nothing.
Fresh(c) == phase[c] = "idle" => known[c] = "none" /\ down[c] = << >>

\* The clients used before one that has called are closed; members have called;
\* and the server has forgotten a closed client when the next under its id is
\* at work.
Turns ==
  /\ \A d \in Conns : phase[d] # "idle" => \A c \in Before[d] : phase[c] = "closed"
  /\ \A d \in ConnsOf(channels[Ch]) : phase[d] # "idle"
  /\ \A d \in ConnsOf(channels[Ch]), c \in Conns :
       c # d /\ phase[d] = "closed" /\ IdOf[c] = IdOf[d]
         => phase[c] \in {"idle", "closed"}

BelieverInv ==
  /\ SInv
  /\ Turns
  /\ \A c \in Conns : Fresh(c)
  /\ \A c \in Conns : Heard(c)

\* Where the elements of a queue go.
LEMMA QueueRange ==
  ASSUME NEW S, NEW q \in Seq(S)
  PROVE  /\ q # << >> => Range(q) = {Head(q)} \cup Range(Tail(q))
         /\ \A e \in S : Range(Append(q, e)) = Range(q) \cup {e}
         /\ \A i \in DOMAIN q : Range(q) \subseteq {q[i]} \cup Range(RemoveAt(q, i))
<1>1. ASSUME q # << >> PROVE Range(q) = {Head(q)} \cup Range(Tail(q))
  <2>1. /\ DOMAIN q = 1 .. Len(q) /\ Len(q) \in Nat /\ Len(q) > 0 /\ Head(q) = q[1]
        /\ DOMAIN Tail(q) = 1 .. Len(q) - 1
        /\ \A i \in 1 .. Len(q) - 1 : Tail(q)[i] = q[i + 1]
    BY <1>1, HeadTailProperties, LenProperties, EmptySeq
  <2>2. \A i \in DOMAIN q : i = 1 \/ (i - 1 \in DOMAIN Tail(q) /\ q[i] = Tail(q)[i - 1])
    BY <2>1
  <2>3. 1 \in DOMAIN q /\ \A i \in DOMAIN Tail(q) : i + 1 \in DOMAIN q /\ Tail(q)[i] = q[i + 1]
    BY <2>1
  <2>4. Range(q) \subseteq {Head(q)} \cup Range(Tail(q))
    BY <2>1, <2>2 DEF Range
  <2>5. {Head(q)} \cup Range(Tail(q)) \subseteq Range(q)
    BY <2>1, <2>3 DEF Range
  <2> QED BY <2>4, <2>5
<1>2. ASSUME NEW e \in S PROVE Range(Append(q, e)) = Range(q) \cup {e}
  <2>1. /\ DOMAIN q = 1 .. Len(q) /\ Len(q) \in Nat
        /\ DOMAIN Append(q, e) = 1 .. Len(q) + 1
        /\ \A i \in 1 .. Len(q) : Append(q, e)[i] = q[i]
        /\ Append(q, e)[Len(q) + 1] = e
    BY AppendProperties, LenProperties
  <2>2. \A i \in DOMAIN Append(q, e) : i \in DOMAIN q \/ i = Len(q) + 1
    BY <2>1
  <2>3. Len(q) + 1 \in DOMAIN Append(q, e) /\ \A i \in DOMAIN q : i \in DOMAIN Append(q, e)
    BY <2>1
  <2> QED BY <2>1, <2>2, <2>3 DEF Range
<1>3. ASSUME NEW i \in DOMAIN q PROVE Range(q) \subseteq {q[i]} \cup Range(RemoveAt(q, i))
  <2>1. /\ DOMAIN q = 1 .. Len(q) /\ Len(q) \in Nat /\ i \in 1 .. Len(q)
    BY LenProperties
  <2> DEFINE f == SubSeq(q, 1, i - 1)
             g == SubSeq(q, i + 1, Len(q))
             r == RemoveAt(q, i)
  <2>2. /\ f \in Seq(S) /\ Len(f) = i - 1
        /\ \A j \in 1 .. i - 1 : f[j] = q[j]
        /\ g \in Seq(S) /\ Len(g) = Len(q) - i
        /\ \A j \in 1 .. Len(q) - i : g[j] = q[i + j]
    BY <2>1, SMTT(30)
  <2> HIDE DEF f, g
  <2>3. /\ DOMAIN (f \o g) = 1 .. Len(f) + Len(g)
        /\ \A j \in 1 .. Len(f) + Len(g) :
             (f \o g)[j] = IF j <= Len(f) THEN f[j] ELSE g[j - Len(f)]
    BY <2>2, SMTT(30)
  <2>4. r = f \o g
    BY DEF RemoveAt, f, g
  <2> HIDE DEF r
  <2>5. ASSUME NEW j \in 1 .. Len(q), j # i PROVE q[j] \in Range(r)
    <3>1. CASE j < i
      <4>1. j \in DOMAIN r /\ r[j] = q[j]
        BY <2>1, <2>2, <2>3, <2>4, <3>1
      <4> QED BY <4>1 DEF Range
    <3>2. CASE j > i
      <4>0. /\ i \in Nat /\ j \in Nat /\ Len(q) \in Nat /\ j <= Len(q) /\ i >= 1
        BY <2>1
      <4>1. /\ j - 1 \in 1 .. (i - 1) + (Len(q) - i) /\ ~(j - 1 <= i - 1)
            /\ (j - 1) - (i - 1) = j - i /\ j - i \in 1 .. Len(q) - i /\ i + (j - i) = j
        BY <3>2, <4>0
      <4>2. j - 1 \in DOMAIN r /\ r[j - 1] = g[(j - 1) - (i - 1)]
        BY <2>2, <2>3, <2>4, <4>1
      <4>3. g[j - i] = q[j]
        BY <2>2, <4>1
      <4>4. r[j - 1] = q[j]
        BY <4>1, <4>2, <4>3
      <4> QED BY <4>2, <4>4 DEF Range
    <3> QED BY <2>1, <2>5, <3>1, <3>2
  <2> QED BY <2>1, <2>5 DEF Range, r
<1> QED BY <1>1, <1>2, <1>3

\* Who takes part in the channel after a join: the one that joins, and who did
\* before under another id.
LEMMA JoinMembers ==
  ASSUME IInv, IInv', NEW c \in Conns, HandleJoin(c, Ch), NEW d \in ConnsOf(channels'[Ch])
  PROVE  d = c \/ (d \in ConnsOf(channels[Ch]) /\ IdOf[d] # IdOf[c])
<1> DEFINE k == AfterReplacement(c, Opened(Ch))
<1>1. channels[Ch] \in Channel /\ k \in Channel /\ Ch \in DOMAIN channels
  BY ChAssumption, OpenedType, AfterReplacementType DEF IInv, TypeOK
<1>2. \A s \in Slot :
        /\ k.peers[s].conn # NoConn => IdOf[k.peers[s].conn] # IdOf[c]
        /\ k.peers[s].conn \in {channels[Ch].peers[s].conn, NoConn}
  <2>1. \A s \in Slot : k.peers[s].conn \in {Opened(Ch).peers[s].conn, NoConn}
    BY OpenedType, ChAssumption
    DEF AfterReplacement, Channel, NoPeer, IInv, TypeOK
  <2>2. \A s \in Slot : Opened(Ch).peers[s].conn \in {channels[Ch].peers[s].conn, NoConn}
    BY DEF Opened, NoPeers, NoPeer
  <2> QED BY <2>1, <2>2, SettledOpened
<1> HIDE DEF k
<1>3. \A s \in Slot : channels'[Ch].peers[s].conn \in {c, k.peers[s].conn}
  <2>1. CASE JoinFirst(c, Ch)
    <3>1. channels'[Ch].peers = [k.peers EXCEPT ![0] =
            [conn |-> c, nonce |-> reads + 1, answered |-> FALSE]]
      BY <1>1, <2>1 DEF JoinFirst, BackToWait, Seat, k, Channel
    <3>2. DOMAIN k.peers = Slot
      BY <1>1 DEF Channel
    <3> QED BY <3>1, <3>2 DEF Slot
  <2>2. CASE JoinSecond(c, Ch)
    <3> DEFINE f == FreeSlot(k)
               j == [conn |-> c, nonce |-> reads + 1, answered |-> FALSE]
               m == [conn |-> k.peers[1 - f].conn, nonce |-> reads + 2, answered |-> FALSE]
    <3>1. channels'[Ch] = [Seat(Seat(k, f, c, reads + 1), 1 - f,
                                k.peers[1 - f].conn, reads + 2)
                             EXCEPT !.state = "CHALLENGING"]
      BY <1>1, <2>2 DEF JoinSecond, k
    <3>2. channels'[Ch].peers = [k.peers EXCEPT ![f] = j, ![1 - f] = m]
      BY <1>1, <3>1 DEF Seat, Channel
    <3>3. /\ DOMAIN k.peers = Slot /\ f \in Slot /\ 1 - f \in Slot /\ f # 1 - f
          /\ \A s \in Slot : s = f \/ s = 1 - f
      BY <1>1 DEF Channel, Slot, FreeSlot
    <3>4. j.conn = c /\ m.conn = k.peers[1 - f].conn
      OBVIOUS
    <3> HIDE DEF j, m, f
    <3>5. channels'[Ch].peers[f] = j /\ channels'[Ch].peers[1 - f] = m
      BY <3>2, <3>3
    <3> QED BY <3>3, <3>4, <3>5
  <2>3. CASE JoinNonceFails(c, Ch) \/ JoinSecondNonceFails(c, Ch)
    <3>1. channels'[Ch].peers = k.peers
      BY <1>1, <2>3 DEF JoinNonceFails, JoinSecondNonceFails, BackToWait, k
    <3> QED BY <3>1
  <2> QED BY <2>1, <2>2, <2>3 DEF HandleJoin
<1>4. PICK s \in Slot : channels'[Ch].peers[s].conn = d /\ d # NoConn
  BY DEF ConnsOf, Members
<1>5. d = c \/ (d = k.peers[s].conn /\ d = channels[Ch].peers[s].conn)
  BY <1>2, <1>3, <1>4
<1> QED BY <1>2, <1>4, <1>5 DEF ConnsOf, Members

\* No other step takes a connection in.
Shrinks == ConnsOf(channels'[Ch]) \subseteq ConnsOf(channels[Ch])

\* Seats that only become free.
LEMMA SeatsShrink ==
  ASSUME \A s \in Slot : channels'[Ch].peers[s].conn \in {channels[Ch].peers[s].conn, NoConn}
  PROVE  Shrinks
BY DEF Shrinks, ConnsOf, Members

\* So it is with Without,
LEMMA WithoutSeats ==
  ASSUME NEW k \in Channel, NEW s \in Slot
  PROVE  \A t \in Slot : Without(k, s).peers[t].conn \in {k.peers[t].conn, NoConn}
<1>1. CASE Members(k) \ {s} = {}
  BY <1>1 DEF Without, Channel, NoPeer
<1>2. CASE Members(k) \ {s} # {}
  BY <1>2 DEF Without, BackToWait, NoPeer
<1> QED BY <1>1, <1>2

\* with all that the server does of itself,
LEMMA ServerStepShrinks ==
  ASSUME IInv, ServerStep PROVE Shrinks
<1>1. Ch \in ChIds /\ channels[Ch] \in Channel /\ Ch \in DOMAIN channels
  BY ChAssumption DEF IInv, TypeOK
<1>2. \A s \in Slot : NoChannel.peers[s].conn = NoConn
  BY DEF NoChannel, NoPeers, NoPeer
<1>3. channels'[Ch] \in {channels[Ch], NoChannel} => Shrinks
  BY <1>2, SeatsShrink
<1>4. \A s \in Slot : channels'[Ch] = Without(channels[Ch], s) => Shrinks
  BY <1>1, WithoutSeats, SeatsShrink
<1>5. ASSUME NEW c \in Conns, SendRejected(c) PROVE Shrinks
  BY <1>3, <1>5 DEF SendRejected
<1>6. ASSUME NEW c \in Conns, UnregisterConn(c) PROVE Shrinks
  <2>1. channels'[Ch] \in {Cut(c, Ch), channels[Ch]}
    BY <1>1, <1>6 DEF UnregisterConn
  <2>2. SlotOf(channels[Ch], c) \in Slot
    BY DEF SlotOf, Slot
  <2>3. Cut(c, Ch) \in {channels[Ch], NoChannel,
                        Without(channels[Ch], SlotOf(channels[Ch], c))}
    BY DEF Cut
  <2> QED BY <1>3, <1>4, <2>1, <2>2, <2>3
<1>7. ASSUME NEW c \in Conns, NEW ch \in ChIds, ChallengeTimeout(c, ch) PROVE Shrinks
  <2>1. ch = Ch
    BY ChAssumption
  <2>2. \/ channels' = channels
        \/ \E s \in Slot : channels' = [channels EXCEPT ![Ch] = Without(channels[Ch], s)]
    BY <1>7, <2>1 DEF ChallengeTimeout, Expire, SlotsOf
  <2>3. channels'[Ch] = channels[Ch] \/ \E s \in Slot : channels'[Ch] = Without(channels[Ch], s)
    BY <1>1, <2>2
  <2> QED BY <1>3, <1>4, <2>3
<1>8. ASSUME NEW t \in waitTimers, WaitPeerTimeout(t) PROVE Shrinks
  <2>1. t.ch = Ch
    BY ChAssumption DEF IInv, TypeOK, WaitTimer
  <2>2. channels' = channels \/ channels'[Ch].peers = NoPeers
    BY <1>1, <1>8, <2>1 DEF WaitPeerTimeout, Channel
  <2>3. CASE channels'[Ch].peers = NoPeers
    BY <2>3, SeatsShrink DEF NoPeers, NoPeer
  <2> QED BY <1>3, <2>2, <2>3
<1>9. ASSUME NEW d \in deletes, DeferredDelete(d) PROVE Shrinks
  <2>1. channels'[Ch] \in {NoChannel, channels[Ch]}
    BY <1>1, <1>9 DEF DeferredDelete, DeleteIfSame
  <2> QED BY <1>3, <2>1
<1> QED BY <1>5, <1>6, <1>7, <1>8, <1>9
        DEF ServerStep, FireChallenge, FireWait, FinishDelete

\* and with a response, which frees none.
LEMMA ResponseShrinks ==
  ASSUME IInv, NEW c \in Conns, HandleResponse(c, Ch) PROVE Shrinks
<1>1. channels[Ch] \in Channel /\ Ch \in DOMAIN channels
  BY ChAssumption DEF IInv, TypeOK
<1>2. PICK s \in Slot : channels'[Ch] \in {Answered(channels[Ch], s), Activated(channels[Ch])}
  BY <1>1 DEF HandleResponse, SlotsOf
<1>3. CASE channels'[Ch] = Answered(channels[Ch], s)
  <2>1. \A t \in Slot : channels'[Ch].peers[t].conn = channels[Ch].peers[t].conn
    BY <1>1, <1>3 DEF Answered, Channel, Peer, ChannelMember, NoPeer
  <2> QED BY <2>1, SeatsShrink
<1>4. CASE channels'[Ch] = Activated(channels[Ch])
  <2>1. \A t \in Slot : channels'[Ch].peers[t].conn = channels[Ch].peers[t].conn
    BY <1>1, <1>4 DEF Activated, Channel
  <2> QED BY <2>1, SeatsShrink
<1> QED BY <1>2, <1>3, <1>4

\* What the steps of the clients are to the server.
LEMMA OtherStepsShrink ==
  ASSUME SInv, [SNext]_sessionVars, \A c \in Conns : ~Join(c)
  PROVE  Shrinks
<1>1. IInv
  BY DEF SInv
<1>2. channels' = channels => Shrinks
  BY DEF Shrinks
<1>3. ASSUME NEW c \in Conns, HandleVerifyRejected(c, Ch) PROVE Shrinks
  <2>1. channels'[Ch] = NoChannel
    BY <1>3, ChAssumption, <1>1 DEF HandleVerifyRejected, IInv, TypeOK
  <2> QED BY <2>1, SeatsShrink DEF NoChannel, NoPeers, NoPeer
<1>4. ASSUME NEW c \in Conns, HandleResponse(c, Ch) PROVE Shrinks
  BY <1>1, <1>4, ResponseShrinks
<1>5. Notify => Shrinks
  BY <1>1, ServerStepShrinks DEF Notify, ServerStep
<1>6. ASSUME NEW c \in Conns, Call(c) \/ PutBack(c) \/ ReadLoop(c) \/ Close(c) \/ Hangup(c)
      PROVE  \/ HandleResponse(c, Ch) \/ HandleVerifyRejected(c, Ch)
             \/ channels' = channels
  BY <1>6
  DEF Call, TakeError, TakeChallenge, AnswerAgain, TakeVerifyPeer, WaitTimeout,
      DebounceChallenge, DebounceOver, Accept, Reject, SendResponse,
      SendVerifyRejected, PutBack, ReadLoop, ReadPeerLeft, AutoRespond, AutoVerify,
      ReadError, Close, Hangup, CloseConn, vars
<1> QED BY <1>2, <1>3, <1>4, <1>5, <1>6 DEF SNext, sessionVars, vars

\* How the calls of a client go on.
PhaseStep(c) ==
  \/ phase'[c] = phase[c]
  \/ Join(c) /\ phase'[c] = "joining"
  \/ Close(c) /\ phase'[c] = "closed" /\ phase[c] \notin {"idle", "closed"}
  \/ phase[c] \notin {"idle", "closed"} /\ phase'[c] \notin {"idle", "closed"}

\* Each client's calls go on like that, and while one joins or closes the others'
\* stand still.
LEMMA PhasesStep ==
  ASSUME SInv, [SNext]_sessionVars, NEW c \in Conns
  PROVE  PhaseStep(c) /\ ((\E d \in Conns \ {c} : Join(d) \/ Close(d)) => phase'[c] = phase[c])
<1>1. phase \in [Conns -> Phases]
  BY DEF SInv, ClientTypeOK, Phases
<1>2. CASE Notify \/ UNCHANGED sessionVars
  <2>1. phase' = phase
    BY <1>2 DEF Notify, sessionVars, clientVars
  <2>2. ~\E d \in Conns : Join(d) \/ Close(d)
    <3>1. ASSUME NEW d \in Conns, Join(d) PROVE phase'[d] # phase[d]
      BY <1>1, <3>1 DEF Join
    <3>2. ASSUME NEW d \in Conns, Close(d) PROVE phase'[d] # phase[d]
      BY <1>1, <3>2 DEF Close
    <3> QED BY <2>1, <3>1, <3>2
  <2> QED BY <2>1 DEF PhaseStep
<1>3. ASSUME NEW d \in Conns, NEW p \in Phases,
             phase' = [phase EXCEPT ![d] = p],
             \/ Join(d) /\ p = "joining"
             \/ Close(d) /\ p = "closed" /\ phase[d] \notin {"idle", "closed"}
             \/ p = phase[d]
             \/ phase[d] \notin {"idle", "closed"} /\ p \notin {"idle", "closed"}
      PROVE  PhaseStep(c) /\ ((\E e \in Conns \ {c} : Join(e) \/ Close(e)) => phase'[c] = phase[c])
  <2>1. CASE c = d
    <3>1. PhaseStep(c)
      BY <1>1, <1>3, <2>1 DEF PhaseStep
    <3>2. ASSUME NEW e \in Conns \ {c}, Join(e) \/ Close(e) PROVE phase'[c] = phase[c]
      BY <1>1, <3>2 DEF Join, Close
    <3> QED BY <3>1, <3>2
  <2>2. CASE c # d
    BY <1>1, <1>3, <2>2 DEF PhaseStep
  <2> QED BY <2>1, <2>2
<1>4. ASSUME NEW d \in Conns, Join(d)
      PROVE  phase' = [phase EXCEPT ![d] = "joining"]
  BY <1>4 DEF Join
<1>5. ASSUME NEW d \in Conns, Close(d)
      PROVE  phase' = [phase EXCEPT ![d] = "closed"] /\ phase[d] \notin {"idle", "closed"}
  BY <1>5 DEF Close
<1>6. ASSUME NEW d \in Conns, Hangup(d) \/ PutBack(d) \/ ReadLoop(d)
      PROVE  phase' = [phase EXCEPT ![d] = phase[d]]
  <2>1. phase' = phase
    BY <1>6 DEF Hangup, PutBack, ReadLoop, ReadPeerLeft, AutoRespond, AutoVerify,
                ReadError, clientVars
  <2> QED BY <1>1, <2>1
<1>7. ASSUME NEW d \in Conns, Call(d)
      PROVE  /\ phase[d] \notin {"idle", "closed"}
             /\ \E p \in Phases \ {"idle", "closed"} : phase' = [phase EXCEPT ![d] = p]
  <2>1. phase[d] \in Calling
    BY <1>7
    DEF Call, TakeError, TakeChallenge, AnswerAgain, TakeVerifyPeer, WaitTimeout,
        DebounceChallenge, DebounceOver, Accept, Reject, Offers, Calling, Waiting
  <2>2. \/ phase' = phase
        \/ \E p \in {"failed", "debouncing", "verifying", "answered", "done"} :
             phase' = [phase EXCEPT ![d] = p]
    BY <1>7
    DEF Call, TakeError, TakeChallenge, AnswerAgain, TakeVerifyPeer, WaitTimeout,
        DebounceChallenge, DebounceOver, Accept, Reject
  <2>3. phase = [phase EXCEPT ![d] = phase[d]]
    BY <1>1
  <2> QED BY <2>1, <2>2, <2>3 DEF Calling, Waiting, Phases
<1>8. ASSUME NEW d \in Conns,
             Hangup(d) \/ Join(d) \/ Close(d) \/ Call(d) \/ PutBack(d) \/ ReadLoop(d)
      PROVE  PhaseStep(c) /\ ((\E e \in Conns \ {c} : Join(e) \/ Close(e)) => phase'[c] = phase[c])
  <2>1. phase[d] \in Phases /\ "joining" \in Phases /\ "closed" \in Phases
    BY <1>1 DEF Phases, Calling, Waiting
  <2>2. CASE Hangup(d) \/ PutBack(d) \/ ReadLoop(d)
    BY <1>3, <1>6, <2>1, <2>2
  <2>3. CASE Call(d)
    BY <1>3, <1>7, <2>3
  <2>4. CASE Join(d)
    BY <1>3, <1>4, <2>1, <2>4
  <2>5. CASE Close(d)
    BY <1>3, <1>5, <2>1, <2>5
  <2> QED BY <1>8, <2>2, <2>3, <2>4, <2>5
<1> QED BY <1>2, <1>8 DEF SNext

\* Turns goes on.
LEMMA TurnsKept ==
  ASSUME SInv, Turns, OneAtATime, [SNext]_sessionVars, IInv' PROVE Turns'
<1>0. IInv /\ \A d \in Conns : Before[d] \subseteq Conns
  BY BeforeAssumption DEF SInv
<1>1. ASSUME NEW c \in Conns, phase[c] = "closed" PROVE phase'[c] = "closed"
  <2>1. PhaseStep(c)
    BY PhasesStep
  <2> QED BY <1>1, <2>1 DEF PhaseStep, Join
<1>2. ASSUME NEW d \in Conns, phase'[d] # "idle", NEW c \in Before[d]
      PROVE  phase'[c] = "closed"
  <2>1. PhaseStep(d) /\ c \in Conns
    BY <1>0, PhasesStep
  <2>2. CASE phase[d] = "idle"
    <3>1. Join(d)
      BY <1>2, <2>1, <2>2 DEF PhaseStep
    <3>2. phase[c] = "closed"
      BY <3>1 DEF Join
    <3> QED BY <1>1, <2>1, <3>2
  <2>3. CASE phase[d] # "idle"
    BY <1>1, <2>1, <2>3 DEF Turns
  <2> QED BY <2>2, <2>3
<1>3. ASSUME NEW e \in Conns, Join(e), NEW d \in ConnsOf(channels'[Ch])
      PROVE  /\ d \in Conns
             /\ d = e \/ (d \in ConnsOf(channels[Ch]) /\ IdOf[d] # IdOf[e])
  <2>1. HandleJoin(e, Ch)
    BY <1>3 DEF Join, SendJoin
  <2>2. d = e \/ (d \in ConnsOf(channels[Ch]) /\ IdOf[d] # IdOf[e])
    BY <1>0, <2>1, JoinMembers
  <2>3. channels[Ch] \in Channel
    BY <1>0, ChAssumption DEF IInv, TypeOK
  <2> QED BY <2>2, <2>3, ConnsOfType
<1>4. ASSUME \A e \in Conns : ~Join(e), NEW d \in ConnsOf(channels'[Ch])
      PROVE  d \in Conns /\ d \in ConnsOf(channels[Ch])
  <2>1. d \in ConnsOf(channels[Ch])
    BY <1>4, OtherStepsShrink DEF Shrinks
  <2>2. channels[Ch] \in Channel
    BY <1>0, ChAssumption DEF IInv, TypeOK
  <2> QED BY <2>1, <2>2, ConnsOfType
<1>5. ASSUME NEW d \in ConnsOf(channels'[Ch]) PROVE phase'[d] # "idle"
  <2>1. CASE \E e \in Conns : Join(e)
    <3>1. PICK e \in Conns : Join(e)
      BY <2>1
    <3>2. CASE d = e
      BY <3>1, <3>2 DEF Join, SInv, ClientTypeOK
    <3>3. CASE d # e
      <4>1. d \in Conns /\ d \in ConnsOf(channels[Ch])
        BY <1>3, <3>1, <3>3
      <4>2. PhaseStep(d)
        BY <4>1, PhasesStep
      <4> QED BY <4>1, <4>2 DEF PhaseStep, Turns
    <3> QED BY <3>2, <3>3
  <2>2. CASE \A e \in Conns : ~Join(e)
    <3>1. d \in Conns /\ d \in ConnsOf(channels[Ch])
      BY <1>4, <2>2
    <3>2. PhaseStep(d)
      BY <3>1, PhasesStep
    <3> QED BY <3>1, <3>2 DEF PhaseStep, Turns
  <2> QED BY <2>1, <2>2
<1>6. ASSUME NEW d \in ConnsOf(channels'[Ch]), NEW c \in Conns, c # d,
             phase'[d] = "closed", IdOf[c] = IdOf[d]
      PROVE  phase'[c] \in {"idle", "closed"}
  <2>1. CASE \E e \in Conns : Join(e)
    <3>1. PICK e \in Conns : Join(e)
      BY <2>1
    <3>2. phase'[e] = "joining"
      BY <3>1 DEF Join, SInv, ClientTypeOK
    <3>3. d # e /\ d \in Conns /\ d \in ConnsOf(channels[Ch]) /\ c # e
      BY <1>3, <1>6, <3>1, <3>2
    <3>4. phase'[c] = phase[c] /\ phase'[d] = phase[d]
      BY <3>1, <3>3, PhasesStep
    <3> QED BY <1>6, <3>3, <3>4 DEF Turns
  <2>2. CASE \A e \in Conns : ~Join(e)
    <3>1. d \in Conns /\ d \in ConnsOf(channels[Ch])
      BY <1>4, <2>2
    <3>2. PhaseStep(c) /\ PhaseStep(d)
          /\ ((\E e \in Conns \ {c} : Join(e) \/ Close(e)) => phase'[c] = phase[c])
      BY <3>1, PhasesStep
    <3>3. CASE phase[d] = "closed"
      <4>1. phase[c] \in {"idle", "closed"}
        BY <1>6, <3>1, <3>3 DEF Turns
      <4> QED BY <2>2, <3>2, <4>1 DEF PhaseStep
    <3>4. CASE phase[d] # "closed"
      <4>1. Close(d) /\ phase[d] # "idle"
        BY <1>6, <2>2, <3>1, <3>2, <3>4 DEF PhaseStep
      <4>2. phase'[c] = phase[c]
        BY <1>6, <3>1, <3>2, <4>1
      <4>3. c \in Before[d] \/ d \in Before[c]
        BY <1>6, <3>1 DEF OneAtATime
      <4> QED BY <3>1, <3>4, <4>1, <4>2, <4>3 DEF Turns
    <3> QED BY <3>3, <3>4
  <2> QED BY <2>1, <2>2
<1> QED BY <1>2, <1>5, <1>6 DEF Turns

\* While a client is at work, only one other connection is in the channel.
LEMMA OneOther ==
  ASSUME SInv, Turns, OneAtATime, TwoIds, NEW c \in Conns,
         phase[c] \notin {"idle", "closed"},
         NEW s \in Members(channels[Ch]), NEW t \in Members(channels[Ch]),
         channels[Ch].peers[s].conn # c, channels[Ch].peers[t].conn # c
  PROVE  s = t
<1> DEFINE k == channels[Ch]
<1>0. k \in Channel /\ DistinctOK(k)
  BY ChAssumption DEF SInv, IInv, TypeOK, ChannelOK
<1>1. ASSUME NEW u \in Members(k), k.peers[u].conn # c PROVE IdOf[k.peers[u].conn] # IdOf[c]
  <2> DEFINE d == k.peers[u].conn
  <2>1. d \in ConnsOf(k) /\ d \in Conns
    BY <1>0, ConnsOfType DEF ConnsOf
  <2> HIDE DEF d
  <2>2. SUFFICES ASSUME IdOf[c] = IdOf[d] PROVE FALSE
    BY DEF d
  <2>3. c # d /\ (c \in Before[d] \/ d \in Before[c])
    BY <1>1, <2>1, <2>2 DEF OneAtATime, d
  <2> QED BY <2>1, <2>2, <2>3 DEF Turns
<1>2. SUFFICES ASSUME s # t PROVE FALSE
  OBVIOUS
<1>3. k.peers[s].conn \in Conns /\ k.peers[t].conn \in Conns
  BY <1>0, ConnsOfType DEF ConnsOf
<1>4. IdOf[k.peers[s].conn] # IdOf[k.peers[t].conn]
  BY <1>0, <1>2 DEF DistinctOK
<1> QED BY <1>1, <1>3, <1>4 DEF TwoIds

\* Nothing reaches a client that has never called.
LEMMA FreshKept ==
  ASSUME SInv, NEW c \in Conns, Fresh(c), [SNext]_sessionVars
  PROVE  Fresh(c)'
<1> SUFFICES ASSUME phase'[c] = "idle" PROVE known'[c] = "none" /\ down'[c] = << >>
  BY DEF Fresh
<1>1. phase[c] = "idle" /\ known[c] = "none" /\ down[c] = << >>
  <2>1. PhaseStep(c)
    BY PhasesStep
  <2> QED BY <2>1 DEF PhaseStep, Fresh
<1>2. /\ down \in [Conns -> Seq(Frame)]
      /\ known \in [Conns -> {"none", "inactive", "active"}]
  BY DEF SInv, ClientTypeOK
<1>3. \A told, queue, box : Deliver(told, queue, box) => down'[c] = queue[c]
  BY <1>1 DEF Deliver
<1>4. CASE Notify
  BY <1>1, <1>3, <1>4 DEF Notify
<1>5. CASE UNCHANGED sessionVars
  BY <1>1, <1>5 DEF sessionVars, clientVars
<1>6. ASSUME NEW d \in Conns, Hangup(d) \/ Join(d) \/ PutBack(d)
      PROVE  known'[c] = "none" /\ down'[c] = << >>
  <2>1. ReplacedQueue(d)[c] = down[c]
    BY <1>1, ReplacedIs
  <2> QED BY <1>1, <1>3, <1>6, <2>1 DEF Hangup, Join, SendJoin, PutBack, clientVars
<1>7. ASSUME NEW d \in Conns, Close(d)
      PROVE  known'[c] = "none" /\ down'[c] = << >>
  BY <1>1, <1>2, <1>7 DEF Close
<1>8. ASSUME NEW d \in Conns, ReadLoop(d)
      PROVE  known'[c] = "none" /\ down'[c] = << >>
  <2>1. d # c
    BY <1>1, <1>8 DEF ReadLoop, ReadPeerLeft, AutoRespond, AutoVerify, ReadError, Reads
  <2>2. Unread(d)[c] = down[c]
    BY <1>2, <2>1 DEF Unread
  <2> QED BY <1>1, <1>2, <1>3, <1>8, <2>1, <2>2
          DEF ReadLoop, ReadPeerLeft, AutoRespond, SendResponse, AutoVerify, ReadError
<1>9. ASSUME NEW d \in Conns, Call(d)
      PROVE  known'[c] = "none" /\ down'[c] = << >>
  <2>1. CASE Accept(d)
    BY <1>1, <1>2, <2>1 DEF Accept
  <2>2. CASE ~Accept(d)
    BY <1>1, <1>3, <1>9, <2>2
    DEF Call, TakeError, TakeChallenge, AnswerAgain, TakeVerifyPeer, WaitTimeout,
        DebounceChallenge, DebounceOver, Reject, SendResponse, SendVerifyRejected
  <2> QED BY <2>1, <2>2
<1> QED BY <1>4, <1>5, <1>6, <1>7, <1>8, <1>9 DEF SNext

\* A queue holds an error.
HasError(q) == \E msg \in Range(q) : msg.type = "error"

\* The three queues in which an error may be.
LEMMA ErrorQueues ==
  ASSUME NEW c \in Conns
  PROVE  ErrorComes(c) <=> HasError(down[c]) \/ HasError(inbox[c]) \/ HasError(returned[c])
BY DEF ErrorComes, HasError

\* Errors stay in a queue to which something is added, are not what is taken
\* when that is no error, and are in one of the two when that is all.
LEMMA ErrorsMove ==
  ASSUME NEW S, NEW q \in Seq(S)
  PROVE  /\ \A e : HasError(q) => HasError(Append(q, e))
         /\ \A e : e.type = "error" => HasError(Append(q, e))
         /\ q # << >> /\ HasError(q) => Head(q).type = "error" \/ HasError(Tail(q))
         /\ \A i \in DOMAIN q : HasError(q) => q[i].type = "error" \/ HasError(RemoveAt(q, i))
<1>1. ASSUME NEW e PROVE Range(Append(q, e)) = Range(q) \cup {e}
  <2>1. q \in Seq(S \cup {e})
    BY SeqMonotonic
  <2> QED BY <2>1, QueueRange
<1> QED BY <1>1, QueueRange DEF HasError

\* A client that no longer takes itself for a member is told so.
LEMMA OutFrame ==
  ASSUME NEW c \in Conns, view'[c][Ch].type \notin Inside
  PROVE  FrameTo(c) = Plain("error") /\ FrameTo(c).type = "error"
BY DEF FrameTo, Inside, Plain

\* A delivery loses no error, and an error that is delivered arrives.
LEMMA ErrorsDelivered ==
  ASSUME NEW told, NEW queue \in [Conns -> Seq(Frame)], NEW box \in [Conns -> Seq(Frame)],
         Deliver(told, queue, box), NEW c \in Conns
  PROVE  /\ HasError(queue[c]) => HasError(down'[c])
         /\ HasError(box[c]) => HasError(inbox'[c])
         /\ c \in told /\ FrameTo(c).type = "error" /\ phase[c] # "closed"
              /\ Len(box[c]) < InboxSize
              => HasError(down'[c]) \/ HasError(inbox'[c])
<1>1. /\ down'[c] = IF c \in told /\ known[c] # "none"
                    THEN Append(queue[c], FrameTo(c)) ELSE queue[c]
      /\ inbox'[c] = IF /\ c \in told /\ known[c] = "none" /\ phase[c] # "closed"
                        /\ FrameTo(c).type # "peer_left" /\ Len(box[c]) < InboxSize
                     THEN Append(box[c], FrameTo(c)) ELSE box[c]
  BY DEF Deliver
<1>2. queue[c] \in Seq(Frame) /\ box[c] \in Seq(Frame)
  OBVIOUS
<1> DEFINE e == FrameTo(c)
<1>3. /\ HasError(queue[c]) => HasError(Append(queue[c], e))
      /\ HasError(box[c]) => HasError(Append(box[c], e))
      /\ e.type = "error" => HasError(Append(queue[c], e)) /\ HasError(Append(box[c], e))
  BY <1>2, ErrorsMove
<1> HIDE DEF e
<1> QED BY <1>1, <1>3 DEF e

\* A step with a delivery: the news reach the client.
LEMMA HeardDelivery ==
  ASSUME SInv, IInv, IInv', NEW c \in Conns, Heard(c),
         NEW told, NEW queue \in [Conns -> Seq(Frame)], NEW box \in [Conns -> Seq(Frame)],
         Deliver(told, queue, box), Len(box[c]) < InboxSize,
         ErrorComes(c) => HasError(queue[c]) \/ HasError(box[c]) \/ HasError(returned'[c]),
         view'[c] # view[c] => view'[c][Ch].type \in Inside \/ c \in told,
         phase[c] \in {"idle", "failed", "closed"} => phase'[c] = phase[c]
  PROVE  Heard(c)'
<1>1. CASE phase[c] \in {"idle", "failed", "closed"}
  BY <1>1 DEF Heard
<1>2. CASE phase[c] \notin {"idle", "failed", "closed"} /\ ErrorComes(c)
  <2>1. HasError(down'[c]) \/ HasError(inbox'[c]) \/ HasError(returned'[c])
    BY <1>2, ErrorsDelivered
  <2> QED BY <2>1 DEF Heard, ErrorComes, HasError
<1>3. CASE phase[c] \notin {"idle", "failed", "closed"} /\ view[c][Ch].type \in Inside
  <2>1. CASE view'[c][Ch].type \in Inside
    BY <2>1 DEF Heard
  <2>2. CASE view'[c][Ch].type \notin Inside
    <3>1. c \in told
      BY <1>3, <2>2
    <3>2. HasError(down'[c]) \/ HasError(inbox'[c])
      BY <1>3, <2>2, <3>1, OutFrame, ErrorsDelivered
    <3> QED BY <3>2 DEF Heard, ErrorComes, HasError
  <2> QED BY <2>1, <2>2
<1> QED BY <1>1, <1>2, <1>3 DEF Heard

\* A step in which c hears nothing and loses no error.
LEMMA HeardQuietly ==
  ASSUME NEW c \in Conns, Heard(c), view'[c] = view[c],
         ErrorComes(c) => HasError(down'[c]) \/ HasError(inbox'[c]) \/ HasError(returned'[c]),
         phase[c] \in {"idle", "failed", "closed"}
           => phase'[c] \in {"idle", "failed", "closed"}
  PROVE  Heard(c)'
BY DEF Heard, ErrorComes, HasError

\* Who is seated by a join is challenged.
LEMMA SeatedChallenged ==
  ASSUME IInv, IInv', NEW c \in Conns, HandleJoin(c, Ch), c \in ConnsOf(channels'[Ch])
  PROVE  view'[c][Ch].type \in Inside
<1> DEFINE k == AfterReplacement(c, Opened(Ch))
           old == Replaced(c, Opened(Ch))
<1>0. view \in ViewType /\ Ch \in ChIds /\ k \in Channel /\ channels[Ch] \in Channel
      /\ Ch \in DOMAIN channels
  BY ChAssumption, OpenedType, AfterReplacementType DEF IInv, TypeOK, ViewType
<1> HIDE DEF k, old
<1>1. Open(c)
  BY DEF HandleJoin, JoinFirst, JoinSecond, JoinNonceFails, JoinSecondNonceFails,
         JoinAllowed, Reading, Open
<1>2. CASE JoinFirst(c, Ch)
  <2>1. Tell(Ch, [d \in old \cup {c} |->
                    IF d = c THEN Challenge(reads + 1) ELSE Note("out")])
    BY <1>2 DEF JoinFirst, old
  <2>2. view'[c][Ch] = Challenge(reads + 1)
    BY <1>0, <1>1, <2>1, TellView
  <2> QED BY <2>2 DEF Challenge, Inside
<1>3. CASE JoinSecond(c, Ch)
  <2> DEFINE p == k.peers[1 - FreeSlot(k)].conn
             notices == [d \in old \cup {c, p} |->
                           CASE d = c -> Challenge(reads + 1)
                             [] d = p -> Challenge(reads + 2)
                             [] OTHER -> Note("out")]
  <2>1. Tell(Ch, notices)
    BY <1>3 DEF JoinSecond, k, old
  <2>2. c \in DOMAIN notices /\ notices[c].type = "challenge"
    BY DEF Challenge
  <2> HIDE DEF notices
  <2>3. view'[c][Ch] = notices[c]
    BY <1>0, <1>1, <2>1, <2>2, TellView
  <2> QED BY <2>2, <2>3 DEF Inside
<1>4. CASE JoinNonceFails(c, Ch) \/ JoinSecondNonceFails(c, Ch)
  <2>1. channels'[Ch].peers = k.peers
    BY <1>0, <1>4 DEF JoinNonceFails, JoinSecondNonceFails, BackToWait, k
  <2>2. PICK s \in Slot : k.peers[s].conn = c
    BY <2>1 DEF ConnsOf, Members
  <2>3. IdOf[k.peers[s].conn] # IdOf[c]
    BY <2>2, SettledOpened, ConnsAssumption DEF k
  <2> QED BY <2>2, <2>3
<1> QED BY <1>2, <1>3, <1>4 DEF HandleJoin

\* Timers, rejections and the ends of connections.
LEMMA HeardNotify ==
  ASSUME SInv, IInv', Roomy, NEW c \in Conns, Heard(c), Notify
  PROVE  Heard(c)'
<1>1. /\ Deliver(Told, down, inbox) /\ UNCHANGED <<returned, phase, taken, known>>
  BY DEF Notify
<1>2. /\ down \in [Conns -> Seq(Frame)] /\ inbox \in [Conns -> Seq(Frame)] /\ IInv
  BY DEF SInv, ClientTypeOK
<1>3. ErrorComes(c) => HasError(down[c]) \/ HasError(inbox[c]) \/ HasError(returned'[c])
  BY <1>1, ErrorQueues
<1>4. (view'[c] # view[c] => c \in Told) /\ Len(inbox[c]) < InboxSize
  BY DEF Told, Roomy
<1> QED BY <1>1, <1>2, <1>3, <1>4, HeardDelivery

\* A join: the replaced connection, the peer, and the client that is refused.
LEMMA HeardJoining ==
  ASSUME SInv, IInv', Roomy, NEW c \in Conns, Heard(c), NEW d \in Conns, Join(d)
  PROVE  Heard(c)'
<1> DEFINE told == Told \cup ({d} \ ConnsOf(channels'[Ch]))
           queue == ReplacedQueue(d)
           box == ReplacedBox(d)
<1>1. /\ HandleJoin(d, Ch) /\ Deliver(told, queue, box)
      /\ phase[d] \in {"idle", "failed", "done"}
      /\ phase' = [phase EXCEPT ![d] = "joining"]
      /\ UNCHANGED <<returned, taken, known>>
  BY DEF Join, SendJoin
<1>2. /\ down \in [Conns -> Seq(Frame)] /\ inbox \in [Conns -> Seq(Frame)] /\ IInv
      /\ phase \in [Conns -> Phases]
  BY DEF SInv, ClientTypeOK, Phases
<1>3. /\ queue \in [Conns -> Seq(Frame)] /\ box \in [Conns -> Seq(Frame)]
      /\ c # d => queue[c] = down[c] /\ box[c] = inbox[c]
      /\ known[d] = "none" => queue = down
      /\ box[d] \in {inbox[d], Append(inbox[d], Plain("error"))}
  BY ReplacedIs DEF QueuesFit
<1>4. /\ view'[c] # view[c] => c \in told
      /\ d \notin ConnsOf(channels'[Ch]) => d \in told
      /\ Len(inbox[c]) < InboxSize
  BY DEF Told, Roomy
<1> HIDE DEF told, queue, box
<1>5. CASE c # d
  <2>1. phase'[c] = phase[c] /\ Len(box[c]) < InboxSize
    BY <1>1, <1>2, <1>3, <1>4, <1>5
  <2>2. ErrorComes(c) => HasError(queue[c]) \/ HasError(box[c]) \/ HasError(returned'[c])
    BY <1>1, <1>3, <1>5, ErrorQueues
  <2> QED BY <1>1, <1>2, <1>3, <1>4, <2>1, <2>2, HeardDelivery
<1>6. CASE c = d /\ d \in ConnsOf(channels'[Ch])
  <2>1. view'[c][Ch].type \in Inside
    BY <1>1, <1>2, <1>6, SeatedChallenged
  <2> QED BY <2>1 DEF Heard
<1>7. CASE c = d /\ d \notin ConnsOf(channels'[Ch])
  <2>1. FrameTo(c).type = "error" /\ phase[c] # "closed"
    BY <1>1, <1>7 DEF FrameTo, Plain
  <2>2. CASE Len(box[c]) < InboxSize
    <3>1. HasError(down'[c]) \/ HasError(inbox'[c])
      BY <1>1, <1>3, <1>4, <1>7, <2>1, <2>2, ErrorsDelivered
    <3> QED BY <3>1 DEF Heard, ErrorComes, HasError
  <2>3. CASE ~(Len(box[c]) < InboxSize)
    <3>1. box[c] = Append(inbox[c], Plain("error"))
      BY <1>3, <1>4, <1>7, <2>3
    <3>2. inbox[c] \in Seq(Frame) /\ Plain("error").type = "error"
      BY <1>2 DEF Plain
    <3>3. HasError(box[c])
      BY <3>1, <3>2, ErrorsMove
    <3>4. HasError(inbox'[c])
      BY <1>1, <1>3, <3>3, ErrorsDelivered
    <3> QED BY <3>4 DEF Heard, ErrorComes, HasError
  <2> QED BY <2>2, <2>3
<1> QED BY <1>5, <1>6, <1>7

\* A response is heard of only by those it makes active.
LEMMA HeardResponding ==
  ASSUME SInv, IInv', NEW c \in Conns, Heard(c), NEW d \in Conns, NEW n,
         NEW queue \in [Conns -> Seq(Frame)], NEW box \in [Conns -> Seq(Frame)],
         SendResponse(d, n, queue, box), Len(box[c]) < InboxSize,
         ErrorComes(c) => HasError(queue[c]) \/ HasError(box[c]) \/ HasError(returned'[c]),
         phase[c] \in {"idle", "failed", "closed"} => phase'[c] = phase[c]
  PROVE  Heard(c)'
<1>1. IInv /\ view \in ViewType /\ Ch \in ChIds
  BY ChAssumption DEF SInv, IInv, TypeOK, ViewType
<1>2. PICK told : Deliver(told, queue, box)
  BY DEF SendResponse
<1>3. view'[c] # view[c] => view'[c][Ch].type \in Inside
  <2>1. CASE HandleResponse(d, Ch)
    <3> SUFFICES ASSUME view'[c] # view[c] PROVE view'[c][Ch].type \in Inside
      OBVIOUS
    <3> DEFINE notices == [e \in ConnsOf(channels[Ch]) |->
                 VerifyPeer(channels[Ch].peers[OtherSlot(channels[Ch], e)])]
    <3>1. Tell(Ch, notices)
      BY <2>1 DEF HandleResponse
    <3>2. \A e \in DOMAIN notices : notices[e].type = "verify_peer"
      BY DEF VerifyPeer
    <3> HIDE DEF notices
    <3>3. view'[c][Ch] # view[c][Ch]
      BY <1>1, OneView
    <3>4. c \in DOMAIN notices /\ view'[c][Ch] = notices[c]
      BY <1>1, <3>1, <3>3, TellView
    <3> QED BY <3>2, <3>4 DEF Inside
  <2>2. CASE UNCHANGED vars
    BY <2>2 DEF vars
  <2> QED BY <2>1, <2>2 DEF SendResponse
<1> QED BY <1>1, <1>2, <1>3, HeardDelivery


\* What a client takes from a queue is lost to it alone.
LEMMA HeadTaken ==
  ASSUME NEW q \in [Conns -> Seq(Frame)], NEW d \in Conns, q[d] # << >>,
         NEW c \in Conns
  PROVE  LET r == [q EXCEPT ![d] = Tail(@)] IN
         /\ r \in [Conns -> Seq(Frame)]
         /\ Len(r[c]) <= Len(q[c])
         /\ HasError(q[c]) => HasError(r[c]) \/ (c = d /\ Head(q[d]).type = "error")
<1>1. /\ Tail(q[d]) \in Seq(Frame) /\ Len(Tail(q[d])) = Len(q[d]) - 1 /\ Len(q[d]) \in Nat
      /\ Len(q[c]) \in Nat
  BY Queue
<1>2. HasError(q[d]) => Head(q[d]).type = "error" \/ HasError(Tail(q[d]))
  BY ErrorsMove
<1> QED BY <1>1, <1>2

\* An answer that was waited for, automatic or debounced.
LEMMA HeardAnswering ==
  ASSUME SInv, IInv', Roomy, NEW c \in Conns, Heard(c), NEW d \in Conns,
         AnswerAgain(d) \/ AutoRespond(d) \/ DebounceOver(d)
  PROVE  Heard(c)'
<1>1. /\ down \in [Conns -> Seq(Frame)] /\ inbox \in [Conns -> Seq(Frame)]
      /\ returned \in [Conns -> Seq(Frame)] /\ phase \in [Conns -> Phases]
      /\ Len(inbox[c]) \in Nat /\ InboxSize \in Nat
  BY InboxAssumption, Queue DEF SInv, ClientTypeOK, Phases
<1>2. Len(inbox[c]) < InboxSize
  BY DEF Roomy
<1>3. ErrorComes(c) <=> HasError(down[c]) \/ HasError(inbox[c]) \/ HasError(returned[c])
  BY ErrorQueues
<1>4. inbox[d] # << >> =>
        /\ Rest(d) \in [Conns -> Seq(Frame)] /\ Len(Rest(d)[c]) < InboxSize
        /\ HasError(inbox[c]) =>
             HasError(Rest(d)[c]) \/ (c = d /\ Head(inbox[d]).type = "error")
  <2> SUFFICES ASSUME inbox[d] # << >>
               PROVE  /\ Rest(d) \in [Conns -> Seq(Frame)] /\ Len(Rest(d)[c]) < InboxSize
                      /\ HasError(inbox[c]) =>
                           HasError(Rest(d)[c]) \/ (c = d /\ Head(inbox[d]).type = "error")
    OBVIOUS
  <2>1. /\ Rest(d) \in [Conns -> Seq(Frame)] /\ Len(Rest(d)[c]) <= Len(inbox[c])
        /\ HasError(inbox[c]) =>
             HasError(Rest(d)[c]) \/ (c = d /\ Head(inbox[d]).type = "error")
    BY <1>1, HeadTaken DEF Rest
  <2>2. Len(Rest(d)[c]) \in Nat
    BY <2>1, Queue
  <2> QED BY <1>1, <1>2, <2>1, <2>2
<1>5. CASE AnswerAgain(d)
  <2>1. /\ SendResponse(d, Head(inbox[d]).nonce, down, Rest(d))
        /\ UNCHANGED <<returned, phase>>
        /\ inbox[d] # << >> /\ Head(inbox[d]).type = "challenge"
    BY <1>5 DEF AnswerAgain, Offers
  <2>2. ErrorComes(c) => HasError(down[c]) \/ HasError(Rest(d)[c]) \/ HasError(returned'[c])
    BY <1>3, <1>4, <2>1
  <2> QED BY <1>1, <1>4, <2>1, <2>2, HeardResponding
<1>6. CASE AutoRespond(d)
  <2>1. /\ SendResponse(d, Head(down[d]).nonce, Unread(d), inbox)
        /\ UNCHANGED <<returned, phase>>
        /\ down[d] # << >> /\ Head(down[d]).type = "challenge"
    BY <1>6 DEF AutoRespond, Reads
  <2>2. /\ Unread(d) \in [Conns -> Seq(Frame)]
        /\ HasError(down[c]) => HasError(Unread(d)[c])
    BY <1>1, <2>1, HeadTaken DEF Unread
  <2>3. ErrorComes(c) => HasError(Unread(d)[c]) \/ HasError(inbox[c]) \/ HasError(returned'[c])
    BY <1>3, <2>1, <2>2
  <2> QED BY <1>1, <1>2, <2>1, <2>2, <2>3, HeardResponding
<1>7. CASE DebounceOver(d)
  <2>0. phase[c] \in {"idle", "failed", "closed"} => phase'[c] = phase[c]
    BY <1>1, <1>7 DEF DebounceOver
  <2>1. CASE SendResponse(d, taken[d].nonce, down, inbox) /\ UNCHANGED returned
    BY <1>1, <1>2, <1>3, <2>0, <2>1, HeardResponding
  <2>2. CASE /\ inbox[d] # << >>
             /\ returned' = [returned EXCEPT ![d] = Append(@, Head(inbox[d]))]
             /\ SendResponse(d, taken[d].nonce, down, Rest(d))
    <3>1. /\ HasError(returned[d]) => HasError(Append(returned[d], Head(inbox[d])))
          /\ Head(inbox[d]).type = "error" => HasError(Append(returned[d], Head(inbox[d])))
      BY <1>1, ErrorsMove
    <3>2. /\ HasError(returned[c]) => HasError(returned'[c])
          /\ c = d /\ Head(inbox[d]).type = "error" => HasError(returned'[c])
      BY <1>1, <2>2, <3>1
    <3>3. ErrorComes(c) => HasError(down[c]) \/ HasError(Rest(d)[c]) \/ HasError(returned'[c])
      BY <1>3, <1>4, <2>2, <3>2
    <3> QED BY <1>1, <1>4, <2>0, <2>2, <3>3, HeardResponding
  <2> QED BY <1>7, <2>1, <2>2 DEF DebounceOver
<1> QED BY <1>5, <1>6, <1>7

\* A wrong answer ends the channel: the other member is sent a verify_rejected,
\* and there is no third one that would hear nothing.
LEMMA HeardRejecting ==
  ASSUME SInv, IInv', Turns, OneAtATime, TwoIds, NEW c \in Conns, Heard(c),
         NEW d \in Conns, Reject(d)
  PROVE  Heard(c)'
<1>1. /\ phase[d] = "verifying" /\ phase' = [phase EXCEPT ![d] = "failed"]
      /\ UNCHANGED <<down, inbox, returned>>
      /\ HandleVerifyRejected(d, Ch) \/ UNCHANGED vars
      /\ phase \in [Conns -> Phases]
  BY DEF Reject, SendVerifyRejected, SInv, ClientTypeOK, Phases
<1>2. CASE c = d
  BY <1>1, <1>2 DEF Heard
<1>3. CASE c # d
  <2>1. view'[c] = view[c]
    <3>1. CASE HandleVerifyRejected(d, Ch)
      <4> DEFINE k == channels[Ch]
                 others == {s \in Members(k) : k.peers[s].conn # d}
                 last == IF 1 \in others THEN 1 ELSE 0
                 notices == [e \in {d} \cup {k.peers[s].conn : s \in others \ {last}} |->
                              Note(IF e = d THEN "out" ELSE "dropped")]
      <4>1. Tell(Ch, notices)
        BY <3>1 DEF HandleVerifyRejected
      <4>2. \A s, t \in others : s = t
        BY <1>1, OneOther
      <4>3. \A s \in others : s \in Slot
        BY DEF Members
      <4>4. others \ {last} = {}
        BY <4>2, <4>3 DEF Slot
      <4>5. c \notin DOMAIN notices
        BY <1>3, <4>4
      <4> HIDE DEF notices
      <4>6. view \in ViewType /\ Ch \in ChIds
        BY ChAssumption DEF SInv, IInv, TypeOK, ViewType
      <4>7. view'[c][Ch] = view[c][Ch]
        BY <4>1, <4>5, <4>6, TellView
      <4> QED BY <4>7, OneView DEF SInv
    <3>2. CASE UNCHANGED vars
      BY <3>2 DEF vars
    <3> QED BY <1>1, <3>1, <3>2
  <2>2. phase'[c] = phase[c]
    BY <1>1, <1>3
  <2>3. ErrorComes(c) => HasError(down'[c]) \/ HasError(inbox'[c]) \/ HasError(returned'[c])
    BY <1>1, ErrorQueues
  <2> QED BY <2>1, <2>2, <2>3, HeardQuietly
<1> QED BY <1>2, <1>3


\* What a client does alone.
Alone(d) ==
  \/ Hangup(d) \/ Close(d) \/ PutBack(d)
  \/ TakeError(d) \/ TakeChallenge(d) \/ TakeVerifyPeer(d) \/ WaitTimeout(d)
  \/ DebounceChallenge(d) \/ Accept(d)
  \/ ReadPeerLeft(d) \/ AutoVerify(d) \/ ReadError(d)

\* It is nothing to the others.
LEMMA HeardOthersAlone ==
  ASSUME SInv, NEW c \in Conns, Heard(c), NEW d \in Conns, Alone(d), c # d
  PROVE  Heard(c)'
<1>1. /\ down \in [Conns -> Seq(Frame)] /\ inbox \in [Conns -> Seq(Frame)]
      /\ returned \in [Conns -> Seq(Frame)] /\ phase \in [Conns -> Phases]
      /\ view \in [Conns -> [ChIds -> Notice]]
  BY DEF SInv, IInv, TypeOK, ClientTypeOK, Phases
<1>2. /\ down'[c] = down[c] /\ inbox'[c] = inbox[c] /\ returned'[c] = returned[c]
      /\ phase'[c] = phase[c]
  BY <1>1
  DEF Alone, Hangup, Close, PutBack, TakeError, TakeChallenge, TakeVerifyPeer,
      WaitTimeout, DebounceChallenge, Accept, ReadPeerLeft, AutoVerify, ReadError,
      Rest, Unread, clientVars
<1>3. view'[c] = view[c]
  BY <1>1
  DEF Alone, Hangup, Close, PutBack, TakeError, TakeChallenge, TakeVerifyPeer,
      WaitTimeout, DebounceChallenge, Accept, ReadPeerLeft, AutoVerify, ReadError,
      CloseConn, vars
<1>4. ErrorComes(c) => HasError(down'[c]) \/ HasError(inbox'[c]) \/ HasError(returned'[c])
  BY <1>2, ErrorQueues
<1> QED BY <1>2, <1>3, <1>4, HeardQuietly

\* An error that a client takes ends its call; until then it keeps it.
LEMMA HeardAlone ==
  ASSUME SInv, Roomy, NEW c \in Conns, Heard(c), Alone(c)
  PROVE  Heard(c)'
<1>1. /\ down \in [Conns -> Seq(Frame)] /\ inbox \in [Conns -> Seq(Frame)]
      /\ returned \in [Conns -> Seq(Frame)] /\ phase \in [Conns -> Phases]
  BY DEF SInv, ClientTypeOK, Phases
<1>2. ErrorComes(c) <=> HasError(down[c]) \/ HasError(inbox[c]) \/ HasError(returned[c])
  BY ErrorQueues
<1>3. CASE Hangup(c) \/ Close(c) \/ TakeError(c) \/ WaitTimeout(c)
  <2>1. phase'[c] \in {"failed", "closed"}
    BY <1>1, <1>3 DEF Hangup, Close, TakeError, WaitTimeout, clientVars
  <2> QED BY <2>1 DEF Heard
<1>4. CASE TakeChallenge(c) \/ TakeVerifyPeer(c) \/ DebounceChallenge(c)
  <2>1. /\ inbox[c] # << >> /\ Head(inbox[c]).type # "error" /\ inbox' = Rest(c)
        /\ UNCHANGED <<vars, down, returned>> /\ phase[c] \in Calling
    BY <1>4 DEF TakeChallenge, TakeVerifyPeer, DebounceChallenge, Offers, Calling, Waiting
  <2>2. HasError(inbox[c]) => HasError(inbox'[c])
    BY <1>1, <2>1, HeadTaken DEF Rest
  <2>3. view' = view /\ phase[c] \notin {"idle", "failed", "closed"}
    BY <2>1 DEF vars, Calling, Waiting
  <2> QED BY <1>2, <2>1, <2>2, <2>3, HeardQuietly
<1>5. CASE PutBack(c)
  <2>1. PICK i \in DOMAIN returned[c] :
          /\ inbox' = [inbox EXCEPT ![c] = Append(@, returned[c][i])]
          /\ returned' = [returned EXCEPT ![c] = RemoveAt(@, i)]
    BY <1>5 DEF PutBack
  <2>2. /\ inbox'[c] = Append(inbox[c], returned[c][i])
        /\ returned'[c] = RemoveAt(returned[c], i)
        /\ down' = down /\ phase' = phase /\ view' = view
    BY <1>1, <1>5, <2>1 DEF PutBack, vars
  <2>3. HasError(returned[c]) => HasError(inbox'[c]) \/ HasError(returned'[c])
    BY <1>1, <2>2, ErrorsMove
  <2>4. HasError(inbox[c]) => HasError(inbox'[c])
    BY <1>1, <2>2, ErrorsMove
  <2> QED BY <1>2, <2>2, <2>3, <2>4, HeardQuietly
<1>6. CASE Accept(c)
  <2>1. UNCHANGED <<vars, down, inbox, returned>> /\ phase[c] = "verifying"
    BY <1>6 DEF Accept
  <2> QED BY <1>2, <2>1, HeardQuietly DEF vars
<1>7. CASE ReadPeerLeft(c) \/ AutoVerify(c)
  <2>1. /\ down[c] # << >> /\ Head(down[c]).type # "error" /\ down' = Unread(c)
        /\ UNCHANGED <<vars, inbox, returned, phase>>
    BY <1>7 DEF ReadPeerLeft, AutoVerify, Reads
  <2>2. HasError(down[c]) => HasError(down'[c])
    BY <1>1, <2>1, HeadTaken DEF Unread
  <2> QED BY <1>2, <2>1, <2>2, HeardQuietly DEF vars
<1>8. CASE ReadError(c)
  <2>1. /\ Head(down[c]).type = "error"
        /\ inbox'[c] = Append(inbox[c], Head(down[c]))
    BY <1>1, <1>8 DEF ReadError, Reads, Roomy
  <2>2. HasError(inbox'[c])
    BY <1>1, <2>1, ErrorsMove
  <2>3. UNCHANGED <<vars, returned, phase>>
    BY <1>8 DEF ReadError
  <2> QED BY <2>2, <2>3, HeardQuietly DEF vars
<1> QED BY <1>3, <1>4, <1>5, <1>6, <1>7, <1>8 DEF Alone

\* No step leaves a client believing in silence.
LEMMA HeardKept ==
  ASSUME SInv, IInv', Turns, Roomy, OneAtATime, TwoIds, [SNext]_sessionVars,
         NEW c \in Conns, Heard(c)
  PROVE  Heard(c)'
<1>1. ASSUME NEW d \in Conns, Hangup(d) \/ Close(d) \/ PutBack(d) \/ Call(d) \/ ReadLoop(d)
      PROVE  Heard(c)'
  <2>1. CASE Alone(d)
    BY <2>1, HeardOthersAlone, HeardAlone
  <2>2. CASE ~Alone(d)
    <3>1. AnswerAgain(d) \/ AutoRespond(d) \/ DebounceOver(d) \/ Reject(d)
      BY <1>1, <2>2 DEF Alone, Call, ReadLoop
    <3> QED BY <3>1, HeardAnswering, HeardRejecting
  <2> QED BY <2>1, <2>2
<1>2. ASSUME NEW d \in Conns, Join(d) PROVE Heard(c)'
  BY <1>2, HeardJoining
<1>3. CASE Notify
  BY <1>3, HeardNotify
<1>4. CASE UNCHANGED sessionVars
  BY <1>4 DEF sessionVars, clientVars, vars, Heard, ErrorComes
<1> QED BY <1>1, <1>2, <1>3, <1>4 DEF SNext

\* Nobody has called.
LEMMA BelieverInit == SInit => BelieverInv
<1> SUFFICES ASSUME SInit PROVE Turns /\ \A c \in Conns : Fresh(c) /\ Heard(c)
  BY SessionInit DEF BelieverInv
<1>1. /\ \A c \in Conns : phase[c] = "idle" /\ known[c] = "none" /\ down[c] = << >>
      /\ channels[Ch] = NoChannel
  BY ChAssumption DEF SInit
<1>2. ConnsOf(NoChannel) = {}
  BY DEF ConnsOf, Members, NoChannel, NoPeers, NoPeer
<1> QED BY <1>1, <1>2 DEF Turns, Fresh, Heard

\* BelieverInv is kept while the inboxes have room.
LEMMA BelieverStep ==
  ASSUME OneAtATime, TwoIds
  PROVE  BelieverInv /\ Roomy /\ [SNext]_sessionVars => BelieverInv'
<1> SUFFICES ASSUME BelieverInv, Roomy, [SNext]_sessionVars PROVE BelieverInv'
  OBVIOUS
<1>1. SInv /\ SInv' /\ IInv'
  BY SessionKeeps DEF BelieverInv, SInv
<1>2. Turns'
  BY <1>1, TurnsKept DEF BelieverInv
<1>3. (\A c \in Conns : Fresh(c))'
  BY <1>1, FreshKept DEF BelieverInv
<1>4. (\A c \in Conns : Heard(c))'
  BY <1>1, HeardKept DEF BelieverInv
<1> QED BY <1>1, <1>2, <1>3, <1>4 DEF BelieverInv


\* The server's invariants hold with the Go client in the loop, which sends what
\* the server sees as messages and ends of connections.
THEOREM SessionServes ==
  ASSUME ~RandMayFail PROVE SSpec => []VInv
<1>1. SInit => VInv
  <2> SUFFICES ASSUME SInit PROVE VInv
    OBVIOUS
  <2>1. IInv
    BY SessionInit DEF SInv
  <2>2. /\ channels = [ch \in ChIds |-> NoChannel]
        /\ view = [c \in Conns |-> [ch \in ChIds |-> Note("out")]]
        /\ handler = [c \in Conns |-> At("reading")]
        /\ relayed = NoRelay
    BY DEF SInit
  <2>3. \A x \in ChIds : HeardAt(x) /\ GuardedAt(x)
    BY <2>2
    DEF HeardAt, CurrentAt, VerifiedAt, Members, NoChannel, NoPeers, NoPeer,
        GuardedAt, TimedAt, EmptyAt, Mapped
  <2>4. ToldInv
    BY <2>2, Types DEF ToldInv, ToldAt, AwayAt
  <2> QED BY <2>1, <2>2, <2>3, <2>4 DEF VInv, RelayReachesVerified
<1>2. VInv /\ [SNext]_sessionVars => VInv'
  BY SessionStep, ViewsStep
<1> QED BY <1>1, <1>2, PTL DEF SSpec

\* A client that takes the channel for active is counted in or told, unless it
\* has seen a later call fail.
EvictionsSaid ==
  \A c \in Conns : known[c] = "active" => CountedInOrTold(c) \/ phase[c] = "failed"

\* A client that takes its channel for active and that the server has dropped
\* is told: whoever replaced it, whichever timer or rejection evicted it, and
\* whether readLoop or the caller meets the error first.  However often the
\* clients call.
THEOREM SessionEvictionsSaid ==
  ASSUME ~RandMayFail, OneAtATime, TwoIds
  PROVE  SSpec /\ []Roomy => []EvictionsSaid
<1>1. SSpec /\ []Roomy => []BelieverInv
  BY BelieverInit, BelieverStep, PTL DEF SSpec
<1>2. VInv /\ BelieverInv => EvictionsSaid
  <2> SUFFICES ASSUME VInv, BelieverInv, NEW c \in Conns, known[c] = "active",
                      phase[c] # "failed"
               PROVE  CountedInOrTold(c)
    BY DEF EvictionsSaid
  <2>1. phase[c] \notin {"idle", "closed"} /\ Open(c)
    BY DEF BelieverInv, Fresh, SInv, ClientOK
  <2>2. CASE ErrorComes(c)
    BY <2>2 DEF ErrorComes, Pending, CountedInOrTold
  <2>3. CASE view[c][Ch].type \in Inside
    BY <2>1, <2>3, ChAssumption DEF VInv, ToldInv, ToldAt, Rejecting, CountedInOrTold
  <2> QED BY <2>1, <2>2, <2>3 DEF BelieverInv, Heard
<1> QED BY <1>1, <1>2, SessionServes, PTL


\* What the server does in Session is what it does in RelayChannels: the clients
\* there may send anything at any time, so whatever these send is covered.
THEOREM SessionImplementsServer == SSpec => [][Next]_vars
BY SessionStep, PTL DEF SSpec

-----------------------------------------------------------------------------
(* Clients and server once nothing is under way                             *)

\* Each client makes one call.
OneCall == \A c \in Conns : MaxJoins[c] <= 1

\* No call begins but first ones.
OnlyFirstCalls == \A d \in Conns : Join(d) => phase[d] = "idle"

\* A client has registered the channel exactly when its call has succeeded,
\* and readLoop keeps frames from the caller only after that.
Registered(c) ==
  /\ known[c] # "none" <=> phase[c] = "done"
  /\ known[c] = "none" => down[c] = << >>

\* A step in which nothing is registered and no call ends.
LEMMA RegisteredSame ==
  ASSUME NEW c \in Conns, Registered(c), known'[c] = known[c],
         phase'[c] = phase[c] \/ (phase[c] # "done" /\ phase'[c] # "done"),
         known[c] = "none" => down'[c] = down[c]
  PROVE  Registered(c)'
BY DEF Registered

LEMMA RegisteredKept ==
  ASSUME SInv, OnlyFirstCalls, NEW c \in Conns, Registered(c), [SNext]_sessionVars
  PROVE  Registered(c)'
<1>1. /\ down \in [Conns -> Seq(Frame)] /\ phase \in [Conns -> Phases]
      /\ known \in [Conns -> {"none", "inactive", "active"}]
  BY DEF SInv, ClientTypeOK, Phases
<1>2. \A told, queue, box : Deliver(told, queue, box) /\ known[c] = "none" => down'[c] = queue[c]
  BY DEF Deliver
<1>3. CASE Notify
  BY <1>2, <1>3, RegisteredSame DEF Notify
<1>4. CASE UNCHANGED sessionVars
  BY <1>4, RegisteredSame DEF sessionVars, clientVars
<1>5. ASSUME NEW d \in Conns, Hangup(d) \/ PutBack(d) PROVE Registered(c)'
  BY <1>5, RegisteredSame DEF Hangup, PutBack, clientVars
<1>6. ASSUME NEW d \in Conns, Join(d) PROVE Registered(c)'
  <2>1. /\ phase'[c] = phase[c] \/ (phase[c] # "done" /\ phase'[c] # "done")
        /\ known' = known
    BY <1>1, <1>6 DEF Join, OnlyFirstCalls
  <2>2. known[c] = "none" => ReplacedQueue(d)[c] = down[c]
    BY <1>6, ReplacedIs
  <2>3. known[c] = "none" => down'[c] = down[c]
    BY <1>2, <1>6, <2>2 DEF Join, SendJoin
  <2> QED BY <2>1, <2>3, RegisteredSame
<1>7. ASSUME NEW d \in Conns, Close(d) PROVE Registered(c)'
  BY <1>1, <1>7 DEF Close, Registered
<1>8. ASSUME NEW d \in Conns, ReadLoop(d) PROVE Registered(c)'
  <2>1. phase' = phase /\ (known'[c] = known[c] \/ (c = d /\ known'[c] # "none"))
    BY <1>1, <1>8 DEF ReadLoop, ReadPeerLeft, AutoRespond, AutoVerify, ReadError
  <2>2. down[d] # << >>
    BY <1>8 DEF ReadLoop, ReadPeerLeft, AutoRespond, AutoVerify, ReadError, Reads
  <2>3. CASE c = d
    BY <2>1, <2>2, <2>3 DEF Registered
  <2>4. CASE c # d
    <3>1. Unread(d)[c] = down[c]
      BY <1>1, <2>4 DEF Unread
    <3>2. known[c] = "none" => down'[c] = down[c]
      BY <1>2, <1>8, <3>1
      DEF ReadLoop, ReadPeerLeft, AutoRespond, SendResponse, AutoVerify, ReadError
    <3> QED BY <2>1, <2>4, <3>2, RegisteredSame
  <2> QED BY <2>3, <2>4
<1>9. ASSUME NEW d \in Conns, Call(d) PROVE Registered(c)'
  <2>1. CASE Accept(d)
    BY <1>1, <2>1 DEF Accept, Registered
  <2>2. CASE ~Accept(d)
    <3>1. known' = known
      BY <1>9, <2>2
      DEF Call, TakeError, TakeChallenge, AnswerAgain, TakeVerifyPeer, WaitTimeout,
          DebounceChallenge, DebounceOver, Reject
    <3>2. phase'[c] = phase[c] \/ (phase[c] # "done" /\ phase'[c] # "done")
      BY <1>1, <1>9, <2>2
      DEF Call, TakeError, TakeChallenge, AnswerAgain, TakeVerifyPeer, WaitTimeout,
          DebounceChallenge, DebounceOver, Reject, Offers, Waiting
    <3>3. known[c] = "none" => down'[c] = down[c]
      BY <1>2, <1>9, <2>2
      DEF Call, TakeError, TakeChallenge, AnswerAgain, TakeVerifyPeer, WaitTimeout,
          DebounceChallenge, DebounceOver, Reject, SendResponse, SendVerifyRejected
    <3> QED BY <3>1, <3>2, <3>3, RegisteredSame
  <2> QED BY <2>1, <2>2
<1> QED BY <1>3, <1>4, <1>5, <1>6, <1>7, <1>8, <1>9 DEF SNext

\* Half of QuietAgreement: who takes the channel for active is a member, and
\* every member has registered the channel, be it as active or not.
QuietMembership ==
  Quiet /\ NothingMissed =>
    \A c \in Conns : phase[c] # "closed" =>
      /\ known[c] = "active" => c \in ConnsOf(channels[Ch])
      /\ c \in ConnsOf(channels[Ch]) => known[c] # "none"

\* A client whose call has succeeded has registered the channel.
Knows(c) == phase[c] = "done" => known[c] # "none"

LEMMA KnowsKept ==
  ASSUME SInv, NEW c \in Conns, Knows(c), [SNext]_sessionVars
  PROVE  Knows(c)'
<1>1. /\ phase \in [Conns -> Phases]
      /\ known \in [Conns -> {"none", "inactive", "active"}]
  BY DEF SInv, ClientTypeOK, Phases
<1>2. CASE Notify \/ UNCHANGED sessionVars
  BY <1>2 DEF Notify, sessionVars, clientVars, Knows
<1>3. ASSUME NEW d \in Conns, Hangup(d) \/ Join(d) \/ Close(d) \/ PutBack(d) \/ ReadLoop(d)
      PROVE  Knows(c)'
  BY <1>1, <1>3
  DEF Hangup, Join, Close, PutBack, ReadLoop, ReadPeerLeft, AutoRespond, AutoVerify,
      ReadError, clientVars, Knows
<1>4. ASSUME NEW d \in Conns, Call(d) PROVE Knows(c)'
  BY <1>1, <1>4
  DEF Call, TakeError, TakeChallenge, AnswerAgain, TakeVerifyPeer, WaitTimeout,
      DebounceChallenge, DebounceOver, Accept, Reject, Knows
<1> QED BY <1>2, <1>3, <1>4 DEF SNext

\* Once nothing is under way and nothing was missed, a client that believes in
\* its channel is in it, and none is in one that it does not know of.  However
\* often the clients call.
THEOREM SessionQuietMembership ==
  ASSUME ~RandMayFail, OneAtATime, TwoIds
  PROVE  SSpec /\ []Roomy => []QuietMembership
<1> DEFINE Reg == \A c \in Conns : Knows(c)
<1>1. SInit => Reg
  BY DEF SInit, Knows
<1>2. SInv /\ Reg /\ [SNext]_sessionVars => Reg'
  BY KnowsKept
<1>3. SSpec /\ []Roomy => []BelieverInv
  BY BelieverInit, BelieverStep, PTL DEF SSpec
<1>4. VInv /\ SInv /\ BelieverInv /\ Reg => QuietMembership
  <2> SUFFICES ASSUME VInv, SInv, BelieverInv, Reg, Quiet, NothingMissed,
                      NEW c \in Conns, phase[c] # "closed"
               PROVE  /\ known[c] = "active" => c \in ConnsOf(channels[Ch])
                      /\ c \in ConnsOf(channels[Ch]) => known[c] # "none"
    BY DEF QuietMembership
  <2>1. /\ phase[c] \notin Calling /\ phase[c] # "failed"
        /\ down[c] = << >> /\ inbox[c] = << >> /\ returned[c] = << >>
    BY DEF Quiet, NothingMissed
  <2>5. /\ \A d \in Conns : handler[d].at \in {"reading", "closed"}
        /\ handler[c].at = "reading"
    <3>1. \A d \in Conns : handler[d] = At(IF phase[d] = "closed" THEN "closed" ELSE "reading")
      BY DEF Quiet
    <3>2. \A w \in {"closed", "reading"} : At(w).at = w
      BY DEF At
    <3>3. \A d \in Conns : handler[d].at = IF phase[d] = "closed" THEN "closed" ELSE "reading"
      BY <3>1, <3>2
    <3> QED BY <3>3
  <2>2. ~ErrorComes(c)
    BY <2>1 DEF ErrorComes, Range
  <2>3. ASSUME known[c] = "active" PROVE c \in ConnsOf(channels[Ch])
    <3>1. phase[c] # "idle" /\ view[c][Ch].type \in Inside
      BY <2>1, <2>2, <2>3 DEF BelieverInv, Fresh, Heard
    <3>2. Open(c) /\ Reading(c)
      BY <2>5 DEF Open, Reading
    <3>3. ~Rejecting(c, Ch)
      BY <2>5 DEF Rejecting
    <3>4. Ch \in connChannels[c]
      BY <3>1, <3>2, <3>3, ChAssumption DEF VInv, ToldInv, ToldAt
    <3> QED BY <3>2, <3>4 DEF NothingMissed, NoOrphans
  <2>4. ASSUME c \in ConnsOf(channels[Ch]) PROVE known[c] # "none"
    <3>1. phase[c] # "idle"
      BY <2>4 DEF BelieverInv, Turns
    <3>2. phase[c] = "done"
      BY <2>1, <3>1 DEF SInv, ClientTypeOK
    <3> QED BY <3>2 DEF Knows
  <2> QED BY <2>3, <2>4
<1> HIDE DEF Reg
<1> QED BY <1>1, <1>2, <1>3, <1>4, SessionInductive, SessionServes, PTL DEF SSpec

-----------------------------------------------------------------------------
(* A member that has lost its peer learns of the next one                   *)

\* All that e has been sent and has not dealt with is in S.
Holds(e, S) ==
  down[e] \in Seq(S) /\ inbox[e] \in Seq(S) /\ returned[e] \in Seq(S) /\ taken[e] \in S

\* The frames of which the challenges are those with nonce n, and those that are
\* no challenges.
Only(n) == {msg \in Frame : msg.type = "challenge" => msg.nonce = n}
Unchallenging == {msg \in Frame : msg.type # "challenge"}

\* All challenges that e may still answer, and the answer it has given, are those
\* of m, which is e's place in the channel.
Latest(e, m) == Holds(e, Only(m.nonce)) /\ (m.answered => mac[e] = m.nonce)

\* A client that has never called holds no challenge.
Uncalled(e) == joins[e] = 0 => phase[e] = "idle" /\ Holds(e, Unchallenging)

\* debounceChallenge holds a challenge.
Debounced(e) == phase[e] = "debouncing" => taken[e].type = "challenge"

\* q tells of a peer that has left; q shows c an answer that verifies, and tells
\* of nobody who has left since.
Left(q) == \E i \in DOMAIN q : q[i].type = "peer_left"
GoodNews(q, c) ==
  \E i \in DOMAIN q :
    /\ q[i].type = "verify_peer" /\ Verifies(c, q[i])
    /\ \A j \in DOMAIN q : j > i => q[j].type # "peer_left"

\* c has registered the channel and has lost its peer, or is about to.
Bereft(c) == known[c] = "inactive" \/ (known[c] # "none" /\ Left(down[c]))

\* Such a member of a full channel is going to hear of its new peer: the answer
\* is on its way, or the peer will give the right one, as it has no other
\* challenge left to answer.
Consoled(c) ==
  LET k == channels[Ch] IN
  c \in ConnsOf(k) /\ Bereft(c) =>
    /\ k.state = "CHALLENGING" =>
         \A s \in Slot : k.peers[s].conn # c => Latest(k.peers[s].conn, k.peers[s])
    /\ k.state = "ACTIVE" => GoodNews(down[c], c)

\* What is put at the end of such a queue, or taken from its head.
LEMMA NewsQueue ==
  ASSUME NEW S, NEW q \in Seq(S), NEW c
  PROVE  /\ \A f \in S : Left(Append(q, f)) => Left(q) \/ f.type = "peer_left"
         /\ \A f \in S : f.type = "verify_peer" /\ Verifies(c, f)
              => GoodNews(Append(q, f), c)
         /\ \A f \in S : f.type # "peer_left" /\ GoodNews(q, c)
              => GoodNews(Append(q, f), c)
         /\ q # << >> => /\ Left(q) <=> Head(q).type = "peer_left" \/ Left(Tail(q))
                         /\ GoodNews(q, c) => \/ GoodNews(Tail(q), c)
                                              \/ /\ Head(q).type = "verify_peer"
                                                 /\ Verifies(c, Head(q))
                                                 /\ ~Left(Tail(q))
<1>1. DOMAIN q = 1 .. Len(q) /\ Len(q) \in Nat
  BY LenProperties
<1>2. ASSUME NEW f \in S
      PROVE  /\ Left(Append(q, f)) => Left(q) \/ f.type = "peer_left"
             /\ f.type = "verify_peer" /\ Verifies(c, f) => GoodNews(Append(q, f), c)
             /\ f.type # "peer_left" /\ GoodNews(q, c) => GoodNews(Append(q, f), c)
  <2> DEFINE r == Append(q, f)
  <2>1. /\ DOMAIN r = 1 .. Len(q) + 1 /\ r[Len(q) + 1] = f
        /\ \A i \in 1 .. Len(q) : r[i] = q[i]
    BY <1>1, AppendProperties, LenProperties
  <2> HIDE DEF r
  <2>2. \A i \in DOMAIN r : i = Len(q) + 1 \/ (i \in DOMAIN q /\ r[i] = q[i] /\ i < Len(q) + 1)
    BY <1>1, <2>1
  <2>3. Left(r) => Left(q) \/ f.type = "peer_left"
    BY <2>1, <2>2 DEF Left
  <2>4. ASSUME f.type = "verify_peer", Verifies(c, f) PROVE GoodNews(r, c)
    <3>1. Len(q) + 1 \in DOMAIN r /\ \A j \in DOMAIN r : ~(j > Len(q) + 1)
      BY <1>1, <2>1
    <3> QED BY <2>1, <2>4, <3>1 DEF GoodNews
  <2>5. ASSUME f.type # "peer_left", GoodNews(q, c) PROVE GoodNews(r, c)
    <3>1. PICK i \in DOMAIN q :
            /\ q[i].type = "verify_peer" /\ Verifies(c, q[i])
            /\ \A j \in DOMAIN q : j > i => q[j].type # "peer_left"
      BY <2>5 DEF GoodNews
    <3>2. i \in DOMAIN r /\ r[i] = q[i]
      BY <1>1, <2>1
    <3>3. \A j \in DOMAIN r : j > i => r[j].type # "peer_left"
      BY <2>1, <2>2, <2>5, <3>1
    <3> QED BY <3>1, <3>2, <3>3 DEF GoodNews
  <2> QED BY <2>3, <2>4, <2>5 DEF r
<1>3. ASSUME q # << >>
      PROVE  /\ Left(q) <=> Head(q).type = "peer_left" \/ Left(Tail(q))
             /\ GoodNews(q, c) => \/ GoodNews(Tail(q), c)
                                  \/ /\ Head(q).type = "verify_peer"
                                     /\ Verifies(c, Head(q))
                                     /\ ~Left(Tail(q))
  <2> DEFINE r == Tail(q)
  <2>1. /\ Len(q) > 0 /\ Head(q) = q[1] /\ DOMAIN r = 1 .. Len(q) - 1
        /\ \A i \in 1 .. Len(q) - 1 : r[i] = q[i + 1]
    BY <1>1, <1>3, HeadTailProperties, LenProperties, EmptySeq
  <2> HIDE DEF r
  <2>2. \A i \in DOMAIN q : i = 1 \/ (i - 1 \in DOMAIN r /\ q[i] = r[i - 1])
    BY <1>1, <2>1
  <2>3. 1 \in DOMAIN q /\ \A i \in DOMAIN r : i + 1 \in DOMAIN q /\ r[i] = q[i + 1]
    BY <1>1, <2>1
  <2>4. Left(q) => q[1].type = "peer_left" \/ Left(r)
    BY <2>2 DEF Left
  <2>5. q[1].type = "peer_left" \/ Left(r) => Left(q)
    BY <2>3 DEF Left
  <2>6. ASSUME GoodNews(q, c)
        PROVE  \/ GoodNews(r, c)
               \/ q[1].type = "verify_peer" /\ Verifies(c, q[1]) /\ ~Left(r)
    <3>1. PICK i \in DOMAIN q :
            /\ q[i].type = "verify_peer" /\ Verifies(c, q[i])
            /\ \A j \in DOMAIN q : j > i => q[j].type # "peer_left"
      BY <2>6 DEF GoodNews
    <3>2. \A j \in DOMAIN r : j \in Nat /\ j > 0 /\ j + 1 \in Nat
      BY <1>1, <2>1
    <3>3. CASE i = 1
      <4>1. \A j \in DOMAIN r : r[j].type # "peer_left"
        BY <2>3, <3>1, <3>2, <3>3
      <4> QED BY <3>1, <3>3, <4>1 DEF Left
    <3>4. CASE i # 1
      <4>1. i - 1 \in DOMAIN r /\ r[i - 1] = q[i] /\ i \in Nat
        BY <1>1, <2>2, <3>4
      <4>2. \A j \in DOMAIN r : j > i - 1 => r[j].type # "peer_left"
        BY <2>3, <3>1, <3>2, <4>1, SMTT(30)
      <4> QED BY <3>1, <4>1, <4>2 DEF GoodNews
    <3> QED BY <3>3, <3>4
  <2> QED BY <2>1, <2>4, <2>5, <2>6 DEF r
<1> QED BY <1>2, <1>3

\* What e holds after a delivery.
LEMMA HoldsDelivery ==
  ASSUME NEW e \in Conns, NEW S, NEW told, NEW queue, NEW box,
         Deliver(told, queue, box), queue[e] \in Seq(S), box[e] \in Seq(S),
         FrameTo(e) \in S \/ (phase[e] = "closed" /\ known[e] = "none")
  PROVE  down'[e] \in Seq(S) /\ inbox'[e] \in Seq(S)
<1>1. /\ down'[e] = IF e \in told /\ known[e] # "none"
                    THEN Append(queue[e], FrameTo(e)) ELSE queue[e]
      /\ inbox'[e] = IF /\ e \in told /\ known[e] = "none" /\ phase[e] # "closed"
                        /\ FrameTo(e).type # "peer_left" /\ Len(box[e]) < InboxSize
                     THEN Append(box[e], FrameTo(e)) ELSE box[e]
  BY DEF Deliver
<1>2. FrameTo(e) \in S =>
        Append(queue[e], FrameTo(e)) \in Seq(S) /\ Append(box[e], FrameTo(e)) \in Seq(S)
  BY Queue
<1> QED BY <1>1, <1>2

\* What e holds after any step: frames that it held, and the one it is sent.
LEMMA HoldsStep ==
  ASSUME SInv, [SNext]_sessionVars, NEW e \in Conns, NEW S, NoFrame \in S,
         Plain("error") \in S, FrameTo(e) \in S \/ phase[e] = "closed", Holds(e, S)
  PROVE  Holds(e, S)'
<1>1. /\ down \in [Conns -> Seq(Frame)] /\ inbox \in [Conns -> Seq(Frame)]
      /\ returned \in [Conns -> Seq(Frame)] /\ taken \in [Conns -> Frame]
  BY DEF SInv, ClientTypeOK
<1>2. FrameTo(e) \in S \/ (phase[e] = "closed" /\ known[e] = "none")
  BY DEF SInv, ClientOK
<1>3. /\ down[e] \in Seq(S) /\ inbox[e] \in Seq(S) /\ returned[e] \in Seq(S)
      /\ taken[e] \in S /\ << >> \in Seq(S)
  BY DEF Holds
<1>4. /\ down[e] # << >> => Head(down[e]) \in S /\ Tail(down[e]) \in Seq(S)
      /\ inbox[e] # << >> => Head(inbox[e]) \in S /\ Tail(inbox[e]) \in Seq(S)
  BY <1>3, Queue
<1>5. ASSUME NEW d \in Conns
      PROVE  /\ inbox[d] # << >> => Rest(d)[e] \in Seq(S)
             /\ down[d] # << >> => Unread(d)[e] \in Seq(S)
  BY <1>1, <1>3, <1>4 DEF Rest, Unread
<1>6. CASE Notify
  <2>1. down'[e] \in Seq(S) /\ inbox'[e] \in Seq(S)
    BY <1>2, <1>3, <1>6, HoldsDelivery DEF Notify
  <2> QED BY <1>3, <1>6, <2>1 DEF Notify, Holds
<1>7. CASE UNCHANGED sessionVars
  BY <1>3, <1>7 DEF sessionVars, clientVars, Holds
<1>8. ASSUME NEW d \in Conns, NEW n, NEW queue, NEW box, SendResponse(d, n, queue, box),
             queue[e] \in Seq(S), box[e] \in Seq(S)
      PROVE  down'[e] \in Seq(S) /\ inbox'[e] \in Seq(S)
  BY <1>2, <1>8, HoldsDelivery DEF SendResponse
<1>9. ASSUME NEW d \in Conns, Hangup(d) \/ Join(d) \/ Close(d) \/ PutBack(d)
      PROVE  Holds(e, S)'
  <2>1. CASE Hangup(d)
    BY <1>3, <2>1 DEF Hangup, clientVars, Holds
  <2>2. CASE Join(d)
    <3>0. ReplacedQueue(d)[e] \in Seq(S) /\ ReplacedBox(d)[e] \in Seq(S)
      <4>1. /\ ReplacedQueue(d)[e] \in {down[e], Append(down[e], Plain("error"))}
            /\ ReplacedBox(d)[e] \in {inbox[e], Append(inbox[e], Plain("error"))}
        BY ReplacedIs
      <4>2. /\ Append(down[e], Plain("error")) \in Seq(S)
            /\ Append(inbox[e], Plain("error")) \in Seq(S)
        BY <1>3, Queue
      <4> QED BY <1>3, <4>1, <4>2
    <3>1. down'[e] \in Seq(S) /\ inbox'[e] \in Seq(S)
      BY <1>2, <1>3, <2>2, <3>0, HoldsDelivery DEF Join, SendJoin
    <3> QED BY <1>3, <2>2, <3>1 DEF Join, Holds
  <2>3. CASE Close(d)
    BY <1>1, <1>3, <2>3 DEF Close, Holds
  <2>4. CASE PutBack(d)
    <3>1. PICK i \in DOMAIN returned[d] :
            /\ inbox' = [inbox EXCEPT ![d] = Append(@, returned[d][i])]
            /\ returned' = [returned EXCEPT ![d] = RemoveAt(@, i)]
      BY <2>4 DEF PutBack
    <3>2. d = e => /\ returned[e][i] \in S /\ RemoveAt(returned[e], i) \in Seq(S)
                   /\ Append(inbox[e], returned[e][i]) \in Seq(S)
      BY <1>3, Queue
    <3> QED BY <1>1, <1>3, <2>4, <3>1, <3>2 DEF PutBack, Holds
  <2> QED BY <1>9, <2>1, <2>2, <2>3, <2>4
<1>10. ASSUME NEW d \in Conns, ReadLoop(d) PROVE Holds(e, S)'
  <2>1. CASE ReadPeerLeft(d) \/ AutoVerify(d)
    BY <1>3, <1>5, <2>1 DEF ReadPeerLeft, AutoVerify, Reads, Holds
  <2>2. CASE AutoRespond(d)
    <3>1. down'[e] \in Seq(S) /\ inbox'[e] \in Seq(S)
      BY <1>3, <1>5, <1>8, <2>2 DEF AutoRespond, Reads
    <3> QED BY <1>3, <2>2, <3>1 DEF AutoRespond, Holds
  <2>3. CASE ReadError(d)
    <3>1. d = e => Append(inbox[e], Head(down[e])) \in Seq(S)
      BY <1>3, <1>4, <2>3, Queue DEF ReadError, Reads
    <3> QED BY <1>1, <1>3, <1>5, <2>3, <3>1 DEF ReadError, Reads, Holds
  <2> QED BY <1>10, <2>1, <2>2, <2>3 DEF ReadLoop
<1>11. ASSUME NEW d \in Conns, Call(d) PROVE Holds(e, S)'
  <2>1. CASE TakeError(d) \/ WaitTimeout(d)
    BY <1>3, <1>5, <2>1 DEF TakeError, WaitTimeout, Offers, Holds
  <2>2. CASE TakeChallenge(d) \/ TakeVerifyPeer(d) \/ DebounceChallenge(d)
    <3>1. /\ inbox[d] # << >> /\ inbox' = Rest(d) /\ UNCHANGED <<down, returned>>
          /\ taken' = [taken EXCEPT ![d] = Head(inbox[d])]
      BY <2>2 DEF TakeChallenge, TakeVerifyPeer, DebounceChallenge, Offers
    <3>2. taken'[e] \in S
      BY <1>1, <1>3, <1>4, <3>1
    <3> QED BY <1>3, <1>5, <3>1, <3>2 DEF Holds
  <2>3. CASE AnswerAgain(d)
    <3>1. down'[e] \in Seq(S) /\ inbox'[e] \in Seq(S)
      BY <1>3, <1>5, <1>8, <2>3 DEF AnswerAgain, Offers
    <3> QED BY <1>3, <2>3, <3>1 DEF AnswerAgain, Holds
  <2>4. CASE DebounceOver(d)
    <3>1. taken'[e] \in S
      BY <1>1, <1>3, <2>4 DEF DebounceOver
    <3>2. CASE SendResponse(d, taken[d].nonce, down, inbox) /\ UNCHANGED returned
      BY <1>3, <1>8, <3>1, <3>2 DEF Holds
    <3>3. CASE /\ inbox[d] # << >>
               /\ returned' = [returned EXCEPT ![d] = Append(@, Head(inbox[d]))]
               /\ SendResponse(d, taken[d].nonce, down, Rest(d))
      <4>1. down'[e] \in Seq(S) /\ inbox'[e] \in Seq(S)
        BY <1>3, <1>5, <1>8, <3>3
      <4>2. d = e => Append(returned[e], Head(inbox[e])) \in Seq(S)
        BY <1>3, <1>4, <3>3, Queue
      <4>3. returned'[e] \in Seq(S)
        BY <1>1, <1>3, <3>3, <4>2
      <4> QED BY <3>1, <4>1, <4>3 DEF Holds
    <3> QED BY <2>4, <3>2, <3>3 DEF DebounceOver
  <2>5. CASE Accept(d) \/ Reject(d)
    BY <1>1, <1>3, <2>5 DEF Accept, Reject, SendVerifyRejected, Holds
  <2> QED BY <1>11, <2>1, <2>2, <2>3, <2>4, <2>5 DEF Call
<1> QED BY <1>6, <1>7, <1>9, <1>10, <1>11 DEF SNext

\* What is in two queues' types is in that of what these share.
LEMMA SeqMeet ==
  ASSUME NEW S, NEW T, NEW U, S \cap T \subseteq U, NEW q \in Seq(S), q \in Seq(T)
  PROVE  q \in Seq(U)
<1>1. q \in [1 .. Len(q) -> S] /\ Len(q) \in Nat /\ q \in [1 .. Len(q) -> T]
  BY LenProperties
<1>2. q \in [1 .. Len(q) -> U]
  BY <1>1
<1> QED BY <1>1, <1>2

\* What e holds consists of frames, before a step and after it.
LEMMA HoldsMore ==
  ASSUME ClientTypeOK, NEW e \in Conns, NEW S, NEW T, S \cap Frame \subseteq T, Holds(e, S)
  PROVE  Holds(e, T)
<1>1. Holds(e, Frame)
  BY DEF ClientTypeOK, Holds
<1> QED BY <1>1, SeqMeet DEF Holds

LEMMA HoldsMoreNext ==
  ASSUME ClientTypeOK', NEW e \in Conns, NEW S, NEW T, S \cap Frame \subseteq T, Holds(e, S)'
  PROVE  Holds(e, T)'
<1>1. Holds(e, Frame)'
  BY DEF ClientTypeOK, Holds
<1> QED BY <1>1, SeqMeet DEF Holds

\* A challenge is sent to members, as their view of the channel says; so is a
\* peer_left.
LEMMA FrameKinds ==
  ASSUME NEW e \in Conns
  PROVE  /\ FrameTo(e).type = "challenge" =>
              /\ e \in ConnsOf(channels'[Ch]) /\ view'[e][Ch].type = "challenge"
              /\ FrameTo(e).nonce = view'[e][Ch].nonce
         /\ FrameTo(e).type = "peer_left" =>
              e \in ConnsOf(channels'[Ch]) /\ view'[e][Ch].type = "peer_left"
BY DEF FrameTo, Plain

\* Calls are counted where they join.
LEMMA JoinsStep ==
  ASSUME SInv, [SNext]_sessionVars, NEW c \in Conns
  PROVE  /\ joins'[c] = joins[c] \/ (Join(c) /\ joins'[c] = joins[c] + 1)
         /\ Join(c) => joins'[c] = joins[c] + 1
         /\ joins[c] \in Nat
<1>1. joins \in [Conns -> Nat]
  BY DEF SInv, IInv, TypeOK
<1>2. ASSUME NEW d \in Conns, Join(d) PROVE joins' = [joins EXCEPT ![d] = @ + 1]
  BY <1>2 DEF Join, SendJoin, HandleJoin, JoinFirst, JoinSecond, JoinNonceFails,
              JoinSecondNonceFails, Draw
<1>3. CASE Notify \/ UNCHANGED sessionVars
  <2>1. joins' = joins
    BY <1>3 DEF Notify, SendRejected, UnregisterConn, FireChallenge, ChallengeTimeout,
                FireWait, WaitPeerTimeout, FinishDelete, DeferredDelete, sessionVars, vars
  <2>2. ~Join(c)
    BY <1>1, <1>2, <2>1
  <2> QED BY <1>1, <2>1, <2>2
<1>4. ASSUME NEW d \in Conns, Hangup(d) \/ Close(d) \/ Call(d) \/ PutBack(d) \/ ReadLoop(d)
      PROVE  joins' = joins
  BY <1>4
  DEF Hangup, CloseConn, Close, Call, TakeError, TakeChallenge, AnswerAgain,
      TakeVerifyPeer, WaitTimeout, DebounceChallenge, DebounceOver, Accept, Reject,
      SendResponse, SendVerifyRejected, HandleResponse, HandleVerifyRejected, PutBack,
      ReadLoop, ReadPeerLeft, AutoRespond, AutoVerify, ReadError, vars
<1>5. ASSUME NEW d \in Conns, Hangup(d) \/ Close(d) \/ Call(d) \/ PutBack(d) \/ ReadLoop(d)
      PROVE  joins'[c] = joins[c] /\ ~Join(c)
  <2>1. joins' = joins
    BY <1>4, <1>5
  <2> QED BY <1>1, <1>2, <2>1
<1>6. ASSUME NEW d \in Conns, Join(d)
      PROVE  /\ joins'[c] = joins[c] \/ (Join(c) /\ joins'[c] = joins[c] + 1)
             /\ Join(c) => joins'[c] = joins[c] + 1
  BY <1>1, <1>2, <1>6
<1> QED BY <1>1, <1>3, <1>5, <1>6 DEF SNext

\* Clients that make one call make it when they have not called before.
LEMMA FirstCalls ==
  ASSUME OneCall, SInv, [SNext]_sessionVars, \A c \in Conns : Uncalled(c)
  PROVE  OnlyFirstCalls /\ \A c \in Conns : Join(c) => joins[c] = 0
<1> SUFFICES ASSUME NEW c \in Conns, Join(c) PROVE joins[c] = 0 /\ phase[c] = "idle"
  BY DEF OnlyFirstCalls
<1>1. joins[c] < MaxJoins[c]
  BY DEF Join, SendJoin, HandleJoin, JoinFirst, JoinSecond, JoinNonceFails,
         JoinSecondNonceFails, JoinAllowed
<1>2. joins[c] \in Nat /\ MaxJoins[c] \in Nat /\ MaxJoins[c] <= 1
  BY JoinsStep, LimitsAssumption DEF OneCall
<1>3. joins[c] = 0
  BY <1>1, <1>2
<1> QED BY <1>3 DEF Uncalled

LEMMA UncalledKept ==
  ASSUME SInv, SInv', Turns', [SNext]_sessionVars, NEW e \in Conns, Uncalled(e)
  PROVE  Uncalled(e)'
<1> SUFFICES ASSUME joins'[e] = 0 PROVE phase'[e] = "idle" /\ Holds(e, Unchallenging)'
  BY DEF Uncalled
<1>1. joins[e] = 0 /\ ~Join(e)
  BY JoinsStep
<1>2. phase[e] = "idle" /\ Holds(e, Unchallenging)
  BY <1>1 DEF Uncalled
<1>3. phase'[e] = "idle"
  BY <1>1, <1>2, PhasesStep DEF PhaseStep
<1>4. e \notin ConnsOf(channels'[Ch])
  BY <1>3 DEF Turns
<1>5. FrameTo(e).type # "challenge"
  BY <1>4, FrameKinds
<1> DEFINE S == Unchallenging \cup {FrameTo(e)}
<1>6. ClientTypeOK /\ ClientTypeOK'
  BY DEF SInv
<1>7. Holds(e, S)
  BY <1>2, <1>6, HoldsMore
<1>8. NoFrame \in S /\ Plain("error") \in S
  BY DEF Unchallenging, NoFrame, Plain, Frame, Nonce
<1>9. FrameTo(e) \in S
  OBVIOUS
<1>10. S \cap Frame \subseteq Unchallenging
  BY <1>5 DEF Unchallenging
<1>11. PICK T : T = S
  OBVIOUS
<1>12. Holds(e, T)'
  BY <1>7, <1>8, <1>9, <1>11, HoldsStep
<1>13. Holds(e, Unchallenging)'
  <2>1. PICK U : U = Unchallenging
    OBVIOUS
  <2>2. Holds(e, U)'
    BY <1>6, <1>10, <1>11, <1>12, <2>1, HoldsMoreNext
  <2>3. Unchallenging' = U
    BY <2>1 DEF Unchallenging
  <2> QED BY <2>2, <2>3 DEF Holds
<1> QED BY <1>3, <1>13

LEMMA DebouncedKept ==
  ASSUME SInv, [SNext]_sessionVars, NEW e \in Conns, Debounced(e)
  PROVE  Debounced(e)'
<1>1. phase \in [Conns -> Phases] /\ taken \in [Conns -> Frame]
  BY DEF SInv, ClientTypeOK, Phases
<1>2. CASE Notify \/ UNCHANGED sessionVars
  BY <1>2 DEF Notify, sessionVars, clientVars, Debounced
<1>3. ASSUME NEW d \in Conns, Hangup(d) \/ Join(d) \/ Close(d) \/ PutBack(d) \/ ReadLoop(d)
      PROVE  Debounced(e)'
  BY <1>1, <1>3
  DEF Hangup, Join, Close, PutBack, ReadLoop, ReadPeerLeft, AutoRespond, AutoVerify,
      ReadError, clientVars, Debounced
<1>4. ASSUME NEW d \in Conns, Call(d) PROVE Debounced(e)'
  <2>1. CASE TakeChallenge(d) \/ DebounceChallenge(d)
    <3>1. /\ Head(inbox[d]).type = "challenge"
          /\ taken' = [taken EXCEPT ![d] = Head(inbox[d])]
          /\ phase' = [phase EXCEPT ![d] = "debouncing"] \/ phase' = phase
      BY <2>1 DEF TakeChallenge, DebounceChallenge, Offers
    <3> QED BY <1>1, <3>1 DEF Debounced
  <2>2. CASE ~(TakeChallenge(d) \/ DebounceChallenge(d))
    BY <1>1, <1>4, <2>2
    DEF Call, TakeError, AnswerAgain, TakeVerifyPeer, WaitTimeout, DebounceOver,
        Accept, Reject, Debounced
  <2> QED BY <2>1, <2>2
<1> QED BY <1>2, <1>3, <1>4 DEF SNext

\* While a channel is CHALLENGING, a member is sent no challenge but its own.
LEMMA LatestFrames ==
  ASSUME SInv, SInv', VInv', [SNext]_sessionVars, NEW e \in Conns,
         NEW s \in Slot, channels'[Ch].state = "CHALLENGING",
         channels'[Ch].peers[s].conn = e,
         Holds(e, Only(channels'[Ch].peers[s].nonce))
  PROVE  Holds(e, Only(channels[Ch].peers[s].nonce))'
<1> DEFINE n == channels'[Ch].peers[s].nonce
           S == {msg \in Frame \cup {FrameTo(e)} : msg.type = "challenge" => msg.nonce = n}
<1>1. ClientTypeOK /\ ClientTypeOK'
  BY DEF SInv
<1>2. /\ Only(n) \subseteq S /\ S \cap Frame \subseteq Only(n)
      /\ NoFrame \in Only(n) /\ Plain("error") \in Only(n)
  BY DEF Only, NoFrame, Plain, Frame, Nonce
<1>3. PICK T : T = S
  OBVIOUS
<1>4. PICK N : N = Only(n)
  OBVIOUS
<1>5. /\ Holds(e, T) /\ T \cap Frame \subseteq N
      /\ NoFrame \in T /\ Plain("error") \in T
  <2>1. Holds(e, S)
    BY <1>1, <1>2, HoldsMore
  <2> QED BY <1>2, <1>3, <1>4, <2>1
<1>6. FrameTo(e) \in T \/ phase[e] = "closed"
  <2> SUFFICES ASSUME phase[e] # "closed", FrameTo(e).type = "challenge"
               PROVE  FrameTo(e).nonce = n
    BY <1>3
  <2>1. Open(e)'
    <3>1. Open(e)' \/ phase'[e] = "closed"
      BY DEF SInv, ClientOK
    <3>2. PhaseStep(e)
      BY PhasesStep
    <3>3. ASSUME Close(e) PROVE Open(e)'
      BY <3>3 DEF Close, vars, Open, SInv, ClientOK
    <3>4. phase'[e] = "closed" => Close(e)
      BY <3>2 DEF PhaseStep, Join, SInv, ClientTypeOK
    <3> QED BY <3>1, <3>3, <3>4
  <2>2. CurrentAt(Ch)'
    BY ChAssumption DEF VInv, HeardAt
  <2>3. s \in Members(channels'[Ch])
    BY ConnsAssumption DEF Members
  <2>4. view'[e][Ch] \in {Challenge(n), Note("verify_rejected")}
    BY <2>1, <2>2, <2>3 DEF CurrentAt
  <2>5. view'[e][Ch].type = "challenge" /\ FrameTo(e).nonce = view'[e][Ch].nonce
    BY FrameKinds
  <2>6. view'[e][Ch] = Challenge(n)
    BY <2>4, <2>5 DEF Note
  <2> QED BY <2>5, <2>6 DEF Challenge
<1>7. Holds(e, T)'
  BY <1>5, <1>6, HoldsStep
<1>8. Holds(e, N)'
  BY <1>1, <1>5, <1>7, HoldsMoreNext
<1>9. Only(channels[Ch].peers[s].nonce)' = N
  BY <1>4 DEF Only
<1> QED BY <1>8, <1>9 DEF Holds

\* What a step does to what a client reads of a channel that it has registered.
DownStep(c) ==
  LET f == FrameTo(c) IN
  \/ known[c] = "none" /\ known'[c] = "active" /\ down'[c] = << >>
  \/ known'[c] = known[c] /\ down'[c] \in {down[c], Append(down[c], f)}
  \/ Reads(c, "peer_left") /\ known'[c] = "inactive" /\ down'[c] = Tail(down[c])
  \/ /\ Reads(c, "verify_peer") /\ down'[c] = Tail(down[c])
     /\ known'[c] = IF Verifies(c, Head(down[c])) THEN "active" ELSE known[c]
  \/ /\ Reads(c, "challenge") \/ Reads(c, "error")
     /\ known'[c] = known[c] /\ down'[c] \in {Tail(down[c]), Append(Tail(down[c]), f)}

LEMMA DownSteps ==
  ASSUME SInv, OnlyFirstCalls, NEW c \in Conns, Registered(c), [SNext]_sessionVars,
         known'[c] # "none"
  PROVE  DownStep(c)
<1>1. /\ down \in [Conns -> Seq(Frame)] /\ phase \in [Conns -> Phases]
      /\ known \in [Conns -> {"none", "inactive", "active"}]
  BY DEF SInv, ClientTypeOK, Phases
<1>2. ASSUME NEW told, NEW queue, NEW box, Deliver(told, queue, box)
      PROVE  down'[c] \in {queue[c], Append(queue[c], FrameTo(c))}
  BY <1>2 DEF Deliver
<1>3. CASE Notify
  BY <1>2, <1>3 DEF Notify, DownStep
<1>4. CASE UNCHANGED sessionVars
  BY <1>4 DEF sessionVars, clientVars, DownStep
<1>5. ASSUME NEW d \in Conns, Hangup(d) \/ PutBack(d) PROVE DownStep(c)
  BY <1>5 DEF Hangup, PutBack, clientVars, DownStep
<1>6. ASSUME NEW d \in Conns, Join(d) PROVE DownStep(c)
  <2>1. d # c
    BY <1>6 DEF OnlyFirstCalls, Registered, Join
  <2>2. ReplacedQueue(d)[c] = down[c]
    BY <2>1, ReplacedIs
  <2> QED BY <1>2, <1>6, <2>2 DEF Join, SendJoin, DownStep
<1>7. ASSUME NEW d \in Conns, Close(d) PROVE DownStep(c)
  <2>1. c # d
    BY <1>1, <1>7 DEF Close
  <2> QED BY <1>1, <1>7, <2>1 DEF Close, DownStep
<1>8. ASSUME NEW d \in Conns, ReadLoop(d) PROVE DownStep(c)
  <2>1. Unread(d)[c] = IF c = d THEN Tail(down[c]) ELSE down[c]
    BY <1>1 DEF Unread
  <2>2. CASE ReadPeerLeft(d)
    BY <1>1, <2>1, <2>2 DEF ReadPeerLeft, DownStep
  <2>3. CASE AutoVerify(d)
    BY <1>1, <2>1, <2>3 DEF AutoVerify, DownStep
  <2>4. CASE AutoRespond(d)
    BY <1>2, <2>1, <2>4 DEF AutoRespond, SendResponse, DownStep
  <2>5. CASE ReadError(d)
    BY <2>1, <2>5 DEF ReadError, DownStep
  <2> QED BY <1>8, <2>2, <2>3, <2>4, <2>5 DEF ReadLoop
<1>9. ASSUME NEW d \in Conns, Call(d) PROVE DownStep(c)
  <2>1. CASE Accept(d)
    <3>1. CASE c = d
      <4>1. known[c] = "none" /\ down[c] = << >>
        BY <2>1, <3>1 DEF Accept, Registered
      <4> QED BY <1>1, <2>1, <3>1, <4>1 DEF Accept, DownStep
    <3>2. CASE c # d
      BY <1>1, <2>1, <3>2 DEF Accept, DownStep
    <3> QED BY <3>1, <3>2
  <2>2. CASE AnswerAgain(d) \/ DebounceOver(d)
    BY <1>2, <2>2 DEF AnswerAgain, DebounceOver, SendResponse, DownStep
  <2>3. CASE ~(Accept(d) \/ AnswerAgain(d) \/ DebounceOver(d))
    BY <1>9, <2>3
    DEF Call, TakeError, TakeChallenge, TakeVerifyPeer, WaitTimeout, DebounceChallenge,
        Reject, SendVerifyRejected, DownStep
  <2> QED BY <2>1, <2>2, <2>3
<1> QED BY <1>3, <1>4, <1>5, <1>6, <1>7, <1>8, <1>9 DEF SNext

\* A client that is not told of a peer leaving is bereft only if it was before, and
\* loses no good news.
LEMMA BereftBefore ==
  ASSUME SInv, OnlyFirstCalls, NEW c \in Conns, Registered(c), [SNext]_sessionVars,
         Bereft(c)',
         FrameTo(c).type # "peer_left"
  PROVE  /\ Bereft(c) /\ known[c] # "none"
         /\ GoodNews(down[c], c) => GoodNews(down'[c], c)
<1> DEFINE f == FrameTo(c)
           S == Frame \cup {f}
           q == down[c]
<1>1. /\ q \in Seq(S) /\ known[c] \in {"none", "inactive", "active"} /\ f \in S
      /\ q # << >> => Tail(q) \in Seq(S)
  <2>1. q \in Seq(Frame)
    BY DEF SInv, ClientTypeOK
  <2>2. q # << >> => Tail(q) \in Seq(Frame)
    BY <2>1, Queue
  <2>3. Frame \subseteq S
    OBVIOUS
  <2>4. q \in Seq(S) /\ (q # << >> => Tail(q) \in Seq(S))
    BY <2>1, <2>2, <2>3, SeqMonotonic
  <2> QED BY <2>4 DEF SInv, ClientTypeOK
<1>2. known'[c] = "inactive" \/ (known'[c] # "none" /\ Left(down'[c]))
  BY DEF Bereft
<1> HIDE DEF S, f, q
<1>3. ASSUME NEW r \in Seq(S)
      PROVE  /\ Left(Append(r, f)) => Left(r)
             /\ GoodNews(r, c) => GoodNews(Append(r, f), c)
  BY <1>1, <1>3, NewsQueue DEF f
<1>4. q # << >> => /\ Left(q) <=> Head(q).type = "peer_left" \/ Left(Tail(q))
                   /\ GoodNews(q, c) => \/ GoodNews(Tail(q), c)
                                        \/ /\ Head(q).type = "verify_peer"
                                           /\ Verifies(c, Head(q))
                                           /\ ~Left(Tail(q))
  BY <1>1, NewsQueue
<1>5. ~Left(<< >>)
  BY DEF Left
<1>6. DownStep(c)
  BY <1>2, DownSteps
<1>7. CASE known[c] = "none" /\ known'[c] = "active" /\ down'[c] = << >>
  BY <1>2, <1>5, <1>7
<1>8. CASE known'[c] = known[c] /\ down'[c] \in {q, Append(q, f)}
  BY <1>1, <1>2, <1>3, <1>8 DEF Bereft, q
<1>9. CASE Reads(c, "peer_left") /\ known'[c] = "inactive" /\ down'[c] = Tail(q)
  <2>1. known[c] # "none"
    BY <1>9 DEF Reads, Registered
  <2> QED BY <1>4, <1>9, <2>1 DEF Bereft, Reads, q
<1>10. CASE /\ Reads(c, "verify_peer") /\ down'[c] = Tail(q)
            /\ known'[c] = IF Verifies(c, Head(q)) THEN "active" ELSE known[c]
  <2>1. known[c] # "none"
    BY <1>10 DEF Reads, Registered
  <2>2. q # << >> /\ Head(q).type = "verify_peer"
    BY <1>10 DEF Reads, q
  <2>3. CASE Verifies(c, Head(q))
    <3>1. Left(Tail(q)) /\ Left(q)
      BY <1>2, <1>4, <1>10, <2>2, <2>3
    <3> QED BY <1>4, <1>10, <2>1, <2>2, <3>1 DEF Bereft, q
  <2>4. CASE ~Verifies(c, Head(q))
    <3>1. known'[c] = known[c]
      BY <1>10, <2>4
    <3> QED BY <1>2, <1>4, <1>10, <2>1, <2>2, <2>4, <3>1 DEF Bereft, q
  <2> QED BY <2>3, <2>4
<1>11. CASE /\ Reads(c, "challenge") \/ Reads(c, "error")
            /\ known'[c] = known[c] /\ down'[c] \in {Tail(q), Append(Tail(q), f)}
  <2>1. known[c] # "none"
    BY <1>11 DEF Reads, Registered
  <2>2. q # << >> /\ Head(q).type # "peer_left" /\ Head(q).type # "verify_peer"
    BY <1>11 DEF Reads, q
  <2>3. /\ Left(down'[c]) => Left(Tail(q))
        /\ GoodNews(Tail(q), c) => GoodNews(down'[c], c)
    BY <1>1, <1>3, <1>11, <2>2
  <2> QED BY <1>2, <1>4, <1>11, <2>1, <2>2, <2>3 DEF Bereft, q
<1> QED BY <1>6, <1>7, <1>8, <1>9, <1>10, <1>11 DEF DownStep, q, f

\* What the server does of itself to a channel that stays full is nothing.
LEMMA ServerStepFull ==
  ASSUME IInv, ServerStep, channels'[Ch].state \in {"CHALLENGING", "ACTIVE"},
         Members(channels'[Ch]) # {}
  PROVE  channels'[Ch] = channels[Ch]
<1>1. Ch \in ChIds /\ channels[Ch] \in Channel /\ Ch \in DOMAIN channels
  BY ChAssumption DEF IInv, TypeOK
<1>2. \A s \in Slot : channels'[Ch] # Without(channels[Ch], s)
  BY <1>1, LeftBehind
<1>3. channels'[Ch] # NoChannel
  BY LeftBehind
<1>4. ASSUME NEW c \in Conns, SendRejected(c) PROVE channels'[Ch] = channels[Ch]
  BY <1>4 DEF SendRejected
<1>5. ASSUME NEW c \in Conns, UnregisterConn(c) PROVE channels'[Ch] = channels[Ch]
  <2>1. channels'[Ch] \in {Cut(c, Ch), channels[Ch]}
    BY <1>1, <1>5 DEF UnregisterConn
  <2>2. SlotOf(channels[Ch], c) \in Slot
    BY DEF SlotOf, Slot
  <2>3. Cut(c, Ch) \in {channels[Ch], NoChannel,
                        Without(channels[Ch], SlotOf(channels[Ch], c))}
    BY DEF Cut
  <2> QED BY <1>2, <1>3, <2>1, <2>2, <2>3
<1>6. ASSUME NEW c \in Conns, NEW ch \in ChIds, ChallengeTimeout(c, ch)
      PROVE  channels'[Ch] = channels[Ch]
  <2>1. ch = Ch
    BY ChAssumption
  <2>2. \/ channels' = channels
        \/ \E s \in Slot : channels' = [channels EXCEPT ![Ch] = Without(channels[Ch], s)]
    BY <1>6, <2>1 DEF ChallengeTimeout, Expire, SlotsOf
  <2> QED BY <1>1, <1>2, <2>2
<1>7. ASSUME NEW t \in waitTimers, WaitPeerTimeout(t) PROVE channels'[Ch] = channels[Ch]
  <2>1. t.ch = Ch
    BY ChAssumption DEF IInv, TypeOK, WaitTimer
  <2>2. channels' = channels \/ channels'[Ch].peers = NoPeers
    BY <1>1, <1>7, <2>1 DEF WaitPeerTimeout, Channel
  <2>3. channels'[Ch].peers # NoPeers
    BY DEF Members, NoPeers, NoPeer
  <2> QED BY <2>2, <2>3
<1>8. ASSUME NEW d \in deletes, DeferredDelete(d) PROVE channels'[Ch] = channels[Ch]
  <2>1. channels'[Ch] \in {NoChannel, channels[Ch]}
    BY <1>1, <1>8 DEF DeferredDelete, DeleteIfSame
  <2> QED BY <1>3, <2>1
<1> QED BY <1>4, <1>5, <1>6, <1>7, <1>8
        DEF ServerStep, FireChallenge, FireWait, FinishDelete

\* An answer is one to a challenge that the client holds.
LEMMA Answering ==
  ASSUME SInv, NEW d \in Conns, Debounced(d),
         AnswerAgain(d) \/ AutoRespond(d) \/ DebounceOver(d)
  PROVE  \E msg \in Frame, queue \in [Conns -> Seq(Frame)] : \E box :
           /\ msg.type = "challenge" /\ SendResponse(d, msg.nonce, queue, box)
           /\ \A S : Holds(d, S) => msg \in S
<1>1. /\ down \in [Conns -> Seq(Frame)] /\ inbox \in [Conns -> Seq(Frame)]
      /\ taken \in [Conns -> Frame]
  BY DEF SInv, ClientTypeOK
<1>2. CASE AnswerAgain(d)
  <2>1. /\ inbox[d] # << >> /\ Head(inbox[d]).type = "challenge"
        /\ SendResponse(d, Head(inbox[d]).nonce, down, Rest(d))
    BY <1>2 DEF AnswerAgain, Offers
  <2>2. Head(inbox[d]) \in Frame /\ \A S : Holds(d, S) => Head(inbox[d]) \in S
    BY <1>1, <2>1, Queue DEF Holds
  <2> QED BY <1>1, <2>1, <2>2
<1>3. CASE AutoRespond(d)
  <2>1. /\ down[d] # << >> /\ Head(down[d]).type = "challenge"
        /\ SendResponse(d, Head(down[d]).nonce, Unread(d), inbox)
    BY <1>3 DEF AutoRespond, Reads
  <2>2. Head(down[d]) \in Frame /\ \A S : Holds(d, S) => Head(down[d]) \in S
    BY <1>1, <2>1, Queue DEF Holds
  <2>3. Unread(d) \in [Conns -> Seq(Frame)]
    BY <1>1, <2>1, HeadTaken DEF Unread
  <2> QED BY <2>1, <2>2, <2>3
<1>4. CASE DebounceOver(d)
  <2>1. taken[d].type = "challenge" /\ taken[d] \in Frame
        /\ \A S : Holds(d, S) => taken[d] \in S
    BY <1>1, <1>4 DEF DebounceOver, Debounced, Holds
  <2>2. PICK box : SendResponse(d, taken[d].nonce, down, box)
    BY <1>4 DEF DebounceOver
  <2> QED BY <1>1, <2>1, <2>2
<1> QED BY <1>2, <1>3, <1>4

\* How a channel comes to be full, or stays so.
LEMMA FullSteps ==
  ASSUME SInv, ~RandMayFail, [SNext]_sessionVars,
         channels'[Ch].state \in {"CHALLENGING", "ACTIVE"}, Members(channels'[Ch]) # {}
  PROVE  \/ /\ channels'[Ch] = channels[Ch]
            /\ \A s \in Slot : LET m == channels[Ch].peers[s] IN
                 m.conn \in Conns /\ m.answered => mac'[m.conn] = mac[m.conn]
         \/ \E d \in Conns : Join(d) /\ JoinSecond(d, Ch)
         \/ \E d \in Conns : /\ AnswerAgain(d) \/ AutoRespond(d) \/ DebounceOver(d)
                             /\ HandleResponse(d, Ch)
<1> DEFINE Same == /\ channels'[Ch] = channels[Ch]
                   /\ \A s \in Slot : LET m == channels[Ch].peers[s] IN
                        m.conn \in Conns /\ m.answered => mac'[m.conn] = mac[m.conn]
<1>1. IInv /\ channels[Ch] \in Channel /\ Ch \in DOMAIN channels
  BY ChAssumption DEF SInv, IInv, TypeOK
<1>2. UNCHANGED <<channels, mac>> => Same
  OBVIOUS
<1>3. channels'[Ch] = channels[Ch] /\ KeepMacs => Same
  BY DEF KeepMacs, SlotsOf
<1> HIDE DEF Same
<1>4. CASE Notify
  <2>1. channels'[Ch] = channels[Ch]
    BY <1>1, <1>4, ServerStepFull DEF Notify, ServerStep
  <2> QED BY <1>3, <1>4, <2>1 DEF Notify, Same
<1>5. CASE UNCHANGED sessionVars
  BY <1>2, <1>5 DEF sessionVars, vars, Same
<1>6. ASSUME NEW d \in Conns, Join(d) PROVE JoinSecond(d, Ch)
  <2>1. JoinFirst(d, Ch) \/ JoinSecond(d, Ch)
    BY <1>6 DEF Join, SendJoin, HandleJoin, JoinNonceFails, JoinSecondNonceFails
  <2>2. ~JoinFirst(d, Ch)
    BY <1>1 DEF JoinFirst, BackToWait
  <2> QED BY <2>1, <2>2
<1>7. ASSUME NEW d \in Conns, Reject(d) PROVE Same
  <2>1. ~HandleVerifyRejected(d, Ch)
    <3>1. HandleVerifyRejected(d, Ch) => channels'[Ch] = NoChannel
      BY <1>1 DEF HandleVerifyRejected
    <3> QED BY <3>1, LeftBehind
  <2> QED BY <1>3, <1>7, <2>1 DEF Reject, SendVerifyRejected, vars
<1>8. ASSUME NEW d \in Conns, AnswerAgain(d) \/ AutoRespond(d) \/ DebounceOver(d)
      PROVE  HandleResponse(d, Ch) \/ Same
  BY <1>2, <1>8 DEF AnswerAgain, AutoRespond, DebounceOver, SendResponse, vars
<1>9. ASSUME NEW d \in Conns, Alone(d) PROVE Same
  BY <1>2, <1>9
  DEF Alone, Hangup, CloseConn, Close, PutBack, TakeError, TakeChallenge,
      TakeVerifyPeer, WaitTimeout, DebounceChallenge, Accept, ReadPeerLeft, AutoVerify,
      ReadError, vars
<1>10. ASSUME NEW d \in Conns, Hangup(d) \/ Close(d) \/ PutBack(d) \/ Call(d) \/ ReadLoop(d)
       PROVE  \/ Alone(d) \/ Reject(d)
              \/ AnswerAgain(d) \/ AutoRespond(d) \/ DebounceOver(d)
  BY <1>10 DEF Alone, Call, ReadLoop
<1> QED BY <1>4, <1>5, <1>6, <1>7, <1>8, <1>9, <1>10 DEF SNext, Same

\* A bereft member of a full channel is told nothing but news of its peer, and was
\* bereft before.
LEMMA StillBereft ==
  ASSUME SInv, SInv', VInv', OnlyFirstCalls, NEW c \in Conns, Registered(c), Registered(c)',
         [SNext]_sessionVars, c \in ConnsOf(channels'[Ch]), Bereft(c)',
         channels'[Ch].state \in {"CHALLENGING", "ACTIVE"}
  PROVE  /\ Bereft(c) /\ known[c] # "none" /\ phase[c] = "done" /\ Open(c)
         /\ GoodNews(down[c], c) => GoodNews(down'[c], c)
<1>1. known'[c] # "none" /\ phase'[c] = "done"
  BY DEF Bereft, Registered
<1>2. Open(c)'
  BY <1>1 DEF SInv, ClientOK
<1>3. PICK s \in Members(channels'[Ch]) : channels'[Ch].peers[s].conn = c
  BY DEF ConnsOf
<1>4. view'[c][Ch].type # "peer_left"
  <2>1. CurrentAt(Ch)' /\ VerifiedAt(Ch)'
    BY ChAssumption DEF VInv, HeardAt
  <2>2. CASE channels'[Ch].state = "CHALLENGING"
    <3>1. view'[c][Ch] \in {Challenge(channels'[Ch].peers[s].nonce), Note("verify_rejected")}
      BY <1>2, <1>3, <2>1, <2>2 DEF CurrentAt
    <3> QED BY <3>1 DEF Challenge, Note
  <2>3. CASE channels'[Ch].state = "ACTIVE"
    BY <1>2, <1>3, <2>1, <2>3 DEF VerifiedAt
  <2> QED BY <2>2, <2>3
<1>5. FrameTo(c).type # "peer_left"
  BY <1>4, FrameKinds
<1>6. /\ Bereft(c) /\ known[c] # "none"
      /\ GoodNews(down[c], c) => GoodNews(down'[c], c)
  BY <1>5, BereftBefore
<1> QED BY <1>6 DEF Registered, SInv, ClientOK

\* A second client joins: it has no challenge but this one.
LEMMA ConsoledJoin ==
  ASSUME SInv, SInv', VInv', [SNext]_sessionVars, NEW c \in Conns,
         c \in ConnsOf(channels'[Ch]),
         NEW d \in Conns, Join(d), JoinSecond(d, Ch), d # c, joins[d] = 0, Uncalled(d),
         NEW s \in Slot, channels'[Ch].peers[s].conn # c
  PROVE  /\ channels'[Ch].state = "CHALLENGING"
         /\ Latest(channels[Ch].peers[s].conn, channels[Ch].peers[s])'
<1> DEFINE k == AfterReplacement(d, Opened(Ch))
           f == FreeSlot(k)
           j == [conn |-> d, nonce |-> reads + 1, answered |-> FALSE]
           m == [conn |-> k.peers[1 - f].conn, nonce |-> reads + 2, answered |-> FALSE]
<1>1. channels[Ch] \in Channel /\ k \in Channel /\ Ch \in DOMAIN channels
  BY ChAssumption, OpenedType, AfterReplacementType DEF SInv, IInv, TypeOK
<1>2. channels'[Ch] = [Seat(Seat(k, f, d, reads + 1), 1 - f,
                            k.peers[1 - f].conn, reads + 2)
                         EXCEPT !.state = "CHALLENGING"]
  BY <1>1 DEF JoinSecond
<1> HIDE DEF k
<1>3. /\ channels'[Ch].peers = [k.peers EXCEPT ![f] = j, ![1 - f] = m]
      /\ channels'[Ch].state = "CHALLENGING"
  BY <1>1, <1>2 DEF Seat, Channel
<1>4. /\ DOMAIN k.peers = Slot /\ f \in Slot /\ 1 - f \in Slot /\ f # 1 - f
      /\ \A t \in Slot : t = f \/ t = 1 - f
  BY <1>1 DEF Channel, Slot, FreeSlot
<1>5. j.conn = d /\ ~j.answered
  OBVIOUS
<1> HIDE DEF j, m, f
<1>6. channels'[Ch].peers[f] = j /\ channels'[Ch].peers[1 - f] = m
  BY <1>3, <1>4
<1>7. s = f
  <2>1. PICK t \in Slot : channels'[Ch].peers[t].conn = c
    BY DEF ConnsOf, Members
  <2>2. t = 1 - f
    BY <1>4, <1>5, <1>6, <2>1
  <2> QED BY <1>4, <2>1, <2>2
<1>8. channels'[Ch].peers[s].conn = d /\ ~channels'[Ch].peers[s].answered
  BY <1>5, <1>6, <1>7
<1>9. PICK n : n = channels'[Ch].peers[s].nonce
  OBVIOUS
<1>10. Holds(d, Only(n))
  <2>1. Unchallenging \cap Frame \subseteq Only(n)
    BY DEF Unchallenging, Only
  <2>2. Holds(d, Unchallenging) /\ ClientTypeOK
    BY DEF Uncalled, SInv
  <2> QED BY <2>1, <2>2, HoldsMore
<1>11. Holds(d, Only(channels[Ch].peers[s].nonce))'
  BY <1>3, <1>8, <1>9, <1>10, LatestFrames
<1> QED BY <1>3, <1>8, <1>11 DEF Latest, Holds

\* A response: it is right if only the latest challenge was left to answer.
LEMMA ConsoledResponse ==
  ASSUME SInv, SInv', VInv', ~RandMayFail, [SNext]_sessionVars, NEW c \in Conns,
         c \in ConnsOf(channels[Ch]), Open(c), known[c] # "none",
         channels[Ch].state \in {"CHALLENGING", "ACTIVE"},
         channels[Ch].state = "CHALLENGING" =>
           \A s \in Slot : channels[Ch].peers[s].conn # c
             => Latest(channels[Ch].peers[s].conn, channels[Ch].peers[s]),
         NEW d \in Conns, Debounced(d), AnswerAgain(d) \/ AutoRespond(d) \/ DebounceOver(d),
         HandleResponse(d, Ch)
  PROVE  /\ channels'[Ch].state = "CHALLENGING" =>
              \A s \in Slot : channels'[Ch].peers[s].conn # c
                => Latest(channels[Ch].peers[s].conn, channels[Ch].peers[s])'
         /\ channels'[Ch].state = "ACTIVE" =>
              channels[Ch].state = "ACTIVE" \/ GoodNews(down'[c], c)
<1> DEFINE k == channels[Ch]
           s0 == SlotOf(k, d)
<1>1. /\ IInv /\ k \in Channel /\ Ch \in DOMAIN channels /\ Members(k) = Slot
      /\ DistinctOK(k) /\ mac \in [Conns -> Nonce]
  BY ChAssumption DEF SInv, IInv, TypeOK, ChannelOK, StateOK
<1>2. PICK msg \in Frame, queue \in [Conns -> Seq(Frame)] :
        /\ \E box : msg.type = "challenge" /\ SendResponse(d, msg.nonce, queue, box)
        /\ \A S : Holds(d, S) => msg \in S
  <2>1. PICK msg \in Frame, queue \in [Conns -> Seq(Frame)] : \E box :
          /\ msg.type = "challenge" /\ SendResponse(d, msg.nonce, queue, box)
          /\ \A S : Holds(d, S) => msg \in S
    BY Answering
  <2> QED BY <2>1
<1>3. /\ s0 \in SlotsOf(k, d) /\ s0 \in Slot /\ k.peers[s0].conn = d
      /\ \/ channels'[Ch] = Answered(k, s0) /\ ~Completes(k, s0)
         \/ channels'[Ch] = Activated(k) /\ Completes(k, s0)
  <2>1. PICK t \in SlotsOf(k, d) :
          \/ channels'[Ch] = Answered(k, t) /\ ~Completes(k, t)
          \/ channels'[Ch] = Activated(k) /\ Completes(k, t)
    BY <1>1 DEF HandleResponse
  <2>2. t = s0
    BY <1>1, OneSlot
  <2> QED BY <2>1, <2>2 DEF SlotsOf
<1>4. mac' = [mac EXCEPT ![d] = msg.nonce] /\ msg.nonce \in Nat
  BY <1>2, <1>3 DEF SendResponse, Frame, Nonce
<1>5. \A t \in Slot : k.peers[t].conn \in Conns
  BY <1>1, ConnsOfType DEF ConnsOf
<1>6. ASSUME NEW t \in Slot, k.peers[t].conn = d, Latest(d, k.peers[t])
      PROVE  msg.nonce = k.peers[t].nonce
  BY <1>2, <1>6 DEF Latest, Only
<1> HIDE DEF k, s0
<1>7. CASE channels'[Ch] = Answered(k, s0)
  <2>1. /\ channels'[Ch].state = k.state
        /\ \A t \in Slot : /\ channels'[Ch].peers[t].conn = k.peers[t].conn
                           /\ channels'[Ch].peers[t].nonce = k.peers[t].nonce
                           /\ t # s0 => channels'[Ch].peers[t] = k.peers[t]
    BY <1>1, <1>3, <1>7 DEF Answered, Channel, Peer, ChannelMember, NoPeer
  <2>2. ASSUME k.state = "CHALLENGING", NEW s \in Slot, k.peers[s].conn # c
        PROVE  Latest(channels[Ch].peers[s].conn, channels[Ch].peers[s])'
    <3> DEFINE e == k.peers[s].conn
    <3>1. e \in Conns /\ Latest(e, k.peers[s])
      BY <1>5, <2>2 DEF k
    <3>2. PICK n : n = k.peers[s].nonce
      OBVIOUS
    <3>3. PICK g : g = e
      OBVIOUS
    <3>4. g \in Conns /\ Holds(g, Only(n))
      BY <3>1, <3>2, <3>3 DEF Latest
    <3>5. Holds(g, Only(channels[Ch].peers[s].nonce))'
      BY <2>1, <2>2, <3>2, <3>3, <3>4, LatestFrames
    <3>6. channels'[Ch].peers[s].answered => mac'[e] = n
      <4>1. CASE s = s0
        BY <1>1, <1>3, <1>4, <1>6, <3>1, <3>2, <4>1
      <4>2. CASE s # s0
        <5>1. e # d
          BY <1>1, <1>3, <4>2 DEF DistinctOK
        <5> QED BY <1>1, <1>4, <2>1, <3>1, <3>2, <4>2, <5>1 DEF Latest
      <4> QED BY <4>1, <4>2
    <3> QED BY <2>1, <3>2, <3>3, <3>5, <3>6 DEF Latest, Holds
  <2> QED BY <2>1, <2>2 DEF k
<1>8. CASE channels'[Ch] = Activated(k) /\ Completes(k, s0)
  <2>1. channels'[Ch].state = "ACTIVE"
    BY <1>1, <1>8 DEF Activated, Channel
  <2>2. ASSUME k.state = "CHALLENGING" PROVE GoodNews(down'[c], c)
    <3> DEFINE u == OtherSlot(k, c)
               other == k.peers[u]
               f == FrameTo(c)
    <3>1. /\ k.peers[SlotOf(k, c)].conn = c /\ u \in Slot
          /\ other.conn \in Conns /\ IdOf[other.conn] # IdOf[c]
          /\ other.nonce \in Nat /\ mac'[other.conn] \in Nat
          /\ other.conn = d \/ (other.answered /\ mac'[other.conn] = mac[other.conn])
          /\ f = [type |-> "verify_peer", nonce |-> other.nonce,
                  mac |-> mac'[other.conn], peer |-> IdOf[other.conn]]
      BY <1>4, <1>8, AnswerShown DEF k, s0
    <3> HIDE DEF u, f
    <3>2. Latest(other.conn, other)
      BY <2>2, <3>1 DEF k
    <3>3. mac'[other.conn] = other.nonce
      <4>1. CASE other.conn = d
        BY <1>1, <1>4, <1>6, <3>1, <3>2, <4>1
      <4>2. CASE other.conn # d
        BY <3>1, <3>2, <4>2 DEF Latest
      <4> QED BY <4>1, <4>2
    <3>4. f.type = "verify_peer" /\ Verifies(c, f) /\ f \in Frame
      BY <3>1, <3>3, IdsAssumption DEF Verifies, Frame, Nonce
    <3>5. down'[c] = Append(queue[c], f)
      <4>1. SlotsOf(channels[Ch], d) # {} /\ Completes(channels[Ch], SlotOf(channels[Ch], d))
        BY <1>3, <1>8 DEF k, s0
      <4>2. PICK b : Deliver(ConnsOf(channels[Ch]), queue, b)
        BY <1>2, <4>1 DEF SendResponse
      <4>3. down'[c] = Append(queue[c], FrameTo(c))
        BY <4>2 DEF Deliver
      <4> QED BY <4>3 DEF f
    <3>6. \A g \in Frame : g.type = "verify_peer" /\ Verifies(c, g)
            => GoodNews(Append(queue[c], g), c)
      <4>1. queue[c] \in Seq(Frame)
        OBVIOUS
      <4> QED BY <4>1, NewsQueue
    <3> QED BY <3>4, <3>5, <3>6
  <2> QED BY <2>1, <2>2 DEF k
<1> QED BY <1>3, <1>7, <1>8

\* So it goes on.
LEMMA ConsoledKept ==
  ASSUME ~RandMayFail, SInv, SInv', VInv', [SNext]_sessionVars,
         OnlyFirstCalls, \A d \in Conns : Join(d) => joins[d] = 0,
         \A d \in Conns : Uncalled(d) /\ Debounced(d),
         NEW c \in Conns, Registered(c), Registered(c)', Consoled(c)
  PROVE  Consoled(c)'
<1> SUFFICES ASSUME c \in ConnsOf(channels'[Ch]), Bereft(c)',
                    channels'[Ch].state \in {"CHALLENGING", "ACTIVE"}
             PROVE  /\ channels'[Ch].state = "CHALLENGING" =>
                         \A s \in Slot : channels'[Ch].peers[s].conn # c
                           => Latest(channels[Ch].peers[s].conn, channels[Ch].peers[s])'
                    /\ channels'[Ch].state = "ACTIVE" => GoodNews(down'[c], c)
  BY DEF Consoled
<1>1. /\ Bereft(c) /\ known[c] # "none" /\ phase[c] = "done" /\ Open(c)
      /\ GoodNews(down[c], c) => GoodNews(down'[c], c)
  BY StillBereft
<1>2. channels[Ch] \in Channel /\ channels'[Ch] \in Channel /\ Members(channels'[Ch]) = Slot
  BY ChAssumption DEF SInv, IInv, TypeOK, ChannelOK, StateOK
<1>3. ASSUME channels'[Ch] = channels[Ch],
             \A s \in Slot : LET m == channels[Ch].peers[s] IN
               m.conn \in Conns /\ m.answered => mac'[m.conn] = mac[m.conn]
      PROVE  /\ channels'[Ch].state = "CHALLENGING" =>
                  \A s \in Slot : channels'[Ch].peers[s].conn # c
                    => Latest(channels[Ch].peers[s].conn, channels[Ch].peers[s])'
             /\ channels'[Ch].state = "ACTIVE" => GoodNews(down'[c], c)
  <2>1. ASSUME channels'[Ch].state = "CHALLENGING",
               NEW s \in Slot, channels'[Ch].peers[s].conn # c
        PROVE  Latest(channels[Ch].peers[s].conn, channels[Ch].peers[s])'
    <3>1. PICK e, n : e = channels[Ch].peers[s].conn /\ n = channels[Ch].peers[s].nonce
      OBVIOUS
    <3>2. e \in Conns
      BY <1>2, <1>3, <3>1, ConnsOfType DEF ConnsOf
    <3>3. Latest(e, channels[Ch].peers[s])
      BY <1>1, <1>3, <2>1, <3>1 DEF Consoled
    <3>4. Holds(e, Only(n))
      BY <3>1, <3>3 DEF Latest
    <3>5. Holds(e, Only(channels[Ch].peers[s].nonce))'
      BY <1>3, <2>1, <3>1, <3>2, <3>4, LatestFrames
    <3> QED BY <1>3, <3>1, <3>2, <3>3, <3>5 DEF Latest, Holds
  <2> QED BY <1>1, <1>3, <2>1 DEF Consoled
<1>4. ASSUME NEW d \in Conns, Join(d), JoinSecond(d, Ch)
      PROVE  /\ channels'[Ch].state = "CHALLENGING" =>
                  \A s \in Slot : channels'[Ch].peers[s].conn # c
                    => Latest(channels[Ch].peers[s].conn, channels[Ch].peers[s])'
             /\ channels'[Ch].state = "ACTIVE" => GoodNews(down'[c], c)
  <2>1. d # c
    BY <1>1, <1>4 DEF OnlyFirstCalls
  <2>2. channels'[Ch].state = "CHALLENGING"
    <3>1. Ch \in DOMAIN channels /\ AfterReplacement(d, Opened(Ch)) \in Channel
      BY ChAssumption, OpenedType, AfterReplacementType DEF SInv, IInv, TypeOK
    <3> QED BY <1>4, <3>1 DEF JoinSecond, Seat, Channel
  <2> QED BY <1>4, <2>1, <2>2, ConsoledJoin
<1>5. ASSUME NEW d \in Conns, HandleResponse(d, Ch),
             AnswerAgain(d) \/ AutoRespond(d) \/ DebounceOver(d)
      PROVE  /\ channels'[Ch].state = "CHALLENGING" =>
                  \A s \in Slot : channels'[Ch].peers[s].conn # c
                    => Latest(channels[Ch].peers[s].conn, channels[Ch].peers[s])'
             /\ channels'[Ch].state = "ACTIVE" => GoodNews(down'[c], c)
  <2>1. c \in ConnsOf(channels[Ch])
    BY <1>5, ResponseShrinks DEF SInv, Shrinks
  <2>2. channels[Ch].state \in {"CHALLENGING", "ACTIVE"}
    <3>1. Ch \in DOMAIN channels
      BY ChAssumption DEF SInv, IInv, TypeOK
    <3>2. PICK s \in Slot : channels'[Ch] \in {Answered(channels[Ch], s), Activated(channels[Ch])}
      BY <3>1, <1>5 DEF HandleResponse, SlotsOf
    <3>3. \A t \in Slot : channels'[Ch].peers[t].conn = channels[Ch].peers[t].conn
      <4>0. channels[Ch] \in Channel
        BY <1>2
      <4>1. CASE channels'[Ch] = Answered(channels[Ch], s)
        BY <4>0, <4>1 DEF Answered, Channel, Peer, ChannelMember, NoPeer
      <4>2. CASE channels'[Ch] = Activated(channels[Ch])
        BY <4>0, <4>2 DEF Activated, Channel
      <4> QED BY <3>2, <4>1, <4>2
    <3>4. Members(channels[Ch]) = Slot
      BY <1>2, <3>3 DEF Members
    <3> QED BY <1>2, <3>4, ChAssumption
            DEF SInv, IInv, ChannelOK, StateOK, Channel, State
  <2>3. channels[Ch].state = "CHALLENGING" =>
          \A s \in Slot : channels[Ch].peers[s].conn # c
            => Latest(channels[Ch].peers[s].conn, channels[Ch].peers[s])
    BY <1>1, <2>1 DEF Consoled
  <2>4. /\ channels'[Ch].state = "CHALLENGING" =>
             \A s \in Slot : channels'[Ch].peers[s].conn # c
               => Latest(channels[Ch].peers[s].conn, channels[Ch].peers[s])'
        /\ channels'[Ch].state = "ACTIVE" =>
             channels[Ch].state = "ACTIVE" \/ GoodNews(down'[c], c)
    BY <1>1, <1>5, <2>1, <2>2, <2>3, ConsoledResponse
  <2> QED BY <1>1, <2>1, <2>4 DEF Consoled
<1>6. Members(channels'[Ch]) # {}
  BY <1>2 DEF Slot
<1> QED BY <1>3, <1>4, <1>5, <1>6, FullSteps

\* What makes it inductive.
ConsoleInv ==
  /\ SInv
  /\ Turns
  /\ \A c \in Conns : Registered(c) /\ Uncalled(c) /\ Debounced(c) /\ Consoled(c)

LEMMA ConsoleInit == SInit => ConsoleInv
<1> SUFFICES ASSUME SInit PROVE ConsoleInv
  OBVIOUS
<1>1. SInv /\ channels[Ch] = NoChannel
  BY SessionInit, ChAssumption DEF SInit
<1>2. \A c \in Conns : Registered(c) /\ Debounced(c)
  BY DEF SInit, Registered, Debounced
<1>3. \A c \in Conns : Uncalled(c)
  <2>1. << >> \in Seq(Unchallenging) /\ NoFrame \in Unchallenging
    BY DEF Unchallenging, NoFrame, Plain, Frame, Nonce
  <2> QED BY <2>1 DEF SInit, Uncalled, Holds
<1>4. ConnsOf(NoChannel) = {}
  BY DEF ConnsOf, Members, NoChannel, NoPeers, NoPeer
<1>5. Turns
  BY <1>1, <1>4 DEF SInit, Turns
<1>6. \A c \in Conns : Consoled(c)
  BY <1>1, <1>4 DEF Consoled
<1> QED BY <1>1, <1>2, <1>3, <1>5, <1>6 DEF ConsoleInv

LEMMA ConsoleStep ==
  ASSUME ~RandMayFail, OneAtATime, OneCall
  PROVE  ConsoleInv /\ VInv' /\ [SNext]_sessionVars => ConsoleInv'
<1> SUFFICES ASSUME ConsoleInv, VInv', [SNext]_sessionVars PROVE ConsoleInv'
  OBVIOUS
<1>1. SInv /\ SInv' /\ IInv' /\ Turns
  BY SessionKeeps DEF ConsoleInv, SInv
<1>2. Turns'
  BY <1>1, TurnsKept
<1>3. \A c \in Conns : Registered(c) /\ Uncalled(c) /\ Debounced(c) /\ Consoled(c)
  BY DEF ConsoleInv
<1>4. OnlyFirstCalls /\ \A d \in Conns : Join(d) => joins[d] = 0
  BY <1>1, <1>3, FirstCalls
<1>5. \A c \in Conns : Registered(c)' /\ Uncalled(c)' /\ Debounced(c)'
  BY <1>1, <1>2, <1>3, <1>4, RegisteredKept, UncalledKept, DebouncedKept
<1>6. \A c \in Conns : Consoled(c)'
  BY <1>1, <1>3, <1>4, <1>5, ConsoledKept
<1> QED BY <1>1, <1>2, <1>5, <1>6 DEF ConsoleInv

LEMMA ConsoleAlways ==
  ASSUME ~RandMayFail, OneAtATime, OneCall PROVE SSpec => []ConsoleInv
BY ConsoleInit, ConsoleStep, SessionServes, PTL DEF SSpec

\* Of clients that make one call each, one that takes the channel for active is
\* counted in or told, without exception: whoever replaced it, whichever timer or
\* rejection evicted it.
THEOREM SessionBelieversCountedIn ==
  ASSUME ~RandMayFail, OneAtATime, TwoIds, OneCall
  PROVE  SSpec /\ []Roomy => []BelieversAreCountedIn
<1>1. ConsoleInv /\ EvictionsSaid => BelieversAreCountedIn
  BY DEF ConsoleInv, Registered, EvictionsSaid, BelieversAreCountedIn
<1> QED BY <1>1, ConsoleAlways, SessionEvictionsSaid, PTL

\* Clients that make one call each and the server agree once nothing is under way
\* and nothing was missed: a member that has lost its peer and is in an ACTIVE
\* channel again has been shown the new one's answer, and that answer verifies.
THEOREM SessionQuietAgreement ==
  ASSUME ~RandMayFail, OneAtATime, TwoIds, OneCall
  PROVE  SSpec /\ []Roomy => []QuietAgreement
<1>1. ConsoleInv /\ QuietMembership => QuietAgreement
  <2> SUFFICES ASSUME ConsoleInv, QuietMembership, Quiet, NothingMissed,
                      NEW c \in Conns, phase[c] # "closed"
               PROVE  /\ c \in ConnsOf(channels[Ch]) /\ channels[Ch].state = "ACTIVE"
                           => known[c] = "active"
                      /\ known[c] = "active" => c \in ConnsOf(channels[Ch])
    BY DEF QuietAgreement
  <2>1. known[c] = "active" => c \in ConnsOf(channels[Ch])
    BY DEF QuietMembership
  <2>2. ASSUME c \in ConnsOf(channels[Ch]), channels[Ch].state = "ACTIVE"
        PROVE  known[c] = "active"
    <3>1. known[c] # "none" /\ known[c] \in {"none", "inactive", "active"}
      BY <2>2 DEF QuietMembership, ConsoleInv, SInv, ClientTypeOK
    <3>2. down[c] = << >>
      BY DEF Quiet
    <3>3. ~GoodNews(<< >>, c)
      BY DEF GoodNews
    <3>4. ~Bereft(c)
      <4>1. Consoled(c)
        BY DEF ConsoleInv
      <4>2. ~GoodNews(down[c], c)
        BY <3>2, <3>3
      <4>3. c \in ConnsOf(channels[Ch]) /\ Bereft(c) => GoodNews(down[c], c)
        BY <2>2, <4>1 DEF Consoled
      <4> QED BY <2>2, <4>2, <4>3
    <3> QED BY <3>1, <3>4 DEF Bereft
  <2> QED BY <2>1, <2>2
<1> QED BY <1>1, ConsoleAlways, SessionQuietMembership, PTL
=============================================================================
