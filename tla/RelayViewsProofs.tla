-------------------------- MODULE RelayViewsProofs --------------------------
(***************************************************************************)
(* Theorems about RelayChannels that relate the channel table to what the  *)
(* clients were told and to the timers that are running, for every set of  *)
(* connections and channels, provided rand.Read does not fail.             *)
(***************************************************************************)
EXTENDS RelayChannelsProofs

-----------------------------------------------------------------------------
(* Notices and the sockets they reach                                       *)

\* What a client sees of a channel after notices were sent on one.
LEMMA TellView ==
  ASSUME view \in ViewType, NEW ch \in ChIds, NEW notices, Tell(ch, notices)
  PROVE  \A d \in Conns, x \in ChIds :
           view'[d][x] = IF x = ch /\ d \in DOMAIN notices /\ Open(d)
                         THEN notices[d] ELSE view[d][x]
BY DEF Tell, ViewType

\* Only HandleConnect opens a socket.
LEMMA OpenStep ==
  ASSUME TypeOK, [Next]_vars, NEW d \in Conns, Open(d)'
  PROVE  Open(d) \/ RegisterConn(d)
<1>1. CASE handler'[d] = handler[d]
  BY <1>1 DEF Open
<1>2. ASSUME NEW c \in Conns, Serve(c), handler' # handler
      PROVE  Open(d) \/ RegisterConn(d)
  <2>1. CASE d = c
    <3>1. CASE RegisterConn(c) \/ Reading(c)
      BY <2>1, <3>1 DEF Reading, Open
    <3>2. CASE FinishLeave(c) \/ SendRejected(c)
      BY <2>1, <3>2 DEF FinishLeave, SendRejected, Open
    <3>3. CASE UnregisterConn(c)
      BY <2>1, <3>3 DEF UnregisterConn, Open, At, TypeOK
    <3> QED BY <1>2, <3>1, <3>2, <3>3
            DEF Serve, HandleJoin, JoinFirst, JoinSecond, JoinNonceFails,
                JoinSecondNonceFails, JoinAllowed, HandleResponse, HandleRelay,
                HandleLeave, HandleVerifyRejected, CloseConn
  <2>2. CASE d # c
    <3>1. handler'[d] = handler[d]
      BY <1>2, <2>2
      DEF Serve, TypeOK, RegisterConn, HandleJoin, JoinFirst, JoinSecond,
          JoinNonceFails, JoinSecondNonceFails, HandleResponse, HandleRelay,
          HandleLeave, LeaveMember, LeaveStranger, HandleVerifyRejected,
          FinishLeave, SendRejected, CloseConn, UnregisterConn
    <3> QED BY <1>1, <3>1
  <2> QED BY <2>1, <2>2
<1>3. CASE UNCHANGED handler
  BY <1>1, <1>3
<1> QED
  BY <1>2, <1>3
  DEF Next, FireChallenge, FireWait, FinishDelete, ChallengeTimeout,
      WaitPeerTimeout, DeferredDelete, vars

\* A member that still listens did so before the step.
LEMMA MembersOpen ==
  ASSUME IInv, [Next]_vars, NEW x \in ChIds, NEW d \in ConnsOf(channels[x])
  PROVE  d \in Conns /\ (Open(d)' => Open(d))
<1>1. d \in Conns /\ Indexed(d, x)
  BY ConnsOfType DEF IInv, TypeOK, MembersIndexed
<1>2. ~RegisterConn(d)
  BY <1>1 DEF Indexed, RegisterConn
<1> QED BY <1>1, <1>2, OpenStep DEF IInv

-----------------------------------------------------------------------------
(* Challenges and introductions: one channel at a time                      *)

CurrentAt(x) ==
  \A s \in Members(channels[x]) :
    LET m == channels[x].peers[s] IN
    channels[x].state = "CHALLENGING" /\ Open(m.conn) =>
      view[m.conn][x] \in {Challenge(m.nonce), Note("verify_rejected")}

VerifiedAt(x) ==
  \A s \in Members(channels[x]) :
    LET c == channels[x].peers[s].conn
        d == channels[x].peers[1 - s].conn
    IN
    channels[x].state = "ACTIVE" /\ Open(c) =>
      \/ view[c][x].type = "verify_peer" /\ view[c][x].peer = IdOf[d]
      \/ view[c][x].type = "verify_rejected"

HeardAt(x) == CurrentAt(x) /\ VerifiedAt(x)

\* A channel without members, or one that waits, promises nothing.
LEMMA HeardVacuous ==
  ASSUME NEW x \in ChIds,
         channels'[x].state \notin {"CHALLENGING", "ACTIVE"} \/ Members(channels'[x]) = {}
  PROVE  HeardAt(x)'
BY DEF HeardAt, CurrentAt, VerifiedAt

\* A channel that does not change keeps its promise, if its members hear
\* nothing new or that the peer was rejected.
LEMMA HeardQuiet ==
  ASSUME NEW x \in ChIds, HeardAt(x), channels'[x] = channels[x],
         \A d \in ConnsOf(channels[x]) :
           Open(d)' => Open(d) /\ view'[d][x] \in {view[d][x], Note("verify_rejected")}
  PROVE  HeardAt(x)'
<1>1. \A s \in Members(channels[x]) : channels[x].peers[s].conn \in ConnsOf(channels[x])
  BY DEF ConnsOf
<1>2. CurrentAt(x)'
  BY <1>1 DEF HeardAt, CurrentAt
<1>3. VerifiedAt(x)'
  BY <1>1, SMTT(30) DEF HeardAt, VerifiedAt, Note
<1> QED BY <1>2, <1>3 DEF HeardAt

\* NoChannel, and a channel that lost a member.
LEMMA LeftBehind ==
  /\ Members(NoChannel) = {}
  /\ \A k \in Channel, s \in Slot :
       Members(Without(k, s)) = {} \/ Without(k, s).state = "WAIT_PEER"
<1>1. Members(NoChannel) = {}
  BY DEF Members, NoChannel, NoPeers, NoPeer
<1>2. ASSUME NEW k \in Channel, NEW s \in Slot
      PROVE  Members(Without(k, s)) = {} \/ Without(k, s).state = "WAIT_PEER"
  BY <1>2 DEF Without, BackToWait, Members, NoPeer, Channel
<1> QED BY <1>1, <1>2
\* A step on one channel leaves what was heard of the others alone.
LEMMA HeardElsewhere ==
  ASSUME IInv, [Next]_vars, NEW ch \in ChIds, NEW k, NEW notices,
         channels' = [channels EXCEPT ![ch] = k],
         Tell(ch, notices) \/ UNCHANGED view,
         NEW x \in ChIds, x # ch, HeardAt(x)
  PROVE  HeardAt(x)'
<1>1. channels'[x] = channels[x]
  BY DEF IInv, TypeOK
<1>2. ConnsOf(channels[x]) \subseteq Conns
  BY ConnsOfType DEF IInv, TypeOK
<1>3. \A d \in Conns : view'[d][x] = view[d][x]
  BY TellView DEF IInv, TypeOK, ViewType
<1> QED BY <1>1, <1>2, <1>3, MembersOpen, HeardQuiet

\* A join: a first member waits, and two are challenged anew.
LEMMA HeardJoin ==
  ASSUME IInv, ~RandMayFail, [Next]_vars, NEW c \in Conns, NEW ch \in ChIds,
         HandleJoin(c, ch), \A x \in ChIds : HeardAt(x)
  PROVE  \A x \in ChIds : HeardAt(x)'
<1> DEFINE k == AfterReplacement(c, Opened(ch))
           old == Replaced(c, Opened(ch))
<1>1. CASE JoinFirst(c, ch)
  <2> DEFINE seated == BackToWait(k, Seat(k, 0, c, reads + 1).peers)
             told == [d \in old \cup {c} |->
                        IF d = c THEN Challenge(reads + 1) ELSE Note("out")]
  <2>1. channels' = [channels EXCEPT ![ch] = seated] /\ Tell(ch, told)
    BY <1>1 DEF JoinFirst
  <2>2. channels'[ch].state = "WAIT_PEER"
    BY <2>1 DEF BackToWait, IInv, TypeOK
  <2> HIDE DEF seated, told
  <2>3. HeardAt(ch)'
    BY <2>2, HeardVacuous
  <2>4. ASSUME NEW x \in ChIds, x # ch PROVE HeardAt(x)'
    BY <2>1, <2>4, HeardElsewhere
  <2> QED BY <2>3, <2>4
<1>2. CASE JoinSecond(c, ch)
  <2>1. PICK s \in Slot : s = FreeSlot(k) /\ 1 - s \in Slot /\ s # 1 - s
    BY DEF FreeSlot, Slot
  <2>2. k \in Channel /\ ChannelOK(Opened(ch)) /\ Members(k) = {1 - s}
    BY <1>2, <2>1, OpenedType, OpenedOK, AfterReplacementType DEF IInv, JoinSecond
  <2>3. PICK peer \in Conns : peer = k.peers[1 - s].conn /\ peer # c
    <3>1. k.peers[1 - s].conn \in ConnsOf(k)
      BY <2>2 DEF ConnsOf
    <3>2. IdOf[k.peers[1 - s].conn] # IdOf[c]
      BY <2>2, <3>1, OpenedType, AfterReplacementOK DEF IInv
    <3> QED BY <2>2, <3>1, <3>2, ConnsOfType
  <2> DEFINE both == Seat(Seat(k, s, c, reads + 1), 1 - s, peer, reads + 2)
             seated == [both EXCEPT !.state = "CHALLENGING"]
             told == [d \in old \cup {c, peer} |->
                        CASE d = c    -> Challenge(reads + 1)
                          [] d = peer -> Challenge(reads + 2)
                          [] OTHER    -> Note("out")]
  <2>4. channels' = [channels EXCEPT ![ch] = seated] /\ Tell(ch, told)
    BY <1>2, <2>1, <2>3 DEF JoinSecond
  <2>5. /\ channels'[ch].peers[s] = [conn |-> c, nonce |-> reads + 1, answered |-> FALSE]
        /\ channels'[ch].peers[1 - s] = [conn |-> peer, nonce |-> reads + 2, answered |-> FALSE]
        /\ channels'[ch].state = "CHALLENGING"
    BY <2>1, <2>2, <2>4 DEF Seat, Channel, IInv, TypeOK
  <2>6. /\ Open(c)' => view'[c][ch] = Challenge(reads + 1)
        /\ Open(peer)' => view'[peer][ch] = Challenge(reads + 2)
    <3>1. told[c] = Challenge(reads + 1) /\ told[peer] = Challenge(reads + 2)
          /\ c \in DOMAIN told /\ peer \in DOMAIN told
      BY <2>3
    <3> HIDE DEF told
    <3>2. /\ Open(c) => view'[c][ch] = Challenge(reads + 1)
          /\ Open(peer) => view'[peer][ch] = Challenge(reads + 2)
      BY <2>4, <3>1, TellView DEF IInv, TypeOK, ViewType
    <3>3. Open(c) /\ (Open(peer)' => Open(peer))
      <4>1. peer \in ConnsOf(channels[ch])
        <5>1. peer \in ConnsOf(k)
          BY <2>2, <2>3 DEF ConnsOf
        <5>2. Opened(ch) \in Channel /\ ConnsOf(Opened(ch)) \subseteq ConnsOf(channels[ch])
          BY OpenedType, OpenedOK DEF IInv
        <5>3. ConnsOf(k) \subseteq ConnsOf(Opened(ch))
          BY <2>2, <5>2, AfterReplacementOK
        <5> QED BY <5>1, <5>2, <5>3
      <4>2. Open(c)
        BY <1>2 DEF JoinSecond, JoinAllowed, Reading, Open
      <4> QED BY <4>1, <4>2, MembersOpen
    <3> QED BY <3>2, <3>3
  <2> HIDE DEF seated, told
  <2>7. HeardAt(ch)'
    <3>1. \A t \in Members(channels'[ch]) : t = s \/ t = 1 - s
      BY <2>1 DEF Slot, Members
    <3>2. CurrentAt(ch)'
      <4>1. ASSUME NEW t \in Members(channels'[ch]), NEW d \in Conns,
                   d = channels'[ch].peers[t].conn, Open(d)'
            PROVE  view'[d][ch] = Challenge(channels'[ch].peers[t].nonce)
        BY <2>5, <2>6, <3>1, <4>1
      <4>2. \A t \in Members(channels'[ch]) : channels'[ch].peers[t].conn \in Conns
        BY <2>5, <3>1
      <4> QED BY <4>1, <4>2 DEF CurrentAt, Open
    <3> QED BY <2>5, <3>2 DEF HeardAt, VerifiedAt
  <2>8. ASSUME NEW x \in ChIds, x # ch PROVE HeardAt(x)'
    BY <2>4, <2>8, HeardElsewhere
  <2> QED BY <2>7, <2>8
<1> QED BY <1>1, <1>2 DEF HandleJoin, JoinNonceFails, JoinSecondNonceFails

\* An answer is stored, or both members are introduced.
LEMMA HeardResponse ==
  ASSUME IInv, [Next]_vars, NEW c \in Conns, NEW ch \in ChIds,
         HandleResponse(c, ch), \A x \in ChIds : HeardAt(x)
  PROVE  \A x \in ChIds : HeardAt(x)'
<1> DEFINE k == channels[ch]
           told == [d \in ConnsOf(k) |-> VerifyPeer(k.peers[OtherSlot(k, d)])]
<1>1. PICK s \in SlotsOf(k, c) :
        \/ /\ channels' = [channels EXCEPT ![ch] = Answered(k, s)]
           /\ UNCHANGED view
        \/ /\ Completes(k, s)
           /\ channels' = [channels EXCEPT ![ch] = Activated(k)]
           /\ Tell(ch, told)
  BY DEF HandleResponse
<1>2. k \in Channel /\ s \in Slot /\ DistinctOK(k)
  BY DEF IInv, TypeOK, SlotsOf, ChannelOK
<1>3. \A d \in ConnsOf(k) : d \in Conns /\ (Open(d)' => Open(d))
  BY MembersOpen
<1>4. CASE channels' = [channels EXCEPT ![ch] = Answered(k, s)] /\ UNCHANGED view
  <2>1. \A t \in Slot : k.peers[t] \in Peer
    BY <1>2 DEF Channel
  <2>2. /\ channels'[ch].state = k.state
        /\ \A t \in Slot : /\ channels'[ch].peers[t].conn = k.peers[t].conn
                           /\ channels'[ch].peers[t].nonce = k.peers[t].nonce
    BY <1>2, <1>4, <2>1
    DEF Answered, Channel, Peer, ChannelMember, NoPeer, IInv, TypeOK
  <2>3. \A t \in Members(channels'[ch]) :
          t \in Slot /\ 1 - t \in Slot /\ t \in Members(k) /\ k.peers[t].conn \in ConnsOf(k)
    BY <2>2 DEF Members, ConnsOf, Slot
  <2>4. CurrentAt(ch)'
    BY <1>3, <1>4, <2>2, <2>3 DEF HeardAt, CurrentAt
  <2>5. VerifiedAt(ch)'
    BY <1>3, <1>4, <2>2, <2>3, ZenonT(30) DEF HeardAt, VerifiedAt
  <2>6. ASSUME NEW x \in ChIds, x # ch PROVE HeardAt(x)'
    BY <1>4, <2>6, HeardElsewhere
  <2> QED BY <2>4, <2>5, <2>6 DEF HeardAt
<1>5. CASE channels' = [channels EXCEPT ![ch] = Activated(k)] /\ Tell(ch, told)
  <2>1. /\ channels'[ch].state = "ACTIVE"
        /\ \A t \in Slot : channels'[ch].peers[t].conn = k.peers[t].conn
    BY <1>5 DEF Activated, Channel, IInv, TypeOK
  <2>2. ASSUME NEW t \in Members(channels'[ch]), NEW d \in Conns,
               d = k.peers[t].conn, Open(d)'
        PROVE  view'[d][ch] = VerifyPeer(k.peers[1 - t])
    <3>1. t \in Slot /\ 1 - t \in Slot /\ t \in Members(k) /\ d \in ConnsOf(k)
      BY <2>1, <2>2 DEF Members, ConnsOf, Slot
    <3>2. SlotOf(k, d) = t
      <4>1. \A u \in Members(k) : u # t => k.peers[u].conn # d
        BY <1>2, <2>2, <3>1 DEF DistinctOK
      <4>2. CASE t = 0
        BY <2>2, <4>2 DEF SlotOf
      <4>3. CASE t = 1
        BY <3>1, <4>1, <4>3, ConnsAssumption DEF SlotOf, Members, Slot
      <4> QED BY <3>1, <4>2, <4>3 DEF Slot
    <3>3. told[d] = VerifyPeer(k.peers[1 - t]) /\ d \in DOMAIN told
      BY <3>1, <3>2 DEF OtherSlot
    <3>4. Open(d)
      BY <1>3, <2>2, <3>1
    <3> HIDE DEF told
    <3> QED BY <1>5, <3>3, <3>4, TellView DEF IInv, TypeOK, ViewType
  <2>3. HeardAt(ch)'
    <3>1. \A t \in Members(channels'[ch]) :
            /\ t \in Slot /\ 1 - t \in Slot /\ k.peers[t].conn \in Conns
            /\ channels'[ch].peers[t].conn = k.peers[t].conn
            /\ channels'[ch].peers[1 - t].conn = k.peers[1 - t].conn
      BY <1>3, <2>1 DEF Members, ConnsOf, Slot
    <3>2. VerifiedAt(ch)'
      <4>1. ASSUME NEW t \in Members(channels'[ch]), NEW d \in Conns,
                   d = k.peers[t].conn, Open(d)'
            PROVE  /\ view'[d][ch].type = "verify_peer"
                   /\ view'[d][ch].peer = IdOf[k.peers[1 - t].conn]
        <5>1. view'[d][ch] = VerifyPeer(k.peers[1 - t])
          BY <2>2, <4>1
        <5> HIDE DEF k
        <5> QED BY ONLY <5>1 DEF VerifyPeer
      <4> HIDE DEF k
      <4> QED BY <3>1, <4>1 DEF VerifiedAt, Open
    <3> QED BY <2>1, <3>2 DEF HeardAt, CurrentAt
  <2> HIDE DEF told
  <2>4. ASSUME NEW x \in ChIds, x # ch PROVE HeardAt(x)'
    BY <1>5, <2>4, HeardElsewhere
  <2> QED BY <2>3, <2>4
<1> QED BY <1>1, <1>4, <1>5
\* A step that empties a channel, makes it wait or leaves it alone, and tells
\* no member anything in the last case.
LEMMA HeardOneChannel ==
  ASSUME IInv, [Next]_vars, NEW ch \in ChIds, NEW k, NEW notices,
         channels' = [channels EXCEPT ![ch] = k],
         \/ Tell(ch, notices)
         \/ UNCHANGED view,
         \/ k.state \notin {"CHALLENGING", "ACTIVE"}
         \/ Members(k) = {}
         \/ k = channels[ch] /\ (UNCHANGED view \/ ConnsOf(k) \cap DOMAIN notices = {}),
         \A x \in ChIds : HeardAt(x)
  PROVE  \A x \in ChIds : HeardAt(x)'
<1>1. ASSUME NEW x \in ChIds, x # ch PROVE HeardAt(x)'
  BY <1>1, HeardElsewhere
<1>2. channels'[ch] = k
  BY DEF IInv, TypeOK
<1>3. CASE k.state \notin {"CHALLENGING", "ACTIVE"} \/ Members(k) = {}
  BY <1>1, <1>2, <1>3, HeardVacuous
<1>4. CASE k = channels[ch] /\ (UNCHANGED view \/ ConnsOf(k) \cap DOMAIN notices = {})
  <2>1. \A d \in ConnsOf(channels[ch]) : d \in Conns
    BY ConnsOfType DEF IInv, TypeOK
  <2>2. \A d \in ConnsOf(channels[ch]) : view'[d][ch] = view[d][ch]
    <3>1. CASE UNCHANGED view
      BY <3>1
    <3>2. CASE Tell(ch, notices) /\ ConnsOf(k) \cap DOMAIN notices = {}
      BY <1>4, <2>1, <3>2, TellView DEF IInv, TypeOK, ViewType
    <3> QED BY <1>4, <3>1, <3>2
  <2>3. HeardAt(ch)'
    BY <1>2, <1>4, <2>1, <2>2, MembersOpen, HeardQuiet
  <2> QED BY <1>1, <2>3
<1> QED BY <1>3, <1>4

\* A leave, and the deletion it leaves for later.
LEMMA HeardLeave ==
  ASSUME IInv, [Next]_vars, NEW c \in Conns, NEW ch \in ChIds,
         HandleLeave(c, ch), \A x \in ChIds : HeardAt(x)
  PROVE  \A x \in ChIds : HeardAt(x)'
<1>1. CASE LeaveMember(c, ch)
  <2>1. PICK s \in SlotsOf(channels[ch], c) :
          /\ channels' = [channels EXCEPT ![ch] = Without(channels[ch], s)]
          /\ Tell(ch, [d \in ConnsOf(Without(channels[ch], s)) \cup {c} |->
                         Note(IF d = c THEN "out" ELSE "peer_left")])
    BY <1>1 DEF LeaveMember
  <2>2. Members(Without(channels[ch], s)) = {} \/ Without(channels[ch], s).state = "WAIT_PEER"
    BY LeftBehind DEF SlotsOf, IInv, TypeOK
  <2> QED BY <2>1, <2>2, HeardOneChannel
<1>2. CASE LeaveStranger(c, ch)
  <2> DEFINE told == [d \in {c} |-> Note("out")]
  <2>1. channels' = [channels EXCEPT ![ch] = channels[ch]] /\ Tell(ch, told)
    BY <1>2 DEF LeaveStranger, IInv, TypeOK
  <2>2. ConnsOf(channels[ch]) \cap DOMAIN told = {}
    BY <1>2 DEF LeaveStranger, ConnsOf, SlotsOf, Members
  <2> HIDE DEF told
  <2> QED BY <2>1, <2>2, HeardOneChannel
<1> QED BY <1>1, <1>2 DEF HandleLeave

\* The steps that delete a channel, or find that they need not.
LEMMA HeardDelete ==
  ASSUME IInv, [Next]_vars,
         \/ \E c \in Conns : FinishLeave(c)
         \/ \E d \in deletes : DeferredDelete(d),
         \A x \in ChIds : HeardAt(x)
  PROVE  \A x \in ChIds : HeardAt(x)'
<1>1. PICK ch \in ChIds : /\ \/ channels' = [channels EXCEPT ![ch] = NoChannel]
                             \/ channels' = [channels EXCEPT ![ch] = channels[ch]]
                          /\ UNCHANGED view
  <2>1. ASSUME NEW c \in Conns, FinishLeave(c)
        PROVE  /\ handler[c].ch \in ChIds /\ UNCHANGED view
               /\ \/ channels' = [channels EXCEPT ![handler[c].ch] = NoChannel]
                  \/ channels' = channels
    BY <2>1 DEF FinishLeave, DeleteIfSame, IInv, TypeOK, Handler
  <2>2. CASE \E d \in deletes : DeferredDelete(d)
    BY <2>2 DEF DeferredDelete, DeleteIfSame, IInv, TypeOK, Delete
  <2>3. \A x \in ChIds : channels = [channels EXCEPT ![x] = channels[x]]
    BY DEF IInv, TypeOK
  <2> QED BY <2>1, <2>2, <2>3
<1> QED BY <1>1, LeftBehind, HeardOneChannel

\* A rejection, before its notice.
LEMMA HeardVerifyRejected ==
  ASSUME IInv, [Next]_vars, NEW c \in Conns, NEW ch \in ChIds,
         HandleVerifyRejected(c, ch), \A x \in ChIds : HeardAt(x)
  PROVE  \A x \in ChIds : HeardAt(x)'
<1>1. PICK notices : channels' = [channels EXCEPT ![ch] = NoChannel] /\ Tell(ch, notices)
  BY DEF HandleVerifyRejected
<1> QED BY <1>1, LeftBehind, HeardOneChannel

\* The notice of a rejection.
LEMMA HeardSendRejected ==
  ASSUME IInv, [Next]_vars, NEW c \in Conns, SendRejected(c),
         \A x \in ChIds : HeardAt(x)
  PROVE  \A x \in ChIds : HeardAt(x)'
<1> DEFINE told == [d \in {handler[c].to} |-> Note("verify_rejected")]
<1>1. Tell(handler[c].ch, told) /\ UNCHANGED channels /\ handler[c].ch \in ChIds
  BY DEF SendRejected, IInv, TypeOK, Handler
<1>2. \A d \in Conns, x \in ChIds :
        view'[d][x] \in {view[d][x], Note("verify_rejected")}
  <2>1. \A d \in DOMAIN told : told[d] = Note("verify_rejected")
    OBVIOUS
  <2> HIDE DEF told
  <2> QED BY <1>1, <2>1, TellView DEF IInv, TypeOK, ViewType
<1>3. \A x \in ChIds : ConnsOf(channels[x]) \subseteq Conns
  BY ConnsOfType DEF IInv, TypeOK
<1> QED BY <1>1, <1>2, <1>3, MembersOpen, HeardQuiet

\* The beginning of a connection, its end, and a data message.
LEMMA HeardConn ==
  ASSUME IInv, [Next]_vars, NEW c \in Conns,
         \/ RegisterConn(c) \/ CloseConn(c)
         \/ \E ch \in ChIds : HandleRelay(c, ch),
         \A x \in ChIds : HeardAt(x)
  PROVE  \A x \in ChIds : HeardAt(x)'
<1>1. UNCHANGED channels
  BY DEF RegisterConn, CloseConn, HandleRelay
<1>2. SUFFICES ASSUME NEW x \in ChIds, NEW d \in ConnsOf(channels[x]), Open(d)'
               PROVE  Open(d) /\ view'[d][x] = view[d][x]
  BY <1>1, HeardQuiet
<1>3. d \in Conns /\ Indexed(d, x)
  BY ConnsOfType DEF IInv, TypeOK, MembersIndexed
<1>4. handler[d].at # "new"
  BY <1>3 DEF Indexed
<1>5. CASE d = c /\ CloseConn(c)
  BY <1>2, <1>3, <1>5 DEF CloseConn, Open, IInv, TypeOK
<1>6. CASE ~(d = c /\ CloseConn(c))
  BY <1>2, <1>3, <1>4, <1>6
  DEF RegisterConn, CloseConn, HandleRelay, Open, IInv, TypeOK
<1> QED BY <1>5, <1>6

\* A disconnection.
LEMMA HeardUnregister ==
  ASSUME IInv, [Next]_vars, NEW c \in Conns, UnregisterConn(c),
         \A x \in ChIds : HeardAt(x)
  PROVE  \A x \in ChIds : HeardAt(x)'
<1> DEFINE cut == {ch \in handler[c].chs : SlotsOf(channels[ch], c) # {}}
<1>1. \A x \in ChIds :
        /\ channels'[x] = IF x \in cut THEN Cut(c, x) ELSE channels[x]
        /\ \A d \in Conns : x \notin cut => view'[d][x] = view[d][x]
  BY DEF UnregisterConn
<1>2. ASSUME NEW x \in ChIds, x \in cut PROVE HeardAt(x)'
  <2>1. SlotOf(channels[x], c) \in Slot /\ channels[x] \in Channel
    BY DEF SlotOf, Slot, IInv, TypeOK
  <2>2. channels'[x] \in {NoChannel, Without(channels[x], SlotOf(channels[x], c))}
    BY <1>1, <1>2 DEF Cut
  <2> QED BY <2>1, <2>2, LeftBehind, HeardVacuous
<1>3. ASSUME NEW x \in ChIds, x \notin cut PROVE HeardAt(x)'
  <2>1. ConnsOf(channels[x]) \subseteq Conns
    BY ConnsOfType DEF IInv, TypeOK
  <2> QED BY <1>1, <1>3, <2>1, MembersOpen, HeardQuiet
<1> QED BY <1>2, <1>3

\* The timers.
LEMMA HeardTimers ==
  ASSUME IInv, [Next]_vars, FireChallenge \/ FireWait,
         \A x \in ChIds : HeardAt(x)
  PROVE  \A x \in ChIds : HeardAt(x)'
<1>1. CASE UNCHANGED <<channels, view>>
  <2>1. \A x \in ChIds : ConnsOf(channels[x]) \subseteq Conns
    BY ConnsOfType DEF IInv, TypeOK
  <2> QED BY <1>1, <2>1, MembersOpen, HeardQuiet
<1>2. ASSUME NEW c \in Conns, NEW ch \in ChIds, NEW s \in SlotsOf(channels[ch], c),
             Expire(c, ch, s)
      PROVE  \A x \in ChIds : HeardAt(x)'
  <2>1. channels' = [channels EXCEPT ![ch] = Without(channels[ch], s)]
        /\ Tell(ch, [d \in {c} |-> Note("out")])
    BY <1>2 DEF Expire
  <2>2. Members(Without(channels[ch], s)) = {} \/ Without(channels[ch], s).state = "WAIT_PEER"
    BY LeftBehind DEF SlotsOf, IInv, TypeOK
  <2> QED BY <2>1, <2>2, HeardOneChannel
<1>3. ASSUME NEW t \in waitTimers, WaitPeerTimeout(t), ~UNCHANGED <<channels, view>>
      PROVE  \A x \in ChIds : HeardAt(x)'
  <2> DEFINE k == [channels[t.ch] EXCEPT !.peers = NoPeers]
  <2>1. t.ch \in ChIds /\ channels[t.ch] \in Channel
    BY DEF IInv, TypeOK, WaitTimer
  <2>2. PICK notices : channels' = [channels EXCEPT ![t.ch] = k] /\ Tell(t.ch, notices)
    BY <1>3, <2>1 DEF WaitPeerTimeout, IInv, TypeOK
  <2>3. Members(k) = {}
    BY <2>1 DEF Members, NoPeers, NoPeer, Channel
  <2> HIDE DEF k
  <2> QED BY <2>1, <2>2, <2>3, HeardOneChannel
<1> QED BY <1>1, <1>2, <1>3
        DEF FireChallenge, FireWait, ChallengeTimeout

\* The initial state, and every step.
LEMMA HeardInit == Init => \A x \in ChIds : HeardAt(x)
BY DEF Init, HeardAt, CurrentAt, VerifiedAt, Members, NoChannel, NoPeers, NoPeer

LEMMA HeardStep ==
  ~RandMayFail /\ IInv /\ [Next]_vars /\ (\A x \in ChIds : HeardAt(x))
    => \A x \in ChIds : HeardAt(x)'
<1> SUFFICES ASSUME ~RandMayFail, IInv, [Next]_vars, \A x \in ChIds : HeardAt(x)
             PROVE  \A x \in ChIds : HeardAt(x)'
  OBVIOUS
<1>1. ASSUME NEW c \in Conns, Serve(c) PROVE \A x \in ChIds : HeardAt(x)'
  BY <1>1, HeardJoin, HeardResponse, HeardLeave, HeardDelete, HeardVerifyRejected,
     HeardSendRejected, HeardConn, HeardUnregister
  DEF Serve
<1>2. CASE FireChallenge \/ FireWait
  BY <1>2, HeardTimers
<1>3. CASE FinishDelete
  BY <1>3, HeardDelete DEF FinishDelete
<1>4. CASE UNCHANGED vars
  <2>1. UNCHANGED <<channels, view, handler>>
    BY <1>4 DEF vars
  <2> QED BY <2>1 DEF HeardAt, CurrentAt, VerifiedAt, Open
<1> QED BY <1>1, <1>2, <1>3, <1>4 DEF Next

-----------------------------------------------------------------------------
(* Timers and deletions: one channel at a time                              *)

\* The goroutine that emptied object o of channel x has yet to delete it.
Deleting(x, o) ==
  \/ [ch |-> x, obj |-> o] \in deletes
  \/ \E c \in Conns : handler[c] = [at |-> "leaving", ch |-> x, obj |-> o]

TimedAt(x) ==
  LET k == channels[x] IN
  k.state = "WAIT_PEER" =>
    \/ [ch |-> x, gen |-> k.waitGen, obj |-> k.obj] \in waitTimers
    \/ Deleting(x, k.obj)

EmptyAt(x) ==
  LET k == channels[x] IN
  Mapped(x) /\ Members(k) = {} => Deleting(x, k.obj)

GuardedAt(x) == TimedAt(x) /\ EmptyAt(x)

\* What a step does to a channel that needs no earlier guard: it is unmapped,
\* or has a member and a timer if it waits, or is about to be deleted.
LEMMA GuardedFresh ==
  ASSUME NEW x \in ChIds,
         \/ channels'[x] = NoChannel
         \/ /\ Members(channels'[x]) # {}
            /\ \/ channels'[x].state # "WAIT_PEER"
               \/ WaitTimerOf(x, channels'[x]) \subseteq waitTimers'
         \/ Deleting(x, channels[x].obj)'
  PROVE  GuardedAt(x)'
BY LeftBehind DEF GuardedAt, TimedAt, EmptyAt, Mapped, NoChannel, WaitTimerOf, Deleting

\* A channel keeps its guard with its state, its generation and its members.
LEMMA GuardedSame ==
  ASSUME NEW x \in ChIds, GuardedAt(x),
         /\ channels'[x].state = channels[x].state
         /\ channels'[x].waitGen = channels[x].waitGen
         /\ channels'[x].obj = channels[x].obj
         /\ Members(channels'[x]) = {} => Members(channels[x]) = {},
         [ch |-> x, gen |-> channels[x].waitGen, obj |-> channels[x].obj] \in waitTimers
           => [ch |-> x, gen |-> channels[x].waitGen, obj |-> channels[x].obj] \in waitTimers',
         \E o : o = channels[x].obj /\ (Deleting(x, o) => Deleting(x, o)')
  PROVE  GuardedAt(x)'
BY DEF GuardedAt, TimedAt, EmptyAt, Mapped, Deleting

\* Nothing that is about to delete a channel forgets it.
LEMMA DeletingKept ==
  ASSUME deletes \subseteq deletes',
         \A c \in Conns : handler[c].at = "leaving" => handler'[c] = handler[c]
  PROVE  \A x, o : Deleting(x, o) => Deleting(x, o)'
BY DEF Deleting

\* A step on one channel that starts timers and stops none.
LEMMA GuardedOneChannel ==
  ASSUME IInv, NEW ch \in ChIds, NEW k,
         channels' = [channels EXCEPT ![ch] = k],
         waitTimers \subseteq waitTimers', deletes \subseteq deletes',
         \A c \in Conns : handler[c].at = "leaving" => handler'[c] = handler[c],
         \/ k = NoChannel
         \/ k = channels[ch]
         \/ /\ Members(k) # {}
            /\ k.state # "WAIT_PEER" \/ WaitTimerOf(ch, k) \subseteq waitTimers'
         \/ Deleting(ch, k.obj)',
         \A x \in ChIds : GuardedAt(x)
  PROVE  \A x \in ChIds : GuardedAt(x)'
<1>1. ASSUME NEW x \in ChIds, channels'[x] = channels[x] PROVE GuardedAt(x)'
  BY <1>1, DeletingKept, GuardedSame
<1>2. /\ channels'[ch] = k
      /\ \A x \in ChIds : x # ch => channels'[x] = channels[x]
  BY DEF IInv, TypeOK
<1>3. GuardedAt(ch)'
  <2>1. CASE Deleting(ch, k.obj)'
    BY <1>2, <2>1, GuardedFresh DEF Deleting
  <2>2. CASE ~Deleting(ch, k.obj)'
    BY <1>1, <1>2, <2>2, GuardedFresh
  <2> QED BY <2>1, <2>2
<1> QED BY <1>1, <1>2, <1>3

\* What Without keeps.
LEMMA WithoutKeeps ==
  \A k \in Channel, s \in Slot : Without(k, s).obj = k.obj
BY DEF Without, BackToWait, Channel

\* A join starts the timer of the channel that waits, or completes a pair.
LEMMA GuardedJoin ==
  ASSUME IInv, IInv', ~RandMayFail, NEW c \in Conns, NEW ch \in ChIds,
         HandleJoin(c, ch), \A x \in ChIds : GuardedAt(x)
  PROVE  \A x \in ChIds : GuardedAt(x)'
<1> DEFINE k == AfterReplacement(c, Opened(ch))
<1>0. k \in Channel /\ reads + 1 \in Nonce
  BY OpenedType, AfterReplacementType DEF IInv, TypeOK, Nonce
<1>1. CASE JoinFirst(c, ch)
  <2> DEFINE seated == BackToWait(k, Seat(k, 0, c, reads + 1).peers)
  <2>1. /\ channels' = [channels EXCEPT ![ch] = seated]
        /\ waitTimers' = waitTimers \cup WaitTimerOf(ch, seated)
        /\ UNCHANGED <<handler, deletes>>
        /\ Members(k) = {}
    BY <1>1 DEF JoinFirst
  <2>2. ConnsOf(seated) = {c}
    BY <1>0, <2>1, FirstOK
  <2>3. Members(seated) # {}
    BY <2>2 DEF ConnsOf
  <2> HIDE DEF seated
  <2> QED BY <2>1, <2>3, GuardedOneChannel
<1>2. CASE JoinSecond(c, ch)
  <2>1. PICK seated : /\ channels' = [channels EXCEPT ![ch] = seated]
                      /\ seated.state = "CHALLENGING"
                      /\ UNCHANGED <<handler, waitTimers, deletes>>
    BY <1>0, <1>2 DEF JoinSecond, Seat, Channel
  <2>2. Members(seated) = Slot
    <3>1. seated = channels'[ch]
      BY <2>1 DEF IInv, TypeOK
    <3> QED BY <2>1, <3>1 DEF IInv, ChannelOK, StateOK
  <2> QED BY <2>1, <2>2, GuardedOneChannel DEF Slot
<1> QED BY <1>1, <1>2 DEF HandleJoin, JoinNonceFails, JoinSecondNonceFails

\* An answer changes no timer.
LEMMA GuardedResponse ==
  ASSUME IInv, IInv', ~RandMayFail, NEW c \in Conns, NEW ch \in ChIds,
         HandleResponse(c, ch), \A x \in ChIds : GuardedAt(x)
  PROVE  \A x \in ChIds : GuardedAt(x)'
<1> DEFINE k == channels[ch]
<1>1. PICK s \in SlotsOf(k, c) :
        \/ channels' = [channels EXCEPT ![ch] = Answered(k, s)]
        \/ channels' = [channels EXCEPT ![ch] = Activated(k)]
  BY DEF HandleResponse
<1>2. UNCHANGED <<handler, waitTimers, deletes>>
  BY DEF HandleResponse
<1>3. k \in Channel /\ s \in Slot
  BY DEF IInv, TypeOK, SlotsOf
<1>4. \A x, o : Deleting(x, o) => Deleting(x, o)'
  BY <1>2, DeletingKept
<1>5. ASSUME NEW x \in ChIds, x # ch PROVE GuardedAt(x)'
  <2>1. channels'[x] = channels[x]
    BY <1>1, <1>5 DEF IInv, TypeOK
  <2> QED BY <1>2, <1>4, <2>1, GuardedSame
<1>6. CASE channels' = [channels EXCEPT ![ch] = Answered(k, s)]
  <2>1. \A t \in Slot : k.peers[t] \in Peer
    BY <1>3 DEF Channel
  <2>2. /\ channels'[ch].state = k.state /\ channels'[ch].waitGen = k.waitGen
        /\ channels'[ch].obj = k.obj
        /\ \A t \in Slot : channels'[ch].peers[t].conn = k.peers[t].conn
    BY <1>3, <1>6, <2>1
    DEF Answered, Channel, Peer, ChannelMember, NoPeer, IInv, TypeOK
  <2>3. Members(channels'[ch]) = Members(k)
    BY <2>2 DEF Members
  <2>4. GuardedAt(ch)'
    BY <1>2, <1>4, <2>2, <2>3, GuardedSame
  <2> QED BY <1>5, <2>4
<1>7. CASE channels' = [channels EXCEPT ![ch] = Activated(k)]
  <2>1. channels'[ch].state = "ACTIVE"
    BY <1>3, <1>7 DEF Activated, Channel, IInv, TypeOK
  <2>2. Members(channels'[ch]) = Slot
    BY <2>1 DEF IInv, ChannelOK, StateOK
  <2>3. GuardedAt(ch)'
    BY <2>1, <2>2, GuardedFresh DEF Slot
  <2> QED BY <1>5, <2>3
<1> QED BY <1>1, <1>6, <1>7

\* A leave starts the timer of the member that remains, or goes on to delete.
LEMMA GuardedLeave ==
  ASSUME IInv, NEW c \in Conns, NEW ch \in ChIds,
         HandleLeave(c, ch), \A x \in ChIds : GuardedAt(x)
  PROVE  \A x \in ChIds : GuardedAt(x)'
<1>0. handler[c].at = "reading" /\ deletes' = deletes
  BY DEF HandleLeave, Reading
<1>1. CASE LeaveMember(c, ch)
  <2>1. PICK s, k :
          /\ s \in SlotsOf(channels[ch], c)
          /\ k = Without(channels[ch], s)
          /\ channels' = [channels EXCEPT ![ch] = k]
          /\ waitTimers' = waitTimers \cup WaitTimerOf(ch, k)
          /\ \/ /\ ConnsOf(k) = {}
                /\ handler' = [handler EXCEPT ![c] =
                     [at |-> "leaving", ch |-> ch, obj |-> k.obj]]
             \/ ConnsOf(k) # {} /\ UNCHANGED handler
    BY <1>1 DEF LeaveMember
  <2>2. CASE ConnsOf(k) = {}
    <3>1. handler'[c] = [at |-> "leaving", ch |-> ch, obj |-> k.obj]
      BY <2>1, <2>2 DEF IInv, TypeOK
    <3>2. Deleting(ch, k.obj)'
      BY <3>1 DEF Deleting
    <3>3. \A d \in Conns : handler[d].at = "leaving" => handler'[d] = handler[d]
      BY <1>0, <2>1 DEF IInv, TypeOK
    <3> QED BY <1>0, <2>1, <3>2, <3>3, GuardedOneChannel
  <2>3. CASE ConnsOf(k) # {}
    <3>1. Members(k) # {}
      BY <2>3 DEF ConnsOf
    <3> QED BY <1>0, <2>1, <2>3, <3>1, GuardedOneChannel
  <2> QED BY <2>2, <2>3
<1>2. CASE LeaveStranger(c, ch)
  <2>1. channels' = [channels EXCEPT ![ch] = channels[ch]] /\ UNCHANGED <<handler, waitTimers>>
    BY <1>2 DEF LeaveStranger, IInv, TypeOK
  <2> QED BY <1>0, <2>1, GuardedOneChannel
<1> QED BY <1>1, <1>2 DEF HandleLeave

\* The deletions: whoever deletes an object deletes that one or finds another.
LEMMA GuardedFinishLeave ==
  ASSUME IInv, NEW c \in Conns, FinishLeave(c), \A x \in ChIds : GuardedAt(x)
  PROVE  \A x \in ChIds : GuardedAt(x)'
<1> DEFINE h == handler[c]
<1>1. /\ UNCHANGED <<waitTimers, deletes>>
      /\ \A d \in Conns : d # c => handler'[d] = handler[d]
      /\ \A x \in ChIds : \/ x = h.ch /\ channels[x].obj = h.obj /\ channels'[x] = NoChannel
                          \/ /\ channels'[x] = channels[x]
                             /\ x # h.ch \/ channels[x].obj # h.obj
  BY DEF FinishLeave, DeleteIfSame, IInv, TypeOK
<1>2. ASSUME NEW x \in ChIds, channels'[x] = channels[x],
             x # h.ch \/ channels[x].obj # h.obj
      PROVE  GuardedAt(x)'
  <2>1. PICK o : o = channels[x].obj
    OBVIOUS
  <2>2. Deleting(x, o) => Deleting(x, o)'
    BY <1>1, <1>2, <2>1 DEF Deleting
  <2> QED BY <1>1, <1>2, <2>1, <2>2, GuardedSame
<1> QED BY <1>1, <1>2, GuardedFresh

LEMMA GuardedDeferredDelete ==
  ASSUME IInv, NEW d \in deletes, DeferredDelete(d), \A x \in ChIds : GuardedAt(x)
  PROVE  \A x \in ChIds : GuardedAt(x)'
<1>1. /\ UNCHANGED <<waitTimers, handler>> /\ deletes' = deletes \ {d}
      /\ \A x \in ChIds : \/ x = d.ch /\ channels[x].obj = d.obj /\ channels'[x] = NoChannel
                          \/ /\ channels'[x] = channels[x]
                             /\ x # d.ch \/ channels[x].obj # d.obj
  BY DEF DeferredDelete, DeleteIfSame, IInv, TypeOK
<1>2. ASSUME NEW x \in ChIds, channels'[x] = channels[x],
             x # d.ch \/ channels[x].obj # d.obj
      PROVE  GuardedAt(x)'
  <2>1. PICK o : o = channels[x].obj
    OBVIOUS
  <2>2. Deleting(x, o) => Deleting(x, o)'
    BY <1>1, <1>2, <2>1 DEF Deleting
  <2> QED BY <1>1, <1>2, <2>1, <2>2, GuardedSame
<1> QED BY <1>1, <1>2, GuardedFresh

\* A rejection deletes the channel under the locks.
LEMMA GuardedVerifyRejected ==
  ASSUME IInv, NEW c \in Conns, NEW ch \in ChIds,
         HandleVerifyRejected(c, ch), \A x \in ChIds : GuardedAt(x)
  PROVE  \A x \in ChIds : GuardedAt(x)'
<1>1. /\ channels' = [channels EXCEPT ![ch] = NoChannel]
      /\ UNCHANGED <<waitTimers, deletes>> /\ handler[c].at = "reading"
  BY DEF HandleVerifyRejected, Reading
<1>2. \A d \in Conns : handler[d].at = "leaving" => handler'[d] = handler[d]
  BY <1>1 DEF HandleVerifyRejected, IInv, TypeOK
<1> QED BY <1>1, <1>2, GuardedOneChannel

\* The steps of a goroutine that touch neither a channel nor a timer.
LEMMA GuardedConn ==
  ASSUME IInv, NEW c \in Conns,
         \/ RegisterConn(c) \/ CloseConn(c) \/ SendRejected(c)
         \/ \E ch \in ChIds : HandleRelay(c, ch),
         \A x \in ChIds : GuardedAt(x)
  PROVE  \A x \in ChIds : GuardedAt(x)'
<1>1. UNCHANGED <<channels, waitTimers, deletes>>
  BY DEF RegisterConn, CloseConn, SendRejected, HandleRelay
<1>2. \A d \in Conns : handler[d].at = "leaving" => handler'[d] = handler[d]
  BY DEF RegisterConn, CloseConn, SendRejected, HandleRelay, Reading, IInv, TypeOK
<1> QED BY <1>1, <1>2, DeletingKept, GuardedSame

\* A disconnection deletes what it empties and starts the other timers.
LEMMA GuardedUnregister ==
  ASSUME IInv, NEW c \in Conns, UnregisterConn(c), \A x \in ChIds : GuardedAt(x)
  PROVE  \A x \in ChIds : GuardedAt(x)'
<1> DEFINE cut == {ch \in handler[c].chs : SlotsOf(channels[ch], c) # {}}
<1>1. /\ \A x \in ChIds : channels'[x] = IF x \in cut THEN Cut(c, x) ELSE channels[x]
      /\ waitTimers \subseteq waitTimers' /\ deletes' = deletes
      /\ \A x \in cut : WaitTimerOf(x, Cut(c, x)) \subseteq waitTimers'
  BY DEF UnregisterConn
<1>2. \A d \in Conns : handler[d].at = "leaving" => handler'[d] = handler[d]
  BY DEF UnregisterConn, IInv, TypeOK
<1>3. ASSUME NEW x \in ChIds, x \in cut PROVE GuardedAt(x)'
  <2>1. Cut(c, x) = NoChannel \/ Members(Cut(c, x)) # {}
    BY <1>3 DEF Cut
  <2> QED BY <1>1, <1>3, <2>1, GuardedFresh
<1>4. ASSUME NEW x \in ChIds, x \notin cut PROVE GuardedAt(x)'
  <2>1. channels'[x] = channels[x]
    BY <1>1, <1>4
  <2> QED BY <1>1, <1>2, <2>1, DeletingKept, GuardedSame
<1> QED BY <1>3, <1>4

\* An eviction starts the timer of the member that remains, or goes on to
\* delete; a timer of an old generation guards nothing.
LEMMA GuardedTimers ==
  ASSUME IInv, FireChallenge \/ FireWait, \A x \in ChIds : GuardedAt(x)
  PROVE  \A x \in ChIds : GuardedAt(x)'
<1>1. ASSUME NEW c \in Conns, NEW ch \in ChIds, ChallengeTimeout(c, ch)
      PROVE  \A x \in ChIds : GuardedAt(x)'
  <2>1. CASE UNCHANGED <<channels, waitTimers, deletes>>
    BY <1>1, <2>1, DeletingKept, GuardedSame DEF ChallengeTimeout
  <2>2. ASSUME NEW s \in SlotsOf(channels[ch], c), Expire(c, ch, s)
        PROVE  \A x \in ChIds : GuardedAt(x)'
    <3>1. PICK k : k = Without(channels[ch], s)
      OBVIOUS
    <3>2. k.obj = channels[ch].obj
      BY <3>1, WithoutKeeps DEF SlotsOf, IInv, TypeOK
    <3>3. /\ channels' = [channels EXCEPT ![ch] = k]
          /\ waitTimers' = waitTimers \cup WaitTimerOf(ch, k)
          /\ deletes \subseteq deletes' /\ UNCHANGED handler
          /\ Members(k) = {} => [ch |-> ch, obj |-> k.obj] \in deletes'
      BY <1>1, <2>2, <3>1, <3>2 DEF Expire, ChallengeTimeout
    <3>4. Members(k) = {} => Deleting(ch, k.obj)'
      BY <3>3 DEF Deleting
    <3> QED BY <3>3, <3>4, GuardedOneChannel
  <2> QED BY <1>1, <2>1, <2>2 DEF ChallengeTimeout
<1>2. ASSUME NEW t \in waitTimers, WaitPeerTimeout(t)
      PROVE  \A x \in ChIds : GuardedAt(x)'
  <2>0. /\ t.ch \in ChIds /\ channels \in [ChIds -> Channel]
        /\ waitTimers' = waitTimers \ {t} /\ UNCHANGED handler
        /\ deletes \subseteq deletes'
    BY <1>2 DEF WaitPeerTimeout, IInv, TypeOK, WaitTimer
  <2>1. \A x, o : Deleting(x, o) => Deleting(x, o)'
    BY <2>0, DeletingKept
  <2>2. ASSUME NEW x \in ChIds, channels'[x] = channels[x],
               x # t.ch \/ channels[x].state # "WAIT_PEER" \/ channels[x].waitGen # t.gen
        PROVE  GuardedAt(x)'
    BY <2>0, <2>1, <2>2 DEF GuardedAt, TimedAt, EmptyAt, Mapped, Deleting
  <2>3. CASE channels[t.ch].state = "WAIT_PEER" /\ channels[t.ch].waitGen = t.gen
    <3>1. /\ channels' = [channels EXCEPT ![t.ch].peers = NoPeers]
          /\ [ch |-> t.ch, obj |-> channels[t.ch].obj] \in deletes'
      BY <1>2, <2>3 DEF WaitPeerTimeout
    <3>2. channels'[t.ch].obj = channels[t.ch].obj
      BY <2>0, <3>1 DEF Channel
    <3>3. GuardedAt(t.ch)'
      BY <2>0, <3>1, <3>2 DEF GuardedAt, TimedAt, EmptyAt, Deleting
    <3>4. \A x \in ChIds : x # t.ch => channels'[x] = channels[x]
      BY <2>0, <3>1
    <3> QED BY <2>2, <3>3, <3>4
  <2>4. CASE ~(channels[t.ch].state = "WAIT_PEER" /\ channels[t.ch].waitGen = t.gen)
    BY <1>2, <2>2, <2>4 DEF WaitPeerTimeout
  <2> QED BY <2>3, <2>4
<1> QED BY <1>1, <1>2 DEF FireChallenge, FireWait

LEMMA GuardedInit == Init => \A x \in ChIds : GuardedAt(x)
BY DEF Init, GuardedAt, TimedAt, EmptyAt, Mapped, NoChannel

LEMMA GuardedStep ==
  ~RandMayFail /\ IInv /\ IInv' /\ [Next]_vars /\ (\A x \in ChIds : GuardedAt(x))
    => \A x \in ChIds : GuardedAt(x)'
<1> SUFFICES ASSUME ~RandMayFail, IInv, IInv', [Next]_vars, \A x \in ChIds : GuardedAt(x)
             PROVE  \A x \in ChIds : GuardedAt(x)'
  OBVIOUS
<1>1. ASSUME NEW c \in Conns, Serve(c) PROVE \A x \in ChIds : GuardedAt(x)'
  BY <1>1, GuardedJoin, GuardedResponse, GuardedLeave, GuardedFinishLeave,
     GuardedVerifyRejected, GuardedConn, GuardedUnregister
  DEF Serve
<1>2. CASE FireChallenge \/ FireWait
  BY <1>2, GuardedTimers
<1>3. CASE FinishDelete
  BY <1>3, GuardedDeferredDelete DEF FinishDelete
<1>4. CASE UNCHANGED vars
  BY <1>4 DEF vars, GuardedAt, TimedAt, EmptyAt, Mapped, Deleting
<1> QED BY <1>1, <1>2, <1>3, <1>4 DEF Next

-----------------------------------------------------------------------------
(* What a client that is dropped has heard                                  *)

\* The notices after which a client takes itself for a member.
Inside == {"challenge", "verify_peer", "peer_left"}

\* A notice of rejection is on its way to c.
Rejecting(c, x) ==
  \E d \in Conns : handler[d] = [at |-> "rejecting", ch |-> x, to |-> c]

ToldAt(c, x) ==
  Open(c) /\ view[c][x].type \in Inside => x \in connChannels[c] \/ Rejecting(c, x)

\* A connection that is not open yet, or is leaving x, does not take itself for
\* a member.
AwayAt(c, x) ==
  handler[c].at = "new" \/ (handler[c].at = "leaving" /\ handler[c].ch = x)
    => view[c][x].type \notin Inside

ToldInv == \A c \in Conns, x \in ChIds : ToldAt(c, x) /\ AwayAt(c, x)

\* What a step may do to the view that c has of x: it takes only members in,
\* and tells whom it drops, or leaves that to a goroutine that is rejecting.
TellsOf(c, x) ==
  /\ \/ view'[c][x] = view[c][x]
     \/ view'[c][x].type \notin Inside
     \/ c \in ConnsOf(channels'[x])
  /\ Open(c)' /\ x \in connChannels[c] \ connChannels'[c]
       => view'[c][x].type \notin Inside \/ Rejecting(c, x)'
  /\ Open(c)' /\ Rejecting(c, x)
       => view'[c][x].type \notin Inside \/ Rejecting(c, x)'
  /\ handler'[c].at = "leaving" /\ handler'[c].ch = x
       => handler'[c] = handler[c] \/ view'[c][x].type \notin Inside
  /\ handler'[c].at = "new" => handler[c].at = "new"
  /\ Open(c)' => Open(c) \/ (handler[c].at = "new" /\ view'[c][x] = view[c][x])

Tells == \A c \in Conns, x \in ChIds : TellsOf(c, x)

LEMMA TellsKeep ==
  ASSUME IInv', ToldInv, Tells PROVE ToldInv'
<1> SUFFICES ASSUME NEW c \in Conns, NEW x \in ChIds PROVE ToldAt(c, x)' /\ AwayAt(c, x)'
  BY DEF ToldInv
<1>1. TellsOf(c, x) /\ ToldAt(c, x) /\ AwayAt(c, x)
  BY DEF ToldInv, Tells
<1>2. CASE c \in ConnsOf(channels'[x])
  <2>1. Indexed(c, x)'
    BY <1>2 DEF IInv, MembersIndexed
  <2>2. ~(handler'[c].at = "leaving" /\ handler'[c].ch = x)
    BY <1>2 DEF IInv, LeaversLeft
  <2>3. Open(c)' => x \in connChannels'[c]
    BY <2>1 DEF Indexed, Open
  <2>4. handler'[c].at # "new"
    BY <2>1 DEF Indexed
  <2> QED BY <2>2, <2>3, <2>4 DEF ToldAt, AwayAt
<1>3. CASE c \notin ConnsOf(channels'[x])
  <2>1. view'[c][x] = view[c][x] \/ view'[c][x].type \notin Inside
    BY <1>1, <1>3 DEF TellsOf
  <2>2. ToldAt(c, x)'
    BY <1>1, <2>1 DEF TellsOf, ToldAt, AwayAt
  <2>3. AwayAt(c, x)'
    BY <1>1, <2>1 DEF TellsOf, AwayAt
  <2> QED BY <2>2, <2>3
<1> QED BY <1>2, <1>3

\* Rejections go on while no goroutine leaves that place.
LEMMA RejectingKept ==
  ASSUME \A d \in Conns : handler[d].at = "rejecting" => handler'[d] = handler[d]
  PROVE  \A c, x : Rejecting(c, x) => Rejecting(c, x)'
BY DEF Rejecting

\* A step on channel ch that sends notices and leaves the goroutines alone.
LEMMA TellsOneChannel ==
  ASSUME IInv, [Next]_vars, NEW ch \in ChIds, NEW notices, Tell(ch, notices),
         UNCHANGED handler,
         \A d \in DOMAIN notices :
           notices[d].type \notin Inside \/ d \in ConnsOf(channels'[ch]),
         \A d \in Conns, x \in ChIds :
           \/ x \in connChannels[d] => x \in connChannels'[d]
           \/ x = ch /\ d \in DOMAIN notices /\ notices[d].type \notin Inside
  PROVE  Tells
<1> SUFFICES ASSUME NEW c \in Conns, NEW x \in ChIds PROVE TellsOf(c, x)
  BY DEF Tells
<1>1. view'[c][x] = IF x = ch /\ c \in DOMAIN notices /\ Open(c)
                    THEN notices[c] ELSE view[c][x]
  BY TellView DEF IInv, TypeOK, ViewType
<1>2. (Open(c)' => Open(c)) /\ (Rejecting(c, x) => Rejecting(c, x)')
  BY DEF Open, Rejecting
<1> QED BY <1>1, <1>2 DEF TellsOf

LEMMA Types ==
  /\ Note("out").type \notin Inside
  /\ Note("verify_rejected").type \notin Inside
  /\ Note("dropped").type \notin Inside
BY DEF Note, Inside

\* The joins.
LEMMA TellsJoin ==
  ASSUME IInv, ~RandMayFail, [Next]_vars, NEW c \in Conns, NEW ch \in ChIds,
         HandleJoin(c, ch)
  PROVE  Tells
<1> DEFINE k == AfterReplacement(c, Opened(ch))
<1>0. /\ k \in Channel /\ reads + 1 \in Nonce /\ reads + 2 \in Nonce
      /\ Opened(ch) \in Channel /\ ChannelOK(Opened(ch))
  BY OpenedType, OpenedOK, AfterReplacementType DEF IInv, TypeOK, Nonce
<1>1. PICK old : old = Replaced(c, Opened(ch))
  OBVIOUS
<1>2. \A d \in ConnsOf(k) : d \notin old /\ d # c
  BY <1>0, <1>1, AfterReplacementOK
<1>3. CASE JoinFirst(c, ch)
  <2> DEFINE seated == BackToWait(k, Seat(k, 0, c, reads + 1).peers)
             told == [d \in old \cup {c} |->
                        IF d = c THEN Challenge(reads + 1) ELSE Note("out")]
  <2>1. /\ channels' = [channels EXCEPT ![ch] = seated] /\ Tell(ch, told)
        /\ UNCHANGED handler /\ Members(k) = {} /\ Index(c, ch, old)
    BY <1>1, <1>3 DEF JoinFirst
  <2>2. ConnsOf(seated) = {c}
    BY <1>0, <2>1, FirstOK
  <2>3. c \in ConnsOf(channels'[ch])
    <3> HIDE DEF seated
    <3> QED BY <2>1, <2>2 DEF IInv, TypeOK
  <2>4. \A d \in old : d # c => told[d].type \notin Inside /\ d \in DOMAIN told
    BY Types
  <2>5. DOMAIN told = old \cup {c}
    OBVIOUS
  <2> HIDE DEF told, seated, k
  <2>6. \A d \in Conns, x \in ChIds :
          \/ x \in connChannels[d] => x \in connChannels'[d]
          \/ x = ch /\ d \in DOMAIN told /\ told[d].type \notin Inside
    BY <2>1, <2>4, <2>5 DEF Index
  <2> QED BY <2>1, <2>3, <2>4, <2>5, <2>6, TellsOneChannel
<1>4. CASE JoinSecond(c, ch)
  <2>1. PICK s, peer : /\ s \in Slot /\ Members(k) = {1 - s} /\ s = FreeSlot(k)
                       /\ peer = k.peers[1 - s].conn
    BY <1>4 DEF JoinSecond, FreeSlot, Slot
  <2> DEFINE both == Seat(Seat(k, s, c, reads + 1), 1 - s, peer, reads + 2)
             seated == [both EXCEPT !.state = "CHALLENGING"]
             told == [d \in old \cup {c, peer} |->
                        CASE d = c    -> Challenge(reads + 1)
                          [] d = peer -> Challenge(reads + 2)
                          [] OTHER    -> Note("out")]
  <2>2. /\ channels' = [channels EXCEPT ![ch] = seated] /\ Tell(ch, told)
        /\ UNCHANGED handler /\ Index(c, ch, old)
    BY <1>1, <1>4, <2>1 DEF JoinSecond
  <2>3. ConnsOf(seated) = {c, peer} /\ peer \in ConnsOf(k)
    <3>1. \A d \in ConnsOf(k) : IdOf[d] # IdOf[c]
      BY <1>0, AfterReplacementOK
    <3> HIDE DEF k
    <3> QED BY <1>0, <2>1, <3>1, SecondOK
  <2>4. c \in ConnsOf(channels'[ch]) /\ peer \in ConnsOf(channels'[ch])
    <3> HIDE DEF seated
    <3> QED BY <2>2, <2>3 DEF IInv, TypeOK
  <2>5. \A d \in old : d # c => told[d].type \notin Inside
    BY <1>2, <2>3, Types
  <2>6. DOMAIN told = old \cup {c, peer}
    OBVIOUS
  <2> HIDE DEF told, seated, k
  <2>7. \A d \in Conns, x \in ChIds :
          \/ x \in connChannels[d] => x \in connChannels'[d]
          \/ x = ch /\ d \in DOMAIN told /\ told[d].type \notin Inside
    BY <2>2, <2>5, <2>6 DEF Index
  <2> QED BY <2>2, <2>4, <2>5, <2>6, <2>7, TellsOneChannel
<1> QED BY <1>3, <1>4 DEF HandleJoin, JoinNonceFails, JoinSecondNonceFails

\* An answer.
LEMMA TellsResponse ==
  ASSUME IInv, [Next]_vars, NEW c \in Conns, NEW ch \in ChIds, HandleResponse(c, ch)
  PROVE  Tells
<1> DEFINE k == channels[ch]
           told == [d \in ConnsOf(k) |-> VerifyPeer(k.peers[OtherSlot(k, d)])]
<1>1. PICK s \in SlotsOf(k, c) :
        \/ UNCHANGED view
        \/ /\ Completes(k, s)
           /\ channels' = [channels EXCEPT ![ch] = Activated(k)]
           /\ Tell(ch, told)
  BY DEF HandleResponse
<1>2. UNCHANGED <<handler, connChannels>>
  BY DEF HandleResponse
<1>3. CASE UNCHANGED view
  BY <1>2, <1>3 DEF Tells, TellsOf, Open, Rejecting
<1>4. CASE Completes(k, s) /\ channels' = [channels EXCEPT ![ch] = Activated(k)] /\ Tell(ch, told)
  <2>1. k \in Channel /\ ChannelOK(k) /\ s \in Members(k)
    BY ConnsAssumption DEF IInv, TypeOK, SlotsOf, Members
  <2>2. ConnsOf(channels'[ch]) = ConnsOf(k)
    BY <1>4, <2>1, ResponseOK DEF IInv, TypeOK
  <2>3. DOMAIN told = ConnsOf(k)
    OBVIOUS
  <2> HIDE DEF told
  <2> QED BY <1>2, <1>4, <2>2, <2>3, TellsOneChannel
<1> QED BY <1>1, <1>3, <1>4

\* A leave: the leaver is told, and the member that remains stays one.
LEMMA TellsLeave ==
  ASSUME IInv, [Next]_vars, NEW c \in Conns, NEW ch \in ChIds, HandleLeave(c, ch)
  PROVE  Tells
<1>0. handler[c].at = "reading"
  BY DEF HandleLeave, Reading
<1>1. CASE LeaveStranger(c, ch)
  <2> DEFINE told == [d \in {c} |-> Note("out")]
  <2>1. Tell(ch, told) /\ Unindex({c}, ch) /\ UNCHANGED handler
    BY <1>1 DEF LeaveStranger
  <2>2. DOMAIN told = {c} /\ told[c].type \notin Inside
    BY Types
  <2> HIDE DEF told
  <2>3. \A d \in Conns, x \in ChIds :
          \/ x \in connChannels[d] => x \in connChannels'[d]
          \/ x = ch /\ d \in DOMAIN told /\ told[d].type \notin Inside
    BY <2>1, <2>2 DEF Unindex
  <2> QED BY <2>1, <2>2, <2>3, TellsOneChannel
<1>2. CASE LeaveMember(c, ch)
  <2> DEFINE told(k) == [d \in ConnsOf(k) \cup {c} |->
                           Note(IF d = c THEN "out" ELSE "peer_left")]
  <2>1. PICK k : /\ channels' = [channels EXCEPT ![ch] = k]
                 /\ Tell(ch, told(k))
                 /\ \/ /\ handler' = [handler EXCEPT ![c] =
                            [at |-> "leaving", ch |-> ch, obj |-> k.obj]]
                       /\ UNCHANGED connChannels
                    \/ Unindex({c}, ch) /\ UNCHANGED handler
    BY <1>2 DEF LeaveMember
  <2>2. channels'[ch] = k
    BY <2>1 DEF IInv, TypeOK
  <2>3. DOMAIN told(k) = ConnsOf(k) \cup {c} /\ told(k)[c].type \notin Inside
    BY Types
  <2> HIDE DEF told
  <2>4. \A d \in Conns, x \in ChIds :
          view'[d][x] = IF x = ch /\ d \in DOMAIN told(k) /\ Open(d)
                        THEN told(k)[d] ELSE view[d][x]
    BY <2>1, TellView DEF IInv, TypeOK, ViewType
  <2>5. \A d \in Conns :
          /\ Open(d)' => Open(d)
          /\ handler[d].at = "rejecting" => handler'[d] = handler[d]
          /\ d # c => handler'[d] = handler[d]
          /\ d = c /\ handler'[d] # handler[d] => handler'[d].at = "leaving" /\ handler'[d].ch = ch
    BY <1>0, <2>1 DEF Open, IInv, TypeOK
  <2>6. \A d \in Conns, x \in ChIds :
          \/ x \in connChannels[d] => x \in connChannels'[d]
          \/ x = ch /\ d = c
    BY <2>1 DEF Unindex
  <2>7. Open(c)
    BY <1>0 DEF Open
  <2>8. \A d, x : Rejecting(d, x) => Rejecting(d, x)'
    BY <2>5, RejectingKept
  <2> QED BY <2>2, <2>3, <2>4, <2>5, <2>6, <2>7, <2>8 DEF Tells, TellsOf
<1> QED BY <1>1, <1>2 DEF HandleLeave

\* The end of a leave drops the identifier; the leaver was told before.
LEMMA TellsFinishLeave ==
  ASSUME IInv, ToldInv, NEW c \in Conns, FinishLeave(c)
  PROVE  Tells
<1>1. /\ handler[c].at = "leaving" /\ handler[c].ch \in ChIds /\ UNCHANGED view
      /\ handler' = [handler EXCEPT ![c] = At("reading")]
      /\ Unindex({c}, handler[c].ch)
  BY DEF FinishLeave, IInv, TypeOK, Handler
<1>2. view[c][handler[c].ch].type \notin Inside
  BY <1>1 DEF ToldInv, AwayAt
<1>3. \A d \in Conns :
        /\ d # c => handler'[d] = handler[d]
        /\ handler'[c].at = "reading"
  BY <1>1 DEF IInv, TypeOK, At
<1>4. \A d, x : Rejecting(d, x) => Rejecting(d, x)'
  <2>1. \A d \in Conns : handler[d].at = "rejecting" => handler'[d] = handler[d]
    BY <1>1, <1>3
  <2> QED BY <2>1, RejectingKept
<1>5. \A d \in Conns, x \in ChIds :
        (x \in connChannels[d] => x \in connChannels'[d]) \/ (x = handler[c].ch /\ d = c)
  BY <1>1 DEF Unindex
<1> QED BY <1>1, <1>2, <1>3, <1>4, <1>5 DEF Tells, TellsOf, Open

\* A rejection drops all members: the sender and one other are told here or
\* later, and a second other hears that it is not told.
LEMMA TellsVerifyRejected ==
  ASSUME IInv, [Next]_vars, NEW c \in Conns, NEW ch \in ChIds, HandleVerifyRejected(c, ch)
  PROVE  Tells
<1> DEFINE k == channels[ch]
           others == {s \in Members(k) : k.peers[s].conn # c}
           last == IF 1 \in others THEN 1 ELSE 0
           told == [d \in {c} \cup {k.peers[s].conn : s \in others \ {last}} |->
                      Note(IF d = c THEN "out" ELSE "dropped")]
<1>1. /\ handler[c].at = "reading"
      /\ Unindex(ConnsOf(k), ch) /\ Tell(ch, told)
      /\ handler' = [handler EXCEPT ![c] =
           IF others = {} THEN At("reading")
           ELSE [at |-> "rejecting", ch |-> ch, to |-> k.peers[last].conn]]
  BY DEF HandleVerifyRejected, Reading
<1>2. /\ DOMAIN told = {c} \cup {k.peers[s].conn : s \in others \ {last}}
      /\ \A d \in DOMAIN told : told[d].type \notin Inside
  BY Types
<1>3. ASSUME NEW d \in ConnsOf(k), d \notin DOMAIN told PROVE Rejecting(d, ch)'
  <2>1. PICK s \in Members(k) : d = k.peers[s].conn
    BY DEF ConnsOf
  <2>2. s \in others /\ s = last
    BY <1>2, <1>3, <2>1
  <2>3. handler'[c] = [at |-> "rejecting", ch |-> ch, to |-> d]
    BY <1>1, <2>1, <2>2 DEF IInv, TypeOK
  <2> QED BY <2>3 DEF Rejecting
<1> HIDE DEF told
<1>4. \A d \in Conns, x \in ChIds :
        view'[d][x] = IF x = ch /\ d \in DOMAIN told /\ Open(d) THEN told[d] ELSE view[d][x]
  BY <1>1, TellView DEF IInv, TypeOK, ViewType
<1>5. \A d \in Conns :
        /\ d # c => handler'[d] = handler[d]
        /\ handler'[c].at \in {"reading", "rejecting"}
  BY <1>1 DEF IInv, TypeOK, At
<1>6. \A d, x : Rejecting(d, x) => Rejecting(d, x)'
  <2>1. \A d \in Conns : handler[d].at = "rejecting" => handler'[d] = handler[d]
    BY <1>1, <1>5
  <2> QED BY <2>1, RejectingKept
<1>7. \A d \in Conns, x \in ChIds :
        (x \in connChannels[d] => x \in connChannels'[d]) \/ (x = ch /\ d \in ConnsOf(k))
  BY <1>1 DEF Unindex
<1>8. \A d \in Conns : Open(d)' => Open(d)
  BY <1>1, <1>5 DEF Open
<1> HIDE DEF k
<1> QED BY <1>2, <1>3, <1>4, <1>5, <1>6, <1>7, <1>8 DEF Tells, TellsOf

\* The notice of a rejection.
LEMMA TellsSendRejected ==
  ASSUME IInv, NEW c \in Conns, SendRejected(c)
  PROVE  Tells
<1> DEFINE told == [d \in {handler[c].to} |-> Note("verify_rejected")]
<1>1. /\ handler[c].at = "rejecting" /\ handler[c].ch \in ChIds
      /\ Tell(handler[c].ch, told) /\ UNCHANGED connChannels
      /\ handler' = [handler EXCEPT ![c] = At("reading")]
  BY DEF SendRejected, IInv, TypeOK, Handler
<1>2. DOMAIN told = {handler[c].to} /\ told[handler[c].to].type \notin Inside
  BY Types
<1> HIDE DEF told
<1>3. \A d \in Conns, x \in ChIds :
        view'[d][x] = IF x = handler[c].ch /\ d \in DOMAIN told /\ Open(d)
                      THEN told[d] ELSE view[d][x]
  BY <1>1, TellView DEF IInv, TypeOK, ViewType
<1>4. /\ \A d \in Conns : d # c => handler'[d] = handler[d]
      /\ handler'[c].at = "reading"
  BY <1>1 DEF IInv, TypeOK, At
<1>5. \A d, x : Rejecting(d, x) =>
        Rejecting(d, x)' \/ (x = handler[c].ch /\ d = handler[c].to)
  BY <1>1, <1>4 DEF Rejecting
<1>6. \A d \in Conns : Open(d)' => Open(d)
  BY <1>1, <1>4 DEF Open
<1> QED BY <1>1, <1>2, <1>3, <1>4, <1>5, <1>6 DEF Tells, TellsOf

\* The beginning of a connection, its end, and the steps that tell nobody.
LEMMA TellsConn ==
  ASSUME IInv,
         \/ \E c \in Conns : \/ RegisterConn(c) \/ CloseConn(c)
                             \/ \E ch \in ChIds : HandleRelay(c, ch)
         \/ FinishDelete
         \/ UNCHANGED vars
  PROVE  Tells
<1>1. UNCHANGED connChannels
  BY DEF RegisterConn, CloseConn, HandleRelay, FinishDelete, DeferredDelete, vars
<1>2. \A d, x : Rejecting(d, x) => Rejecting(d, x)'
  <2>1. \A d \in Conns : handler[d].at = "rejecting" => handler'[d] = handler[d]
    BY DEF RegisterConn, CloseConn, HandleRelay, FinishDelete, DeferredDelete, vars,
           Reading, IInv, TypeOK
  <2> QED BY <2>1, RejectingKept
<1>3. \A d \in Conns :
        /\ handler'[d].at = "leaving" => handler'[d] = handler[d]
        /\ handler'[d].at = "new" => handler[d].at = "new"
        /\ Open(d)' => Open(d) \/ (handler[d].at = "new" /\ UNCHANGED view)
  BY SMTT(30) DEF RegisterConn, CloseConn, HandleRelay, FinishDelete, DeferredDelete, vars,
         Reading, Open, At, IInv, TypeOK
<1>4. \A d \in Conns, x \in ChIds :
        view'[d][x] = view[d][x] \/ view'[d][x].type \notin Inside
  <2>1. ASSUME NEW c \in Conns, CloseConn(c), NEW d \in Conns, NEW x \in ChIds
        PROVE  view'[d][x] = view[d][x] \/ view'[d][x].type \notin Inside
    <3>1. view' = [view EXCEPT ![c] = [ch \in ChIds |-> Note("out")]]
      BY <2>1 DEF CloseConn
    <3>2. /\ d # c => view'[d] = view[d]
          /\ d = c => view'[d] = [ch \in ChIds |-> Note("out")]
      BY <3>1 DEF IInv, TypeOK
    <3>3. Note("out").type \notin Inside
      BY DEF Note, Inside
    <3> QED BY <3>2, <3>3
  <2>2. CASE UNCHANGED view
    BY <2>2
  <2> QED
    BY <2>1, <2>2
    DEF RegisterConn, HandleRelay, FinishDelete, DeferredDelete, vars
<1> QED BY <1>1, <1>2, <1>3, <1>4 DEF Tells, TellsOf

\* A disconnection.
LEMMA TellsUnregister ==
  ASSUME IInv, NEW c \in Conns, UnregisterConn(c)
  PROVE  Tells
<1> DEFINE cut == {ch \in handler[c].chs : SlotsOf(channels[ch], c) # {}}
<1>1. /\ handler[c].at = "closing"
      /\ channels' = [ch \in ChIds |-> IF ch \in cut THEN Cut(c, ch) ELSE channels[ch]]
      /\ connChannels' = [connChannels EXCEPT ![c] = {}]
      /\ handler' = [handler EXCEPT ![c] = At("closed")]
  BY DEF UnregisterConn
<1>2. /\ \A d \in Conns : d # c => handler'[d] = handler[d] /\ connChannels'[d] = connChannels[d]
      /\ handler'[c].at = "closed"
  BY <1>1 DEF IInv, TypeOK, At
<1>3. \A d, x : Rejecting(d, x) => Rejecting(d, x)'
  <2>1. \A d \in Conns : handler[d].at = "rejecting" => handler'[d] = handler[d]
    BY <1>1, <1>2
  <2> QED BY <2>1, RejectingKept
<1>4. ASSUME NEW d \in Conns, NEW x \in ChIds, view'[d][x] # view[d][x]
      PROVE  d \in ConnsOf(channels'[x])
  <2>1. x \in cut /\ d \in ConnsOf(channels[x]) /\ d # c
    BY <1>4 DEF UnregisterConn
  <2> DEFINE s == SlotOf(channels[x], c)
  <2>2. channels[x] \in Channel /\ s \in Slot /\ channels[x].peers[s].conn = c
    BY <2>1 DEF IInv, TypeOK, SlotOf, SlotsOf, Slot
  <2>3. PICK t \in Members(channels[x]) : t # s /\ channels[x].peers[t].conn = d
    BY <2>1, <2>2 DEF ConnsOf
  <2>4. t \in Slot /\ d # NoConn
    BY <2>3 DEF Members
  <2>5. /\ t \in Members(Without(channels[x], s))
        /\ Without(channels[x], s).peers[t].conn = d
    BY <2>2, <2>3, <2>4 DEF Without, BackToWait, Members, Channel
  <2>6. channels'[x] = Without(channels[x], s)
    BY <1>1, <2>1, <2>5 DEF Cut
  <2> QED BY <2>5, <2>6 DEF ConnsOf
<1> QED BY <1>1, <1>2, <1>3, <1>4 DEF Tells, TellsOf, Open

\* The evictions: all who lose their slots are told.
LEMMA TellsTimers ==
  ASSUME IInv, [Next]_vars, FireChallenge \/ FireWait
  PROVE  Tells
<1>1. UNCHANGED handler
  BY DEF FireChallenge, FireWait, ChallengeTimeout, WaitPeerTimeout
<1>2. ASSUME NEW ch \in ChIds, NEW gone, Unindex(gone, ch),
             Tell(ch, [d \in gone |-> Note("out")])
      PROVE  Tells
  <2> DEFINE told == [d \in gone |-> Note("out")]
  <2>1. DOMAIN told = gone /\ \A d \in gone : told[d].type \notin Inside
    BY Types
  <2>2. Tell(ch, told)
    BY <1>2
  <2> HIDE DEF told
  <2>3. \A d \in Conns, x \in ChIds :
          \/ x \in connChannels[d] => x \in connChannels'[d]
          \/ x = ch /\ d \in DOMAIN told /\ told[d].type \notin Inside
    BY <1>2, <2>1 DEF Unindex
  <2> QED BY <1>1, <2>1, <2>2, <2>3, TellsOneChannel
<1>3. CASE UNCHANGED <<connChannels, view>>
  BY <1>1, <1>3 DEF Tells, TellsOf, Open, Rejecting
<1>4. CASE FireChallenge
  BY <1>2, <1>3, <1>4 DEF FireChallenge, ChallengeTimeout, Expire
<1>5. ASSUME NEW t \in waitTimers, WaitPeerTimeout(t) PROVE Tells
  <2>1. t.ch \in ChIds
    BY DEF IInv, TypeOK, WaitTimer
  <2> QED BY <1>2, <1>3, <1>5, <2>1 DEF WaitPeerTimeout
<1> QED BY <1>4, <1>5 DEF FireWait

LEMMA ToldInit == Init => ToldInv
BY Types DEF Init, ToldInv, ToldAt, AwayAt

LEMMA ToldStep ==
  ~RandMayFail /\ IInv /\ IInv' /\ [Next]_vars /\ ToldInv => ToldInv'
<1> SUFFICES ASSUME ~RandMayFail, IInv, IInv', [Next]_vars, ToldInv PROVE Tells
  BY TellsKeep
<1>1. ASSUME NEW c \in Conns, Serve(c) PROVE Tells
  BY <1>1, TellsJoin, TellsResponse, TellsLeave, TellsFinishLeave, TellsVerifyRejected,
     TellsSendRejected, TellsConn, TellsUnregister
  DEF Serve
<1>2. CASE FireChallenge \/ FireWait
  BY <1>2, TellsTimers
<1>3. CASE FinishDelete \/ UNCHANGED vars
  BY <1>3, TellsConn
<1> QED BY <1>1, <1>2, <1>3 DEF Next

-----------------------------------------------------------------------------
(* All of it                                                                *)

VInv ==
  /\ IInv
  /\ \A x \in ChIds : HeardAt(x)
  /\ \A x \in ChIds : GuardedAt(x)
  /\ ToldInv
  /\ RelayReachesVerified

\* Both ends of an ACTIVE channel were shown to each other when handleRelay
\* forwards between them.
LEMMA RelayStep ==
  IInv /\ (\A x \in ChIds : HeardAt(x)) /\ RelayReachesVerified /\ [Next]_vars
    => RelayReachesVerified'
<1> SUFFICES ASSUME IInv, \A x \in ChIds : HeardAt(x), RelayReachesVerified,
                    [Next]_vars
             PROVE  RelayReachesVerified'
  OBVIOUS
<1>1. ASSUME NEW c \in Conns, NEW ch \in ChIds, HandleRelay(c, ch)
      PROVE  RelayReachesVerified'
  <2>1. PICK s \in SlotsOf(channels[ch], c) :
          /\ channels[ch].peers[1 - s].conn # NoConn
          /\ relayed' = [ch |-> ch, from |-> c, to |-> channels[ch].peers[1 - s].conn]
    BY <1>1 DEF HandleRelay
  <2> DEFINE to == channels[ch].peers[1 - s].conn
  <2>2. /\ s \in Slot /\ 1 - s \in Slot /\ 1 - (1 - s) = s
        /\ channels[ch].peers[s].conn = c /\ c # NoConn
    BY ConnsAssumption DEF SlotsOf, Slot
  <2>3. s \in Members(channels[ch]) /\ 1 - s \in Members(channels[ch])
    BY <2>1, <2>2 DEF Members
  <2>4. channels[ch].state = "ACTIVE" /\ UNCHANGED <<handler, view>>
    BY <1>1 DEF HandleRelay
  <2>5. /\ Open(c) => \/ view[c][ch].type = "verify_peer" /\ view[c][ch].peer = IdOf[to]
                      \/ view[c][ch].type = "verify_rejected"
        /\ Open(to) => \/ view[to][ch].type = "verify_peer" /\ view[to][ch].peer = IdOf[c]
                       \/ view[to][ch].type = "verify_rejected"
    BY <2>2, <2>3, <2>4 DEF HeardAt, VerifiedAt
  <2>6. /\ relayed'.ch = ch /\ relayed'.from = c /\ relayed'.to = to
        /\ \A d : Open(d)' = Open(d)
    BY <2>1, <2>4 DEF Open
  <2> HIDE DEF to
  <2> QED BY <2>4, <2>5, <2>6 DEF RelayReachesVerified
<1>2. CASE relayed' = NoRelay
  BY <1>2 DEF RelayReachesVerified
<1>3. CASE UNCHANGED vars
  BY <1>3 DEF RelayReachesVerified, Open, vars
<1>4. ASSUME NEW c \in Conns, Serve(c), ~\E ch \in ChIds : HandleRelay(c, ch)
      PROVE  relayed' = NoRelay
  BY <1>4
  DEF Serve, RegisterConn, HandleJoin, JoinFirst, JoinSecond, JoinNonceFails,
      JoinSecondNonceFails, HandleResponse, HandleLeave, HandleVerifyRejected,
      FinishLeave, SendRejected, CloseConn, UnregisterConn
<1>5. FireChallenge \/ FireWait \/ FinishDelete => relayed' = NoRelay
  BY DEF FireChallenge, FireWait, FinishDelete, ChallengeTimeout, WaitPeerTimeout,
         DeferredDelete
<1> QED BY <1>1, <1>2, <1>3, <1>4, <1>5 DEF Next

\* What the clients were told, the timers and the table fit together still.
LEMMA ViewsStep ==
  ASSUME ~RandMayFail PROVE VInv /\ [Next]_vars => VInv'
<1> SUFFICES ASSUME VInv, [Next]_vars PROVE VInv'
  OBVIOUS
<1>1. IInv'
  BY InvStep DEF VInv
<1>2. (\A x \in ChIds : HeardAt(x))'
  BY HeardStep DEF VInv
<1>3. (\A x \in ChIds : GuardedAt(x))'
  BY <1>1, GuardedStep DEF VInv
<1>4. ToldInv'
  BY <1>1, ToldStep DEF VInv
<1>5. RelayReachesVerified'
  BY RelayStep DEF VInv
<1> QED BY <1>1, <1>2, <1>3, <1>4, <1>5 DEF VInv

\* VInv holds in every reachable state if rand.Read does not fail.
THEOREM ViewsInductive ==
  ASSUME ~RandMayFail PROVE Spec => []VInv
<1>1. Init => VInv
  BY InvInit, HeardInit, GuardedInit, ToldInit DEF VInv, RelayReachesVerified, Init
<1> QED BY <1>1, ViewsStep, PTL DEF Spec

\* The nonce for which handleResponse takes an answer is the one the member
\* was sent last: no replacement or second join changes a nonce silently.
THEOREM ChallengesCurrent ==
  ASSUME ~RandMayFail PROVE Spec => []ChallengeIsCurrent
<1>1. VInv => ChallengeIsCurrent
  BY DEF VInv, HeardAt, CurrentAt, ChallengeIsCurrent
<1> QED BY <1>1, ViewsInductive, PTL

\* A channel that relays is one whose members have both been sent the
\* verify_peer about their present peer, and no other notice after it.
THEOREM ActiveVerified ==
  ASSUME ~RandMayFail PROVE Spec => []ActiveMeansVerified
<1>1. VInv => ActiveMeansVerified
  BY DEF VInv, HeardAt, VerifiedAt, ActiveMeansVerified
<1> QED BY <1>1, ViewsInductive, PTL

\* handleRelay forwards between connections that were shown to each other,
\* and across no reconnection.
THEOREM RelaysVerified ==
  ASSUME ~RandMayFail PROVE Spec => []RelayReachesVerified
<1>1. VInv => RelayReachesVerified
  BY DEF VInv
<1> QED BY <1>1, ViewsInductive, PTL

\* Every entry into WAIT_PEER starts a timer with the new generation, and
\* none runs out without ending the wait: a waiting channel always has a
\* goroutine that will end it.
THEOREM WaitsTimed ==
  ASSUME ~RandMayFail PROVE Spec => []WaitIsTimed
<1>1. VInv => WaitIsTimed
  BY DEF VInv, GuardedAt, TimedAt, Deleting, WaitIsTimed
<1> QED BY <1>1, ViewsInductive, PTL

\* Whoever takes the last member out of a channel, the second look-up that
\* deletes it is yet to come: no empty channel stays in the table.
THEOREM EmptiesDeleted ==
  ASSUME ~RandMayFail PROVE Spec => []EmptyIsDeleted
<1>1. VInv => EmptyIsDeleted
  BY DEF VInv, GuardedAt, EmptyAt, Deleting, EmptyIsDeleted
<1> QED BY <1>1, ViewsInductive, PTL

\* Replacement, timers and verify_rejected tell whom they evict: who
\* believes in its channel is counted in by its connection, or is to be told.
THEOREM EvictionsTold ==
  ASSUME ~RandMayFail PROVE Spec => []EvictedAreTold
<1>1. VInv => EvictedAreTold
  BY DEF VInv, ToldInv, ToldAt, Inside, Rejecting, EvictedAreTold
<1> QED BY <1>1, ViewsInductive, PTL
=============================================================================
