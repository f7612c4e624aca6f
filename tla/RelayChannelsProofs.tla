------------------------- MODULE RelayChannelsProofs -------------------------
(* Theorems about RelayChannels, for every set of connections and channels    *)
(* and every bound.                                                          *)
EXTENDS RelayChannels, TLAPS

ViewType == [Conns -> [ChIds -> Notice]]

-----------------------------------------------------------------------------
(* What the operators on a Channel return *)

\* The null values have the types of what they stand for.
LEMMA NoPeerType ==
  /\ NoPeer \in Peer
  /\ NoPeers \in [Slot -> Peer]
  /\ NoChannel \in Channel
  BY DEF NoPeer, NoPeers, NoChannel, Peer, Channel, State, Nonce

\* Dropping back to WAIT_PEER gives a Channel.
LEMMA BackToWaitType ==
  ASSUME NEW k \in Channel, NEW peers \in [Slot -> Peer]
  PROVE  BackToWait(k, peers) \in Channel
  BY DEF BackToWait, Channel, State

\* Taking a peer out of a Channel gives a Channel.
LEMMA WithoutType ==
  ASSUME NEW k \in Channel, NEW s \in Slot
  PROVE  Without(k, s) \in Channel
  <1> DEFINE rest == Members(k) \ {s}
             cleared == [t \in Slot |->
                           IF t \in rest
                           THEN [conn |-> k.peers[t].conn, nonce |-> 0,
                                 answered |-> FALSE]
                           ELSE NoPeer]
  <1>1. \A t \in Slot : k.peers[t] \in Peer
    BY DEF Channel
  <1>2. cleared \in [Slot -> Peer]
    BY <1>1 DEF Members, Peer, ChannelMember, NoPeer, Nonce
  <1>3. [k EXCEPT !.peers[s] = NoPeer] \in Channel
    BY NoPeerType DEF Channel
  <1>4. BackToWait(k, cleared) \in Channel
    BY <1>2, BackToWaitType
  <1> QED
    BY <1>3, <1>4 DEF Without

\* Seating a peer in a Channel gives a Channel.
LEMMA SeatType ==
  ASSUME NEW k \in Channel, NEW s \in Slot, NEW c \in Conns, NEW n \in Nonce
  PROVE  Seat(k, s, c, n) \in Channel
  BY DEF Seat, Channel, Peer, ChannelMember

\* A join works on a Channel, mapped or new.
LEMMA OpenedType ==
  ASSUME TypeOK, NEW ch \in ChIds
  PROVE  Opened(ch) \in Channel
  BY NoPeerType DEF Opened, Mapped, TypeOK, Channel, State, Nonce

\* Evicting the connections under an id gives a Channel.
LEMMA AfterReplacementType ==
  ASSUME NEW k \in Channel, NEW c \in Conns
  PROVE  AfterReplacement(c, k) \in Channel
  BY NoPeerType DEF AfterReplacement, Channel

\* Clearing the challenge data gives a Channel.
LEMMA ActivatedType ==
  ASSUME NEW k \in Channel
  PROVE  Activated(k) \in Channel
  <1> DEFINE cleared == [t \in Slot |-> [conn |-> k.peers[t].conn, nonce |-> 0,
                                         answered |-> FALSE]]
  <1>1. \A t \in Slot : k.peers[t] \in Peer
    BY DEF Channel
  <1>2. cleared \in [Slot -> Peer]
    <2>1. ASSUME NEW t \in Slot
          PROVE  [conn |-> k.peers[t].conn, nonce |-> 0, answered |-> FALSE]
                   \in Peer
      <3>1. CASE k.peers[t] = NoPeer
        BY <3>1 DEF Peer, NoPeer
      <3>2. CASE k.peers[t] \in ChannelMember
        BY <3>2 DEF Peer, ChannelMember, Nonce
      <3> QED
        BY <1>1, <3>1, <3>2 DEF Peer
    <2> QED
      BY <2>1
  <1>3. \A p \in [Slot -> Peer] :
          [k EXCEPT !.state = "ACTIVE", !.peers = p] \in Channel
    BY DEF Channel, State
  <1> QED
    BY <1>2, <1>3 DEF Activated

\* Storing an answer of a seated peer gives a Channel.
LEMMA AnsweredType ==
  ASSUME NEW k \in Channel, NEW s \in Slot, k.peers[s].conn \in Conns
  PROVE  Answered(k, s) \in Channel
  <1>1. k.peers[s] \in ChannelMember
    BY ConnsAssumption DEF Channel, Peer, NoPeer
  <1>2. [k.peers[s] EXCEPT !.answered = TRUE] \in Peer
    BY <1>1 DEF Peer, ChannelMember
  <1> QED
    BY <1>2 DEF Answered, Channel

\* The members of a Channel are connections.
LEMMA ConnsOfType ==
  ASSUME NEW k \in Channel
  PROVE  /\ ConnsOf(k) \subseteq Conns
         /\ \A s \in Members(k) : k.peers[s] \in ChannelMember
  BY DEF ConnsOf, Members, Channel, Peer, ChannelMember, NoPeer

\* The timer of a Channel is a timer.
LEMMA WaitTimerOfType ==
  ASSUME NEW ch \in ChIds, NEW k \in Channel
  PROVE  WaitTimerOf(ch, k) \subseteq WaitTimer
  BY DEF WaitTimerOf, WaitTimer, Channel

\* The messages of the server are notices.
LEMMA NoteType ==
  /\ \A type \in {"out", "challenge", "verify_peer", "peer_left",
                  "verify_rejected", "dropped"} : Note(type) \in Notice
  /\ \A n \in Nonce : Challenge(n) \in Notice
  /\ \A m \in ChannelMember : VerifyPeer(m) \in Notice
  BY IdsAssumption DEF Note, Challenge, VerifyPeer, Notice, Nonce,
                       ChannelMember

\* Sending notices keeps the type of view.
LEMMA TellType ==
  ASSUME view \in ViewType, NEW ch \in ChIds, NEW notices,
         \A d \in DOMAIN notices : notices[d] \in Notice,
         Tell(ch, notices)
  PROVE  view' \in ViewType
  BY DEF Tell, ViewType

\* Dropping an identifier keeps the type of connChannels.
LEMMA UnindexType ==
  ASSUME connChannels \in [Conns -> SUBSET ChIds], NEW cs, NEW ch,
         Unindex(cs, ch)
  PROVE  connChannels' \in [Conns -> SUBSET ChIds]
  BY DEF Unindex

\* Recording a join keeps the type of connChannels.
LEMMA IndexType ==
  ASSUME connChannels \in [Conns -> SUBSET ChIds], NEW c, NEW ch \in ChIds,
         NEW old, Index(c, ch, old)
  PROVE  connChannels' \in [Conns -> SUBSET ChIds]
  BY DEF Index

\* A conditional deletion keeps the type of channels.
LEMMA DeleteIfSameType ==
  ASSUME channels \in [ChIds -> Channel], NEW ch \in ChIds, NEW obj,
         DeleteIfSame(ch, obj)
  PROVE  channels' \in [ChIds -> Channel]
  BY NoPeerType DEF DeleteIfSame

\* A location without arguments is a handler state.
LEMMA AtType ==
  \A loc \in {"new", "reading", "closed"} : At(loc) \in Handler
  BY DEF At, Handler

-----------------------------------------------------------------------------
(* Type correctness *)

\* The initial state has the right types.
LEMMA TypeInit == Init => TypeOK
  BY NoPeerType, NoteType, AtType DEF Init, TypeOK

\* A join into an empty channel keeps the types.
LEMMA TypeJoinFirst ==
  ASSUME TypeOK, NEW c \in Conns, NEW ch \in ChIds, JoinFirst(c, ch)
  PROVE  TypeOK'
  <1> DEFINE k == AfterReplacement(c, Opened(ch))
             seated == BackToWait(k, Seat(k, 0, c, reads + 1).peers)
             old == Replaced(c, Opened(ch))
             told == [d \in old \cup {c} |->
                        IF d = c THEN Challenge(reads + 1) ELSE Note("out")]
  <1>1. k \in Channel
    BY OpenedType, AfterReplacementType
  <1>2. reads + 1 \in Nonce /\ 0 \in Slot
    BY DEF TypeOK, Nonce, Slot
  <1>3. seated \in Channel
    <2>1. Seat(k, 0, c, reads + 1) \in Channel
      BY <1>1, <1>2, SeatType
    <2>2. Seat(k, 0, c, reads + 1).peers \in [Slot -> Peer]
      BY <2>1 DEF Channel
    <2> QED
      BY <1>1, <2>2, BackToWaitType
  <1>4. WaitTimerOf(ch, seated) \subseteq WaitTimer
    BY <1>3, WaitTimerOfType
  <1>5. \A d \in DOMAIN told : told[d] \in Notice
    BY <1>2, NoteType
  <1>6. view' \in ViewType
    <2>1. Tell(ch, told) /\ view \in ViewType
      BY DEF JoinFirst, TypeOK, ViewType
    <2> HIDE DEF told
    <2> QED
      BY <1>5, <2>1, TellType
  <1>7. connChannels' \in [Conns -> SUBSET ChIds]
    <2>1. Index(c, ch, old) /\ connChannels \in [Conns -> SUBSET ChIds]
      BY DEF JoinFirst, TypeOK
    <2> QED
      BY <2>1, IndexType
  <1>8. channels' \in [ChIds -> Channel]
    <2>1. channels' = [channels EXCEPT ![ch] = seated]
      BY DEF JoinFirst
    <2> HIDE DEF seated
    <2> QED
      BY <1>3, <2>1 DEF TypeOK
  <1>9. waitTimers' \subseteq WaitTimer
    <2>1. waitTimers' = waitTimers \cup WaitTimerOf(ch, seated)
      BY DEF JoinFirst
    <2> HIDE DEF seated
    <2> QED
      BY <1>4, <2>1 DEF TypeOK
  <1>10. /\ challengeTimers' \in [Conns -> [ChIds -> Nat]]
         /\ reads' \in Nat /\ joins' \in [Conns -> Nat]
    BY DEF JoinFirst, Draw, TypeOK
  <1>11. handler' = handler /\ deletes' = deletes /\ relayed' = NoRelay
    BY DEF JoinFirst
  <1> QED
    BY <1>6, <1>7, <1>8, <1>9, <1>10, <1>11 DEF TypeOK, ViewType

\* A join that completes a channel keeps the types.
LEMMA TypeJoinSecond ==
  ASSUME TypeOK, NEW c \in Conns, NEW ch \in ChIds, JoinSecond(c, ch)
  PROVE  TypeOK'
  <1> DEFINE k == AfterReplacement(c, Opened(ch))
             old == Replaced(c, Opened(ch))
             s == FreeSlot(k)
             peer == k.peers[1 - s].conn
             both == Seat(Seat(k, s, c, reads + 1), 1 - s, peer, reads + 2)
             told == [d \in old \cup {c, peer} |->
                        CASE d = c    -> Challenge(reads + 1)
                          [] d = peer -> Challenge(reads + 2)
                          [] OTHER    -> Note("out")]
  <1>1. k \in Channel
    BY OpenedType, AfterReplacementType
  <1>2. /\ reads + 1 \in Nonce /\ reads + 2 \in Nonce
        /\ s \in Slot /\ 1 - s \in Slot
    BY DEF TypeOK, Nonce, Slot, FreeSlot
  <1>3. peer \in Conns
    <2>1. 1 - s \in Members(k)
      BY DEF JoinSecond
    <2> QED
      BY <1>1, <2>1, ConnsOfType DEF ChannelMember
  <1>4. both \in Channel
    <2>1. Seat(k, s, c, reads + 1) \in Channel
      BY <1>1, <1>2, SeatType
    <2> QED
      BY <1>2, <1>3, <2>1, SeatType
  <1>5. [both EXCEPT !.state = "CHALLENGING"] \in Channel
    <2> HIDE DEF both
    <2> QED
      BY <1>4 DEF Channel, State
  <1>6. \A d \in DOMAIN told : told[d] \in Notice
    BY <1>2, NoteType
  <1>7. view' \in ViewType
    <2>1. Tell(ch, told) /\ view \in ViewType
      BY DEF JoinSecond, TypeOK, ViewType
    <2> HIDE DEF told
    <2> QED
      BY <1>6, <2>1, TellType
  <1>8. connChannels' \in [Conns -> SUBSET ChIds]
    <2>1. Index(c, ch, old) /\ connChannels \in [Conns -> SUBSET ChIds]
      BY DEF JoinSecond, TypeOK
    <2> QED
      BY <2>1, IndexType
  <1>9. channels' \in [ChIds -> Channel]
    <2>1. channels' =
            [channels EXCEPT ![ch] = [both EXCEPT !.state = "CHALLENGING"]]
      BY DEF JoinSecond
    <2> HIDE DEF both
    <2> QED
      BY <1>5, <2>1 DEF TypeOK
  <1>10. /\ challengeTimers' \in [Conns -> [ChIds -> Nat]]
         /\ reads' \in Nat /\ joins' \in [Conns -> Nat]
    BY DEF JoinSecond, Draw, TypeOK
  <1>11. UNCHANGED <<handler, waitTimers, deletes>> /\ relayed' = NoRelay
    BY DEF JoinSecond
  <1> QED
    BY <1>7, <1>8, <1>9, <1>10, <1>11 DEF TypeOK, ViewType

\* The two joins that stop at a failed rand.Read.
LEMMA TypeJoinFails ==
  ASSUME TypeOK, NEW c \in Conns, NEW ch \in ChIds,
         JoinNonceFails(c, ch) \/ JoinSecondNonceFails(c, ch)
  PROVE  TypeOK'
  <1> DEFINE k == AfterReplacement(c, Opened(ch))
             old == Replaced(c, Opened(ch))
             waiting == BackToWait(k, k.peers)
             told == [d \in old |-> Note("out")]
  <1>1. k \in Channel
    BY OpenedType, AfterReplacementType
  <1>2. waiting \in Channel /\ WaitTimerOf(ch, waiting) \subseteq WaitTimer
    <2>1. k.peers \in [Slot -> Peer]
      BY <1>1 DEF Channel
    <2>2. waiting \in Channel
      BY <1>1, <2>1, BackToWaitType
    <2> QED
      BY <2>2, WaitTimerOfType
  <1>3. view' \in ViewType
    <2>1. Tell(ch, told) /\ view \in ViewType
      BY DEF JoinNonceFails, JoinSecondNonceFails, TypeOK, ViewType
    <2>2. \A d \in DOMAIN told : told[d] \in Notice
      BY NoteType
    <2> HIDE DEF told
    <2> QED
      BY <2>1, <2>2, TellType
  <1>4. connChannels' \in [Conns -> SUBSET ChIds]
    <2>1. /\ Unindex(old, ch) \/ Unindex(old \cup {c}, ch)
          /\ connChannels \in [Conns -> SUBSET ChIds]
      BY DEF JoinNonceFails, JoinSecondNonceFails, TypeOK
    <2> QED
      BY <2>1, UnindexType
  <1>5. channels' \in [ChIds -> Channel]
    <2>1. \/ channels' = [channels EXCEPT ![ch] = k]
          \/ channels' = [channels EXCEPT ![ch] = waiting]
      BY DEF JoinNonceFails, JoinSecondNonceFails
    <2> HIDE DEF k, waiting
    <2> QED
      BY <1>1, <1>2, <2>1 DEF TypeOK
  <1>6. waitTimers' \subseteq WaitTimer
    <2>1. \/ waitTimers' = waitTimers
          \/ waitTimers' = waitTimers \cup WaitTimerOf(ch, waiting)
      BY DEF JoinNonceFails, JoinSecondNonceFails
    <2> HIDE DEF waiting
    <2> QED
      BY <1>2, <2>1 DEF TypeOK
  <1>7. reads' \in Nat /\ joins' \in [Conns -> Nat]
    <2>1. Draw(c, 1) \/ Draw(c, 2)
      BY DEF JoinNonceFails, JoinSecondNonceFails
    <2>2. reads \in Nat /\ joins \in [Conns -> Nat]
      BY DEF TypeOK
    <2> QED
      BY <2>1, <2>2 DEF Draw
  <1>8. UNCHANGED <<handler, challengeTimers, deletes>> /\ relayed' = NoRelay
    BY DEF JoinNonceFails, JoinSecondNonceFails
  <1> QED
    BY <1>3, <1>4, <1>5, <1>6, <1>7, <1>8 DEF TypeOK, ViewType

\* A response keeps the types.
LEMMA TypeResponse ==
  ASSUME TypeOK, NEW c \in Conns, NEW ch \in ChIds, HandleResponse(c, ch)
  PROVE  TypeOK'
  <1> DEFINE k == channels[ch]
             told == [d \in ConnsOf(k) |->
                        VerifyPeer(k.peers[OtherSlot(k, d)])]
  <1>0. k \in Channel
    BY DEF TypeOK
  <1>1. UNCHANGED <<connChannels, handler, challengeTimers, waitTimers,
                    deletes, reads, joins>> /\ relayed' = NoRelay
    BY DEF HandleResponse
  <1>2. PICK s \in SlotsOf(k, c) :
          \/ /\ channels' = [channels EXCEPT ![ch] = Answered(k, s)]
             /\ view' = view
          \/ /\ Completes(k, s)
             /\ channels' = [channels EXCEPT ![ch] = Activated(k)]
             /\ Tell(ch, told)
    BY DEF HandleResponse
  <1>3. s \in Slot
    BY DEF SlotsOf
  <1>4. channels' \in [ChIds -> Channel]
    <2>1. k.peers[s].conn \in Conns
      BY <1>2 DEF SlotsOf
    <2>2. Answered(k, s) \in Channel /\ Activated(k) \in Channel
      BY <1>0, <1>3, <2>1, AnsweredType, ActivatedType
    <2> QED
      BY <1>2, <2>2 DEF TypeOK
  <1>5. view' \in ViewType
    <2>1. CASE view' = view
      BY <2>1 DEF TypeOK, ViewType
    <2>2. CASE Completes(k, s) /\ Tell(ch, told)
      <3>1. \A d \in ConnsOf(k) : OtherSlot(k, d) \in Slot
        BY DEF OtherSlot, SlotOf, Slot
      <3>2. \A d \in DOMAIN told : told[d] \in Notice
        <4> SUFFICES ASSUME NEW d \in ConnsOf(k)
                     PROVE  VerifyPeer(k.peers[OtherSlot(k, d)]) \in Notice
          OBVIOUS
        <4>1. \A t \in Slot : k.peers[t] \in ChannelMember
          BY <1>0, <1>2, <2>2, ConnsAssumption
            DEF Completes, SlotsOf, Channel, Peer, NoPeer
        <4> QED
          BY <3>1, <4>1, NoteType
      <3> HIDE DEF told
      <3> QED
        BY <2>2, <3>2, TellType DEF TypeOK, ViewType
    <2> QED
      BY <1>2, <2>1, <2>2
  <1> QED
    BY <1>1, <1>4, <1>5 DEF TypeOK, ViewType

\* A leave keeps the types.
LEMMA TypeLeave ==
  ASSUME TypeOK, NEW c \in Conns, NEW ch \in ChIds, HandleLeave(c, ch)
  PROVE  TypeOK'
  <1>1. UNCHANGED <<challengeTimers, deletes, reads, joins>>
        /\ relayed' = NoRelay
    BY DEF HandleLeave
  <1>2. CASE LeaveMember(c, ch)
    <2> DEFINE k(s) == Without(channels[ch], s)
               told(s) == [d \in ConnsOf(k(s)) \cup {c} |->
                             Note(IF d = c THEN "out" ELSE "peer_left")]
    <2>1. PICK s \in SlotsOf(channels[ch], c) :
            /\ channels' = [channels EXCEPT ![ch] = k(s)]
            /\ waitTimers' = waitTimers \cup WaitTimerOf(ch, k(s))
            /\ Tell(ch, told(s))
            /\ \/ /\ handler' = [handler EXCEPT ![c] =
                       [at |-> "leaving", ch |-> ch, obj |-> k(s).obj]]
                  /\ UNCHANGED connChannels
               \/ Unindex({c}, ch) /\ UNCHANGED handler
      BY <1>2 DEF LeaveMember
    <2>2. k(s) \in Channel
      BY WithoutType DEF SlotsOf, TypeOK
    <2>3. WaitTimerOf(ch, k(s)) \subseteq WaitTimer
      BY <2>2, WaitTimerOfType
    <2>4. \A d \in DOMAIN told(s) : told(s)[d] \in Notice
      BY NoteType
    <2>5. k(s).obj \in Nat
      BY <2>2 DEF Channel
    <2> HIDE DEF k, told
    <2>6. view' \in ViewType
      BY <2>1, <2>4, TellType DEF TypeOK, ViewType
    <2>7. connChannels' \in [Conns -> SUBSET ChIds]
      BY <2>1, UnindexType DEF TypeOK
    <2>8. handler' \in [Conns -> Handler]
      <3>1. [at |-> "leaving", ch |-> ch, obj |-> k(s).obj] \in Handler
        BY <2>5 DEF Handler
      <3>2. handler \in [Conns -> Handler]
        BY DEF TypeOK
      <3> HIDE DEF Handler
      <3> QED
        BY <2>1, <3>1, <3>2
    <2>9. channels' \in [ChIds -> Channel] /\ waitTimers' \subseteq WaitTimer
      BY <2>1, <2>2, <2>3 DEF TypeOK
    <2> QED
      BY <1>1, <2>6, <2>7, <2>8, <2>9 DEF TypeOK, ViewType
  <1>3. CASE LeaveStranger(c, ch)
    <2> DEFINE told == [d \in {c} |-> Note("out")]
    <2>1. /\ Unindex({c}, ch) /\ Tell(ch, told)
          /\ UNCHANGED <<channels, handler, waitTimers>>
      BY <1>3 DEF LeaveStranger
    <2>2. \A d \in DOMAIN told : told[d] \in Notice
      BY NoteType
    <2> HIDE DEF told
    <2>3. view' \in ViewType
      BY <2>1, <2>2, TellType DEF TypeOK, ViewType
    <2>4. connChannels' \in [Conns -> SUBSET ChIds]
      BY <2>1, UnindexType DEF TypeOK
    <2> QED
      BY <1>1, <2>1, <2>3, <2>4 DEF TypeOK, ViewType
  <1> QED
    BY <1>2, <1>3 DEF HandleLeave

\* The deferred half of a leave keeps the types.
LEMMA TypeFinishLeave ==
  ASSUME TypeOK, NEW c \in Conns, FinishLeave(c)
  PROVE  TypeOK'
  <1>1. /\ handler[c].at = "leaving"
        /\ DeleteIfSame(handler[c].ch, handler[c].obj)
        /\ Unindex({c}, handler[c].ch)
        /\ handler' = [handler EXCEPT ![c] = At("reading")]
        /\ UNCHANGED <<challengeTimers, waitTimers, deletes, reads, joins,
                       view>>
        /\ relayed' = NoRelay
    BY DEF FinishLeave
  <1>2. handler[c].ch \in ChIds
    BY <1>1 DEF TypeOK, Handler
  <1>3. channels' \in [ChIds -> Channel]
    BY <1>1, <1>2, DeleteIfSameType DEF TypeOK
  <1>4. connChannels' \in [Conns -> SUBSET ChIds]
    BY <1>1, UnindexType DEF TypeOK
  <1>5. handler' \in [Conns -> Handler]
    BY <1>1, AtType DEF TypeOK
  <1> QED
    BY <1>1, <1>3, <1>4, <1>5 DEF TypeOK

\* A rejection keeps the types.
LEMMA TypeVerifyRejected ==
  ASSUME TypeOK, NEW c \in Conns, NEW ch \in ChIds,
         HandleVerifyRejected(c, ch)
  PROVE  TypeOK'
  <1> DEFINE k == channels[ch]
             others == {s \in Members(k) : k.peers[s].conn # c}
             last == IF 1 \in others THEN 1 ELSE 0
             told == [d \in {c} \cup {k.peers[s].conn : s \in others \ {last}}
                        |-> Note(IF d = c THEN "out" ELSE "dropped")]
  <1>1. /\ channels' = [channels EXCEPT ![ch] = NoChannel]
        /\ Unindex(ConnsOf(k), ch)
        /\ handler' = [handler EXCEPT ![c] =
             IF others = {} THEN At("reading")
             ELSE [at |-> "rejecting", ch |-> ch, to |-> k.peers[last].conn]]
        /\ Tell(ch, told)
        /\ UNCHANGED <<challengeTimers, waitTimers, deletes, reads, joins>>
        /\ relayed' = NoRelay
    BY DEF HandleVerifyRejected
  <1>2. k \in Channel
    BY DEF TypeOK
  <1>3. others # {} => k.peers[last].conn \in Conns
    <2>1. others # {} => last \in Members(k)
      BY DEF Members, Slot
    <2> QED
      BY <1>2, <2>1, ConnsOfType DEF ChannelMember
  <1>4. \A d \in DOMAIN told : told[d] \in Notice
    BY NoteType
  <1>5. view' \in ViewType
    <2> HIDE DEF told
    <2> QED
      BY <1>1, <1>4, TellType DEF TypeOK, ViewType
  <1>6. handler' \in [Conns -> Handler]
    <2> HIDE DEF others, last
    <2> QED
      BY <1>1, <1>3, AtType DEF TypeOK, Handler
  <1>7. connChannels' \in [Conns -> SUBSET ChIds]
    BY <1>1, UnindexType DEF TypeOK
  <1>8. channels' \in [ChIds -> Channel]
    BY <1>1, NoPeerType DEF TypeOK
  <1> QED
    BY <1>1, <1>5, <1>6, <1>7, <1>8 DEF TypeOK, ViewType

\* The late notice of a rejection keeps the types.
LEMMA TypeSendRejected ==
  ASSUME TypeOK, NEW c \in Conns, SendRejected(c)
  PROVE  TypeOK'
  <1> DEFINE told == [d \in {handler[c].to} |-> Note("verify_rejected")]
  <1>1. /\ handler[c].at = "rejecting"
        /\ Tell(handler[c].ch, told)
        /\ handler' = [handler EXCEPT ![c] = At("reading")]
        /\ UNCHANGED <<channels, connChannels, challengeTimers, waitTimers,
                       deletes, reads, joins>>
        /\ relayed' = NoRelay
    BY DEF SendRejected
  <1>2. handler[c].ch \in ChIds
    BY <1>1 DEF TypeOK, Handler
  <1>3. \A d \in DOMAIN told : told[d] \in Notice
    BY NoteType
  <1>4. view' \in ViewType
    <2> HIDE DEF told
    <2> QED
      BY <1>1, <1>2, <1>3, TellType DEF TypeOK, ViewType
  <1>5. handler' \in [Conns -> Handler]
    BY <1>1, AtType DEF TypeOK
  <1> QED
    BY <1>1, <1>4, <1>5 DEF TypeOK, ViewType

\* The end of a read loop keeps the types.
LEMMA TypeCloseConn ==
  ASSUME TypeOK, NEW c \in Conns, CloseConn(c)
  PROVE  TypeOK'
  <1>1. handler' \in [Conns -> Handler]
    BY DEF CloseConn, TypeOK, Handler
  <1>2. view' \in ViewType
    BY NoteType DEF CloseConn, TypeOK, ViewType
  <1> QED
    BY <1>1, <1>2 DEF CloseConn, TypeOK, ViewType

\* What a disconnection leaves of a channel is a Channel.
LEMMA CutType ==
  ASSUME TypeOK, NEW c \in Conns, NEW ch \in ChIds
  PROVE  Cut(c, ch) \in Channel
  <1>1. SlotOf(channels[ch], c) \in Slot
    BY DEF SlotOf, Slot
  <1> QED
    BY <1>1, WithoutType, NoPeerType DEF Cut, TypeOK

\* A disconnection keeps the types.
LEMMA TypeUnregisterConn ==
  ASSUME TypeOK, NEW c \in Conns, UnregisterConn(c)
  PROVE  TypeOK'
  <1>1. handler[c].chs \subseteq ChIds
    BY DEF UnregisterConn, TypeOK, Handler
  <1>2. \A ch \in ChIds : Cut(c, ch) \in Channel
    BY CutType
  <1>3. channels' \in [ChIds -> Channel]
    BY <1>2 DEF UnregisterConn, TypeOK
  <1>4. waitTimers' \subseteq WaitTimer
    <2>1. \A ch \in ChIds : WaitTimerOf(ch, Cut(c, ch)) \subseteq WaitTimer
      BY <1>2, WaitTimerOfType
    <2> QED
      BY <1>1, <2>1 DEF UnregisterConn, TypeOK
  <1>5. view' \in ViewType
    BY NoteType DEF UnregisterConn, TypeOK, ViewType
  <1>6. handler' \in [Conns -> Handler]
        /\ connChannels' \in [Conns -> SUBSET ChIds]
    BY AtType DEF UnregisterConn, TypeOK
  <1>7. UNCHANGED <<challengeTimers, deletes, reads, joins>>
        /\ relayed' = NoRelay
    BY DEF UnregisterConn
  <1> QED
    BY <1>3, <1>4, <1>5, <1>6, <1>7 DEF TypeOK, ViewType

\* A challenge timeout keeps the types.
LEMMA TypeChallengeTimeout ==
  ASSUME TypeOK, NEW c \in Conns, NEW ch \in ChIds, ChallengeTimeout(c, ch)
  PROVE  TypeOK'
  <1>1. /\ challengeTimers[c][ch] > 0
        /\ challengeTimers' = [challengeTimers EXCEPT ![c][ch] = @ - 1]
        /\ UNCHANGED <<handler, reads, joins>> /\ relayed' = NoRelay
    BY DEF ChallengeTimeout
  <1>2. challengeTimers' \in [Conns -> [ChIds -> Nat]]
    BY <1>1 DEF TypeOK
  <1>3. CASE UNCHANGED <<channels, connChannels, waitTimers, deletes, view>>
    BY <1>1, <1>2, <1>3 DEF TypeOK
  <1>4. ASSUME NEW s \in Slot, Expire(c, ch, s)
        PROVE  TypeOK'
    <2> DEFINE rest == Without(channels[ch], s)
               told == [d \in {c} |-> Note("out")]
    <2>1. /\ channels' = [channels EXCEPT ![ch] = rest]
          /\ waitTimers' = waitTimers \cup WaitTimerOf(ch, rest)
          /\ Unindex({c}, ch)
          /\ Tell(ch, told)
          /\ deletes' \subseteq
               deletes \cup {[ch |-> ch, obj |-> channels[ch].obj]}
      BY <1>4 DEF Expire
    <2>2. rest \in Channel /\ WaitTimerOf(ch, rest) \subseteq WaitTimer
      BY WithoutType, WaitTimerOfType DEF TypeOK
    <2>3. \A d \in DOMAIN told : told[d] \in Notice
      BY NoteType
    <2>4. [ch |-> ch, obj |-> channels[ch].obj] \in Delete
      BY DEF TypeOK, Channel, Delete
    <2> HIDE DEF rest, told
    <2>5. view' \in ViewType
      BY <2>1, <2>3, TellType DEF TypeOK, ViewType
    <2>6. connChannels' \in [Conns -> SUBSET ChIds]
      BY <2>1, UnindexType DEF TypeOK
    <2>7. channels' \in [ChIds -> Channel]
      BY <2>1, <2>2 DEF TypeOK
    <2> QED
      BY <1>1, <1>2, <2>1, <2>2, <2>4, <2>5, <2>6, <2>7 DEF TypeOK, ViewType
  <1> QED
    BY <1>3, <1>4 DEF ChallengeTimeout, SlotsOf

\* A wait timeout keeps the types.
LEMMA TypeWaitPeerTimeout ==
  ASSUME TypeOK, NEW t \in waitTimers, WaitPeerTimeout(t)
  PROVE  TypeOK'
  <1>1. /\ waitTimers' = waitTimers \ {t}
        /\ UNCHANGED <<handler, challengeTimers, reads, joins>>
        /\ relayed' = NoRelay
    BY DEF WaitPeerTimeout
  <1>2. t.ch \in ChIds
    BY DEF TypeOK, WaitTimer
  <1>3. CASE UNCHANGED <<channels, connChannels, deletes, view>>
    BY <1>1, <1>3 DEF TypeOK
  <1>4. CASE ~ UNCHANGED <<channels, connChannels, deletes, view>>
    <2> DEFINE k == channels[t.ch]
               told == [d \in ConnsOf(k) |-> Note("out")]
    <2>1. /\ channels' = [channels EXCEPT ![t.ch].peers = NoPeers]
          /\ Unindex(ConnsOf(k), t.ch)
          /\ Tell(t.ch, told)
          /\ deletes' = deletes \cup {[ch |-> t.ch, obj |-> k.obj]}
      BY <1>4 DEF WaitPeerTimeout
    <2>2. \A d \in DOMAIN told : told[d] \in Notice
      BY NoteType
    <2>3. [ch |-> t.ch, obj |-> k.obj] \in Delete
      BY <1>2 DEF TypeOK, Channel, Delete
    <2>4. channels' \in [ChIds -> Channel]
      BY <1>2, <2>1, NoPeerType DEF TypeOK, Channel
    <2> HIDE DEF told
    <2>5. view' \in ViewType
      BY <1>2, <2>1, <2>2, TellType DEF TypeOK, ViewType
    <2>6. connChannels' \in [Conns -> SUBSET ChIds]
      BY <2>1, UnindexType DEF TypeOK
    <2> QED
      BY <1>1, <2>1, <2>3, <2>4, <2>5, <2>6 DEF TypeOK, ViewType
  <1> QED
    BY <1>3, <1>4

\* The deferred deletion of a timer keeps the types.
LEMMA TypeDeferredDelete ==
  ASSUME TypeOK, NEW d \in deletes, DeferredDelete(d)
  PROVE  TypeOK'
  <1>1. d.ch \in ChIds
    BY DEF TypeOK, Delete
  <1>2. channels' \in [ChIds -> Channel]
    BY <1>1, DeleteIfSameType DEF DeferredDelete, TypeOK
  <1> QED
    BY <1>2 DEF DeferredDelete, TypeOK

\* A data message keeps the types.
LEMMA TypeRelay ==
  ASSUME TypeOK, NEW c \in Conns, NEW ch \in ChIds, HandleRelay(c, ch)
  PROVE  TypeOK'
  <1>1. PICK s \in Slot :
          /\ channels[ch].peers[1 - s].conn # NoConn
          /\ relayed' = [ch |-> ch, from |-> c,
                         to |-> channels[ch].peers[1 - s].conn]
    BY DEF HandleRelay, SlotsOf
  <1>2. channels[ch].peers[1 - s] \in Peer
    BY DEF TypeOK, Channel, Slot
  <1>3. channels[ch].peers[1 - s].conn \in Conns
    BY <1>1, <1>2 DEF Peer, ChannelMember, NoPeer
  <1> QED
    BY <1>1, <1>3 DEF HandleRelay, TypeOK

\* A new connection keeps the types.
LEMMA TypeRegisterConn ==
  ASSUME TypeOK, NEW c \in Conns, RegisterConn(c)
  PROVE  TypeOK'
  BY AtType DEF RegisterConn, TypeOK

\* Every step keeps the types.
LEMMA TypeStep == TypeOK /\ [Next]_vars => TypeOK'
  <1> SUFFICES ASSUME TypeOK, [Next]_vars
               PROVE  TypeOK'
    OBVIOUS
  <1>1. ASSUME NEW c \in Conns, Serve(c)
        PROVE  TypeOK'
    BY <1>1, TypeRegisterConn, TypeJoinFirst, TypeJoinSecond, TypeJoinFails,
       TypeResponse, TypeRelay, TypeLeave, TypeVerifyRejected,
       TypeFinishLeave, TypeSendRejected, TypeCloseConn, TypeUnregisterConn
      DEF Serve, HandleJoin
  <1>2. CASE FireChallenge
    BY <1>2, TypeChallengeTimeout DEF FireChallenge
  <1>3. CASE FireWait
    BY <1>3, TypeWaitPeerTimeout DEF FireWait
  <1>4. CASE FinishDelete
    BY <1>4, TypeDeferredDelete DEF FinishDelete
  <1>5. CASE UNCHANGED vars
    BY <1>5 DEF vars, TypeOK
  <1> QED
    BY <1>1, <1>2, <1>3, <1>4, <1>5 DEF Next

\* Whatever the clients do and in whatever order timers fire, each variable
\* keeps the shape of the Go value it stands for: no slot outside the two, no
\* notice about a peer that is no client, no negative timer count.
THEOREM TypeCorrect == Spec => []TypeOK
  BY TypeInit, TypeStep, PTL DEF Spec

-----------------------------------------------------------------------------
(* Membership.  The invariant is a fact about each Channel by itself and one *)
(* about the two places that record a membership.                            *)

StateOK(k) ==
  /\ k.state \in {"CHALLENGING", "ACTIVE"} => Members(k) = Slot
  /\ k.state \in {"NONE", "WAIT_PEER"} => Members(k) # Slot

DistinctOK(k) ==
  \A s, t \in Members(k) :
    s # t => IdOf[k.peers[s].conn] # IdOf[k.peers[t].conn]

AnswerMissing(k) ==
  k.state = "CHALLENGING" => \E s \in Slot : ~k.peers[s].answered

ChannelOK(k) ==
  /\ ~RandMayFail => StateOK(k)
  /\ DistinctOK(k)
  /\ AnswerMissing(k)

\* A connection inside handleLeave has lost its slot already.
LeaversLeft ==
  \A c \in Conns :
    handler[c].at = "leaving" => c \notin ConnsOf(channels[handler[c].ch])

IInv ==
  /\ TypeOK
  /\ \A ch \in ChIds : ChannelOK(channels[ch])
  /\ MembersIndexed
  /\ LeaversLeft

\* A channel whose members are all gone satisfies ChannelOK.
LEMMA EmptyOK ==
  /\ ChannelOK(NoChannel) /\ ConnsOf(NoChannel) = {}
  /\ \A k \in Channel :
       k.state \in {"NONE", "WAIT_PEER"}
         => ChannelOK([k EXCEPT !.peers = NoPeers])
  /\ \A k \in Channel : ConnsOf([k EXCEPT !.peers = NoPeers]) = {}
  BY DEF ChannelOK, StateOK, DistinctOK, AnswerMissing, ConnsOf, Members,
         NoChannel, NoPeers, NoPeer, Slot, Channel

\* What is left of a channel when slot s is taken out.
LEMMA WithoutOK ==
  ASSUME NEW k \in Channel, NEW s \in Members(k), ChannelOK(k)
  PROVE  /\ ChannelOK(Without(k, s))
         /\ ConnsOf(Without(k, s)) \subseteq ConnsOf(k) \ {k.peers[s].conn}
  <1> DEFINE rest == Members(k) \ {s}
             cleared == [t \in Slot |->
                           IF t \in rest
                           THEN [conn |-> k.peers[t].conn, nonce |-> 0,
                                 answered |-> FALSE]
                           ELSE NoPeer]
  <1>1. s \in Slot /\ Members(k) \subseteq Slot
    BY DEF Members
  <1>2. \A t \in rest : k.peers[t].conn # k.peers[s].conn
    BY DEF ChannelOK, DistinctOK
  <1>3. CASE rest = {}
    <2>1. Without(k, s) = [k EXCEPT !.peers[s] = NoPeer]
      BY <1>3 DEF Without
    <2>2. Members(Without(k, s)) = {}
      BY <1>1, <1>3, <2>1 DEF Members, NoPeer, Channel
    <2>3. Without(k, s).peers[s] = NoPeer /\ Without(k, s).state = k.state
      BY <1>1, <2>1 DEF Channel
    <2>4. k.state \in {"CHALLENGING", "ACTIVE"} => RandMayFail
      BY <1>3 DEF ChannelOK, StateOK, Slot
    <2> QED
      BY <1>1, <2>2, <2>3, <2>4, RandAssumption
        DEF ChannelOK, StateOK, DistinctOK, AnswerMissing, ConnsOf, Slot,
            NoPeer
  <1>4. CASE rest # {}
    <2>1. /\ Without(k, s).state = "WAIT_PEER"
          /\ Without(k, s).peers = cleared
      BY <1>4 DEF Without, BackToWait
    <2>2. Members(Without(k, s)) = rest
      BY <1>1, <2>1 DEF Members, NoPeer
    <2>3. \A t \in rest : Without(k, s).peers[t].conn = k.peers[t].conn
      BY <1>1, <2>1
    <2>4. StateOK(Without(k, s))
      BY <1>1, <2>1, <2>2 DEF StateOK
    <2>5. DistinctOK(Without(k, s))
      BY <2>2, <2>3 DEF ChannelOK, DistinctOK
    <2> QED
      BY <1>2, <2>1, <2>2, <2>3, <2>4, <2>5
        DEF ChannelOK, AnswerMissing, ConnsOf
  <1> QED
    BY <1>3, <1>4

\* The channel a join works on satisfies ChannelOK.
LEMMA OpenedOK ==
  ASSUME TypeOK, NEW ch \in ChIds, ChannelOK(channels[ch])
  PROVE  /\ ChannelOK(Opened(ch))
         /\ ConnsOf(Opened(ch)) \subseteq ConnsOf(channels[ch])
  <1>1. CASE Mapped(ch)
    BY <1>1 DEF Opened
  <1>2. CASE ~Mapped(ch)
    <2>1. /\ Opened(ch).state = "WAIT_PEER"
          /\ Opened(ch).peers = NoPeers
      BY <1>2 DEF Opened
    <2>2. Members(Opened(ch)) = {}
      BY <2>1 DEF Members, NoPeers, NoPeer
    <2> QED
      BY <2>1, <2>2
        DEF ChannelOK, StateOK, DistinctOK, AnswerMissing, ConnsOf, Slot
  <1> QED
    BY <1>1, <1>2

\* After the replacement no member has the joining id.
LEMMA AfterReplacementOK ==
  ASSUME NEW k \in Channel, NEW c \in Conns, ChannelOK(k)
  PROVE  LET r == AfterReplacement(c, k) IN
         /\ r.state = k.state
         /\ DistinctOK(r) /\ AnswerMissing(r)
         /\ ConnsOf(r) \subseteq ConnsOf(k) \ Replaced(c, k)
         /\ \A d \in ConnsOf(r) : IdOf[d] # IdOf[c]
  <1> DEFINE r == AfterReplacement(c, k)
  <1>1. /\ r.state = k.state
        /\ \A s \in Slot :
             r.peers[s] = IF k.peers[s].conn \in Replaced(c, k) THEN NoPeer
                          ELSE k.peers[s]
    BY DEF AfterReplacement, Channel
  <1> HIDE DEF r
  <1>2. \A s \in Members(r) :
          /\ s \in Members(k) /\ r.peers[s] = k.peers[s]
          /\ k.peers[s].conn \notin Replaced(c, k)
    BY <1>1 DEF Members, NoPeer
  <1>3. DistinctOK(r)
    BY <1>2 DEF ChannelOK, DistinctOK
  <1>4. AnswerMissing(r)
    BY <1>1 DEF ChannelOK, AnswerMissing, NoPeer
  <1>5. ConnsOf(r) \subseteq ConnsOf(k) \ Replaced(c, k)
    BY <1>2 DEF ConnsOf
  <1>6. \A d \in ConnsOf(r) : IdOf[d] # IdOf[c]
    BY <1>5 DEF Replaced
  <1> QED
    BY <1>1, <1>3, <1>4, <1>5, <1>6 DEF r

\* The channel JoinFirst leaves.
LEMMA FirstOK ==
  ASSUME NEW k \in Channel, NEW c \in Conns, NEW n \in Nonce, Members(k) = {}
  PROVE  LET seated == BackToWait(k, Seat(k, 0, c, n).peers) IN
         /\ ChannelOK(seated)
         /\ ConnsOf(seated) = {c}
  <1> DEFINE seated == BackToWait(k, Seat(k, 0, c, n).peers)
  <1>1. /\ seated.state = "WAIT_PEER"
        /\ seated.peers[0] = [conn |-> c, nonce |-> n, answered |-> FALSE]
        /\ seated.peers[1] = k.peers[1]
    BY DEF BackToWait, Seat, Channel, Slot
  <1>2. Members(seated) = {0}
    <2>1. k.peers[1].conn = NoConn
      BY DEF Members, Slot
    <2> QED
      BY <1>1, <2>1, ConnsAssumption DEF Members, Slot
  <1> HIDE DEF seated
  <1>3. ChannelOK(seated)
    BY <1>1, <1>2 DEF ChannelOK, StateOK, DistinctOK, AnswerMissing, Slot
  <1>4. ConnsOf(seated) = {c}
    BY <1>1, <1>2 DEF ConnsOf
  <1> QED
    BY <1>3, <1>4 DEF seated

\* The channel JoinSecond leaves.
LEMMA SecondOK ==
  ASSUME NEW k \in Channel, NEW c \in Conns, NEW n \in Nonce, NEW m \in Nonce,
         NEW s \in Slot, Members(k) = {1 - s},
         \A d \in ConnsOf(k) : IdOf[d] # IdOf[c]
  PROVE  LET peer == k.peers[1 - s].conn
             both == Seat(Seat(k, s, c, n), 1 - s, peer, m)
             seated == [both EXCEPT !.state = "CHALLENGING"]
         IN /\ ChannelOK(seated)
            /\ ConnsOf(seated) = {c, peer}
            /\ peer \in ConnsOf(k)
  <1> DEFINE peer == k.peers[1 - s].conn
             both == Seat(Seat(k, s, c, n), 1 - s, peer, m)
             seated == [both EXCEPT !.state = "CHALLENGING"]
  <1>1. 1 - s \in Slot /\ s # 1 - s /\ Slot = {s, 1 - s}
    BY DEF Slot
  <1>2. peer \in ConnsOf(k) /\ peer # NoConn /\ c # NoConn
    BY <1>1, ConnsAssumption DEF ConnsOf, Members
  <1>3. /\ seated.state = "CHALLENGING"
        /\ seated.peers[s] = [conn |-> c, nonce |-> n, answered |-> FALSE]
        /\ seated.peers[1 - s] =
             [conn |-> peer, nonce |-> m, answered |-> FALSE]
    BY <1>1 DEF Seat, Channel
  <1> HIDE DEF seated, peer
  <1>4. Members(seated) = Slot
    BY <1>1, <1>2, <1>3 DEF Members
  <1>5. IdOf[peer] # IdOf[c]
    BY <1>2
  <1>6. ConnsOf(seated) = {c, peer}
    BY <1>1, <1>3, <1>4 DEF ConnsOf
  <1>7. StateOK(seated) /\ AnswerMissing(seated)
    BY <1>3, <1>4 DEF StateOK, AnswerMissing
  <1>8. DistinctOK(seated)
    BY <1>1, <1>3, <1>4, <1>5 DEF DistinctOK
  <1> QED
    BY <1>2, <1>6, <1>7, <1>8 DEF ChannelOK, seated, peer

\* The channel JoinSecondNonceFails leaves.
LEMMA WaitingOK ==
  ASSUME NEW k \in Channel, DistinctOK(k), Members(k) # Slot
  PROVE  /\ ChannelOK(BackToWait(k, k.peers))
         /\ ConnsOf(BackToWait(k, k.peers)) = ConnsOf(k)
  BY DEF ChannelOK, StateOK, DistinctOK, AnswerMissing, ConnsOf, Members,
         BackToWait

\* The two channels HandleResponse leaves.
LEMMA ResponseOK ==
  ASSUME NEW k \in Channel, NEW s \in Members(k), ChannelOK(k)
  PROVE  /\ ~Completes(k, s) => ChannelOK(Answered(k, s))
         /\ ConnsOf(Answered(k, s)) = ConnsOf(k)
         /\ Completes(k, s) => ChannelOK(Activated(k))
         /\ ConnsOf(Activated(k)) = ConnsOf(k)
  <1>1. s \in Slot /\ Members(k) \subseteq Slot
    BY DEF Members
  <1>2. \A t \in Slot : k.peers[t] \in Peer
    BY DEF Channel
  <1>3. /\ Answered(k, s).state = k.state
        /\ \A t \in Slot : Answered(k, s).peers[t].conn = k.peers[t].conn
        /\ \A t \in Slot \ {s} : Answered(k, s).peers[t] = k.peers[t]
    BY <1>1, <1>2 DEF Answered, Channel, Peer, ChannelMember, NoPeer
  <1>4. /\ Activated(k).state = "ACTIVE"
        /\ \A t \in Slot : Activated(k).peers[t].conn = k.peers[t].conn
    BY DEF Activated, Channel
  <1>5. Members(Answered(k, s)) = Members(k) /\ Members(Activated(k)) = Members(k)
    BY <1>3, <1>4 DEF Members
  <1>6. ConnsOf(Answered(k, s)) = ConnsOf(k) /\ ConnsOf(Activated(k)) = ConnsOf(k)
    BY <1>1, <1>3, <1>4, <1>5 DEF ConnsOf
  <1>7. DistinctOK(Answered(k, s)) /\ DistinctOK(Activated(k))
    BY <1>1, <1>3, <1>4, <1>5 DEF ChannelOK, DistinctOK
  <1>8. ASSUME ~Completes(k, s)
        PROVE  ChannelOK(Answered(k, s))
    <2>1. AnswerMissing(Answered(k, s))
      BY <1>3, <1>8 DEF Completes, AnswerMissing
    <2> QED
      BY <1>3, <1>5, <1>7, <2>1 DEF ChannelOK, StateOK
  <1>9. ASSUME Completes(k, s)
        PROVE  ChannelOK(Activated(k))
    <2>1. \A t \in Slot \ {s} : k.peers[t].conn # NoConn
      BY <1>2, <1>9, ConnsAssumption DEF Completes, Peer, ChannelMember, NoPeer
    <2>2. Members(k) = Slot
      BY <1>1, <2>1 DEF Members
    <2> QED
      BY <1>4, <1>5, <1>7, <2>2 DEF ChannelOK, StateOK, AnswerMissing
  <1> QED
    BY <1>6, <1>8, <1>9

\* A step that puts k in place of one channel, a Channel without the
\* connections in gone.
LEMMA RemovalStep ==
  ASSUME IInv, TypeOK', NEW ch \in ChIds, NEW k, NEW gone,
         channels' = [channels EXCEPT ![ch] = k],
         ChannelOK(k), ConnsOf(k) \subseteq ConnsOf(channels[ch]) \ gone,
         Unindex(gone, ch) \/ UNCHANGED connChannels,
         \A d \in Conns :
           \/ handler'[d] = handler[d]
           \/ /\ handler[d].at \in {"reading", "leaving", "rejecting"}
              /\ handler'[d].at \in {"reading", "rejecting"}
           \/ /\ handler[d].at = "reading" /\ handler'[d].at = "leaving"
              /\ handler'[d].ch = ch /\ d \in gone
  PROVE  IInv'
  <1>1. /\ channels'[ch] = k
        /\ \A x \in ChIds : x # ch => channels'[x] = channels[x]
    BY DEF IInv, TypeOK
  <1>2. \A x \in ChIds : ConnsOf(channels'[x]) \subseteq ConnsOf(channels[x])
    BY <1>1
  <1>3. (\A x \in ChIds : ChannelOK(channels[x]))'
    BY <1>1 DEF IInv
  <1>4. MembersIndexed'
    <2> SUFFICES ASSUME NEW x \in ChIds, NEW d \in ConnsOf(channels'[x])
                 PROVE  Indexed(d, x)'
      BY DEF MembersIndexed
    <2>1. Indexed(d, x) /\ d \in Conns
      BY <1>2, ConnsOfType DEF IInv, MembersIndexed, TypeOK
    <2>2. x = ch => d \notin gone
      BY <1>1
    <2>3. x \in connChannels[d] => x \in connChannels'[d]
      BY <2>1, <2>2 DEF Unindex
    <2> QED
      BY <2>1, <2>2, <2>3 DEF Indexed
  <1>5. LeaversLeft'
    <2> SUFFICES ASSUME NEW d \in Conns, handler'[d].at = "leaving"
                 PROVE  d \notin ConnsOf(channels'[handler'[d].ch])
      BY DEF LeaversLeft
    <2>1. CASE handler'[d] = handler[d]
      <3>1. handler[d].ch \in ChIds
        BY <2>1 DEF IInv, TypeOK, Handler
      <3>2. d \notin ConnsOf(channels[handler[d].ch])
        BY <2>1 DEF IInv, LeaversLeft
      <3> QED
        BY <1>2, <2>1, <3>1, <3>2
    <2>2. CASE handler'[d].ch = ch /\ d \in gone
      BY <1>1, <2>2
    <2> QED
      BY <2>1, <2>2
  <1> QED
    BY <1>3, <1>4, <1>5 DEF IInv

\* A step that seats c in one channel in place of the connections in old.
LEMMA SeatingStep ==
  ASSUME IInv, TypeOK', NEW c \in Conns, NEW ch \in ChIds, NEW k, NEW old,
         channels' = [channels EXCEPT ![ch] = k],
         ChannelOK(k),
         ConnsOf(k) \subseteq (ConnsOf(channels[ch]) \ old) \cup {c},
         Index(c, ch, old), Reading(c), UNCHANGED handler
  PROVE  IInv'
  <1>1. /\ channels'[ch] = k
        /\ \A x \in ChIds : x # ch => channels'[x] = channels[x]
    BY DEF IInv, TypeOK
  <1>2. \A x \in ChIds :
          ConnsOf(channels'[x]) \subseteq ConnsOf(channels[x]) \cup {c}
    BY <1>1
  <1>3. (\A x \in ChIds : ChannelOK(channels[x]))'
    BY <1>1 DEF IInv
  <1>4. MembersIndexed'
    <2> SUFFICES ASSUME NEW x \in ChIds, NEW d \in ConnsOf(channels'[x])
                 PROVE  Indexed(d, x)'
      BY DEF MembersIndexed
    <2>1. CASE x = ch /\ d = c
      BY <2>1 DEF Indexed, Index, Reading
    <2>2. CASE ~(x = ch /\ d = c)
      <3>1. d \in ConnsOf(channels[x]) /\ (x = ch => d \notin old)
        BY <1>1, <2>2
      <3>2. Indexed(d, x) /\ d \in Conns
        BY <3>1, ConnsOfType DEF IInv, MembersIndexed, TypeOK
      <3>3. x \in connChannels[d] => x \in connChannels'[d]
        BY <3>1, <3>2 DEF Index
      <3> QED
        BY <3>2, <3>3 DEF Indexed
    <2> QED
      BY <2>1, <2>2
  <1>5. LeaversLeft'
    <2> SUFFICES ASSUME NEW d \in Conns, handler[d].at = "leaving"
                 PROVE  d \notin ConnsOf(channels'[handler[d].ch])
      BY DEF LeaversLeft
    <2>1. handler[d].ch \in ChIds /\ d # c
      BY DEF IInv, TypeOK, Handler, Reading
    <2> QED
      BY <1>2, <2>1 DEF IInv, LeaversLeft
  <1> QED
    BY <1>3, <1>4, <1>5 DEF IInv

\* A join keeps IInv.
LEMMA InvJoin ==
  ASSUME IInv, TypeOK', NEW c \in Conns, NEW ch \in ChIds, HandleJoin(c, ch)
  PROVE  IInv'
  <1> DEFINE k == AfterReplacement(c, Opened(ch))
             old == Replaced(c, Opened(ch))
             s == FreeSlot(k)
  <1>1. /\ k \in Channel /\ Opened(ch) \in Channel
        /\ reads + 1 \in Nonce /\ reads + 2 \in Nonce /\ s \in Slot
    BY OpenedType, AfterReplacementType DEF IInv, TypeOK, Nonce, FreeSlot, Slot
  <1>2. /\ ChannelOK(Opened(ch))
        /\ ConnsOf(Opened(ch)) \subseteq ConnsOf(channels[ch])
    BY OpenedOK DEF IInv
  <1>3. /\ DistinctOK(k) /\ AnswerMissing(k)
        /\ ConnsOf(k) \subseteq ConnsOf(channels[ch]) \ old
        /\ \A d \in ConnsOf(k) : IdOf[d] # IdOf[c]
    BY <1>1, <1>2, AfterReplacementOK
  <1>4. CASE JoinFirst(c, ch)
    <2> DEFINE seated == BackToWait(k, Seat(k, 0, c, reads + 1).peers)
    <2>1. /\ channels' = [channels EXCEPT ![ch] = seated]
          /\ Index(c, ch, old) /\ Reading(c) /\ UNCHANGED handler
          /\ Members(k) = {}
      BY <1>4 DEF JoinFirst, JoinAllowed
    <2>2. ChannelOK(seated) /\ ConnsOf(seated) = {c}
      BY <1>1, <2>1, FirstOK
    <2> HIDE DEF seated, old, k
    <2> QED
      BY <2>1, <2>2, SeatingStep
  <1>5. CASE JoinSecond(c, ch)
    <2> DEFINE peer == k.peers[1 - s].conn
               both == Seat(Seat(k, s, c, reads + 1), 1 - s, peer, reads + 2)
               seated == [both EXCEPT !.state = "CHALLENGING"]
    <2>1. /\ channels' = [channels EXCEPT ![ch] = seated]
          /\ Index(c, ch, old) /\ Reading(c) /\ UNCHANGED handler
          /\ Members(k) = {1 - s}
      BY <1>5 DEF JoinSecond, JoinAllowed
    <2> HIDE DEF k, s
    <2>2. /\ ChannelOK(seated) /\ ConnsOf(seated) = {c, peer}
          /\ peer \in ConnsOf(k)
      BY <1>1, <1>3, <2>1, SecondOK
    <2>3. ConnsOf(seated) \subseteq (ConnsOf(channels[ch]) \ old) \cup {c}
      BY <1>3, <2>2
    <2> HIDE DEF seated, old
    <2> QED
      BY <2>1, <2>2, <2>3, SeatingStep
  <1>6. CASE JoinNonceFails(c, ch)
    <2>1. /\ channels' = [channels EXCEPT ![ch] = k]
          /\ Unindex(old, ch) /\ UNCHANGED handler /\ RandMayFail
      BY <1>6 DEF JoinNonceFails
    <2>2. ChannelOK(k)
      BY <1>3, <2>1 DEF ChannelOK
    <2> HIDE DEF k, old
    <2> QED
      BY <1>3, <2>1, <2>2, RemovalStep
  <1>7. CASE JoinSecondNonceFails(c, ch)
    <2> DEFINE waiting == BackToWait(k, k.peers)
    <2>1. /\ channels' = [channels EXCEPT ![ch] = waiting]
          /\ Unindex(old \cup {c}, ch) /\ UNCHANGED handler
          /\ Members(k) = {1 - s}
      BY <1>7 DEF JoinSecondNonceFails
    <2> HIDE DEF k, s
    <2>2. Members(k) # Slot
      BY <2>1 DEF Slot
    <2>3. ChannelOK(waiting) /\ ConnsOf(waiting) = ConnsOf(k)
      BY <1>1, <1>3, <2>2, WaitingOK
    <2>4. ConnsOf(waiting) \subseteq ConnsOf(channels[ch]) \ (old \cup {c})
      BY <1>3, <2>3
    <2> HIDE DEF waiting, old
    <2> QED
      BY <2>1, <2>3, <2>4, RemovalStep
  <1> QED
    BY <1>4, <1>5, <1>6, <1>7 DEF HandleJoin

\* A response keeps IInv.
LEMMA InvResponse ==
  ASSUME IInv, TypeOK', NEW c \in Conns, NEW ch \in ChIds,
         HandleResponse(c, ch)
  PROVE  IInv'
  <1> DEFINE k == channels[ch]
  <1>1. PICK s \in SlotsOf(k, c) :
          \/ /\ ~Completes(k, s)
             /\ channels' = [channels EXCEPT ![ch] = Answered(k, s)]
          \/ /\ Completes(k, s)
             /\ channels' = [channels EXCEPT ![ch] = Activated(k)]
    BY DEF HandleResponse
  <1>2. UNCHANGED <<handler, connChannels>>
    BY DEF HandleResponse
  <1>3. k \in Channel /\ ChannelOK(k) /\ s \in Members(k)
    BY <1>1, ConnsAssumption DEF IInv, TypeOK, SlotsOf, Members
  <1>4. /\ ~Completes(k, s) => ChannelOK(Answered(k, s))
        /\ ConnsOf(Answered(k, s)) = ConnsOf(k)
        /\ Completes(k, s) => ChannelOK(Activated(k))
        /\ ConnsOf(Activated(k)) = ConnsOf(k)
    BY <1>3, ResponseOK
  <1>5. /\ ConnsOf(Answered(k, s)) \subseteq ConnsOf(channels[ch]) \ {}
        /\ ConnsOf(Activated(k)) \subseteq ConnsOf(channels[ch]) \ {}
    BY <1>4
  <1>6. CASE ~Completes(k, s)
    BY <1>1, <1>2, <1>4, <1>5, <1>6, RemovalStep
  <1>7. CASE Completes(k, s)
    BY <1>1, <1>2, <1>4, <1>5, <1>7, RemovalStep
  <1> QED
    BY <1>6, <1>7

\* A leave keeps IInv.
LEMMA InvLeave ==
  ASSUME IInv, TypeOK', NEW c \in Conns, NEW ch \in ChIds, HandleLeave(c, ch)
  PROVE  IInv'
  <1> DEFINE k == channels[ch]
  <1>0. k \in Channel /\ ChannelOK(k) /\ Reading(c)
    BY DEF IInv, TypeOK, HandleLeave
  <1>1. CASE LeaveMember(c, ch)
    <2>1. PICK s \in SlotsOf(k, c) :
            /\ channels' = [channels EXCEPT ![ch] = Without(k, s)]
            /\ \/ /\ handler' = [handler EXCEPT ![c] =
                       [at |-> "leaving", ch |-> ch,
                        obj |-> Without(k, s).obj]]
                  /\ UNCHANGED connChannels
               \/ Unindex({c}, ch) /\ UNCHANGED handler
      BY <1>1 DEF LeaveMember
    <2>2. s \in Members(k) /\ k.peers[s].conn = c
      BY <2>1, ConnsAssumption DEF SlotsOf, Members
    <2>3. /\ ChannelOK(Without(k, s))
          /\ ConnsOf(Without(k, s)) \subseteq ConnsOf(channels[ch]) \ {c}
      BY <1>0, <2>2, WithoutOK
    <2>4. \A d \in Conns :
            \/ handler'[d] = handler[d]
            \/ /\ handler[d].at = "reading" /\ handler'[d].at = "leaving"
               /\ handler'[d].ch = ch /\ d \in {c}
      BY <1>0, <2>1 DEF IInv, TypeOK, Reading
    <2> QED
      BY <2>1, <2>3, <2>4, RemovalStep
  <1>2. CASE LeaveStranger(c, ch)
    <2>1. /\ channels' = [channels EXCEPT ![ch] = k]
          /\ Unindex({c}, ch) /\ UNCHANGED handler
      BY <1>2 DEF LeaveStranger, IInv, TypeOK
    <2>2. ConnsOf(k) \subseteq ConnsOf(channels[ch]) \ {c}
      BY <1>2 DEF LeaveStranger, ConnsOf, SlotsOf, Members
    <2> QED
      BY <1>0, <2>1, <2>2, RemovalStep
  <1> QED
    BY <1>1, <1>2 DEF HandleLeave

\* The deferred half of a leave keeps IInv.
LEMMA InvFinishLeave ==
  ASSUME IInv, TypeOK', NEW c \in Conns, FinishLeave(c)
  PROVE  IInv'
  <1> DEFINE ch == handler[c].ch
             k == IF channels[ch].obj = handler[c].obj THEN NoChannel
                  ELSE channels[ch]
  <1>1. ch \in ChIds /\ handler[c].at = "leaving"
    BY DEF FinishLeave, IInv, TypeOK, Handler
  <1>2. channels' = [channels EXCEPT ![ch] = k]
    BY <1>1 DEF FinishLeave, DeleteIfSame, IInv, TypeOK
  <1>3. Unindex({c}, ch)
    BY DEF FinishLeave
  <1>4. ChannelOK(k)
    BY <1>1, EmptyOK DEF IInv
  <1>5. ConnsOf(k) \subseteq ConnsOf(channels[ch]) \ {c}
    BY <1>1, EmptyOK DEF IInv, LeaversLeft
  <1>6. \A d \in Conns :
          \/ handler'[d] = handler[d]
          \/ /\ handler[d].at \in {"reading", "leaving", "rejecting"}
             /\ handler'[d].at \in {"reading", "rejecting"}
    BY <1>1 DEF FinishLeave, IInv, TypeOK, At
  <1> HIDE DEF ch, k
  <1> QED
    BY <1>1, <1>2, <1>3, <1>4, <1>5, <1>6, RemovalStep

\* A rejection keeps IInv.
LEMMA InvVerifyRejected ==
  ASSUME IInv, TypeOK', NEW c \in Conns, NEW ch \in ChIds,
         HandleVerifyRejected(c, ch)
  PROVE  IInv'
  <1>1. /\ channels' = [channels EXCEPT ![ch] = NoChannel]
        /\ Unindex(ConnsOf(channels[ch]), ch)
        /\ Reading(c)
    BY DEF HandleVerifyRejected
  <1>2. \A d \in Conns :
          \/ handler'[d] = handler[d]
          \/ /\ handler[d].at \in {"reading", "leaving", "rejecting"}
             /\ handler'[d].at \in {"reading", "rejecting"}
    BY <1>1 DEF HandleVerifyRejected, IInv, TypeOK, At, Reading
  <1>3. ConnsOf(NoChannel) \subseteq
          ConnsOf(channels[ch]) \ ConnsOf(channels[ch])
    BY EmptyOK
  <1> QED
    BY <1>1, <1>2, <1>3, EmptyOK, RemovalStep

\* A challenge timeout keeps IInv.
LEMMA InvChallengeTimeout ==
  ASSUME IInv, TypeOK', NEW c \in Conns, NEW ch \in ChIds,
         ChallengeTimeout(c, ch)
  PROVE  IInv'
  <1> DEFINE k == channels[ch]
  <1>0. k \in Channel /\ ChannelOK(k) /\ UNCHANGED handler
    BY DEF IInv, TypeOK, ChallengeTimeout
  <1>1. CASE UNCHANGED <<channels, connChannels>>
    <2>1. channels' = [channels EXCEPT ![ch] = k]
      BY <1>1 DEF IInv, TypeOK
    <2>2. ConnsOf(k) \subseteq ConnsOf(channels[ch]) \ {}
      OBVIOUS
    <2> QED
      BY <1>0, <1>1, <2>1, <2>2, RemovalStep
  <1>2. ASSUME NEW s \in SlotsOf(k, c), Expire(c, ch, s)
        PROVE  IInv'
    <2>1. /\ channels' = [channels EXCEPT ![ch] = Without(k, s)]
          /\ Unindex({c}, ch)
      BY <1>2 DEF Expire
    <2>2. s \in Members(k) /\ k.peers[s].conn = c
      BY <1>2, ConnsAssumption DEF SlotsOf, Members
    <2>3. /\ ChannelOK(Without(k, s))
          /\ ConnsOf(Without(k, s)) \subseteq ConnsOf(channels[ch]) \ {c}
      BY <1>0, <2>2, WithoutOK
    <2> QED
      BY <1>0, <2>1, <2>3, RemovalStep
  <1> QED
    BY <1>1, <1>2 DEF ChallengeTimeout

\* A wait timeout keeps IInv.
LEMMA InvWaitPeerTimeout ==
  ASSUME IInv, TypeOK', NEW t \in waitTimers, WaitPeerTimeout(t)
  PROVE  IInv'
  <1> DEFINE ch == t.ch
             k == channels[ch]
             emptied == [k EXCEPT !.peers = NoPeers]
  <1>0. ch \in ChIds /\ k \in Channel /\ ChannelOK(k) /\ UNCHANGED handler
    BY DEF IInv, TypeOK, WaitTimer, WaitPeerTimeout
  <1>1. CASE UNCHANGED <<channels, connChannels>>
    <2>1. channels' = [channels EXCEPT ![ch] = k]
      BY <1>1 DEF IInv, TypeOK
    <2>2. ConnsOf(k) \subseteq ConnsOf(channels[ch]) \ {}
      OBVIOUS
    <2> QED
      BY <1>0, <1>1, <2>1, <2>2, RemovalStep
  <1>2. CASE ~ UNCHANGED <<channels, connChannels>>
    <2>1. /\ k.state = "WAIT_PEER"
          /\ channels' = [channels EXCEPT ![ch].peers = NoPeers]
          /\ Unindex(ConnsOf(k), ch)
      BY <1>2 DEF WaitPeerTimeout
    <2>2. channels' = [channels EXCEPT ![ch] = emptied]
      BY <1>0, <2>1 DEF IInv, TypeOK
    <2>3. ChannelOK(emptied) /\ ConnsOf(emptied) = {}
      BY <1>0, <2>1, EmptyOK
    <2>4. ConnsOf(emptied) \subseteq ConnsOf(channels[ch]) \ ConnsOf(k)
      BY <2>3
    <2> HIDE DEF emptied
    <2> QED
      BY <1>0, <2>1, <2>2, <2>3, <2>4, RemovalStep
  <1> QED
    BY <1>1, <1>2

\* The deferred deletion of a timer keeps IInv.
LEMMA InvDeferredDelete ==
  ASSUME IInv, TypeOK', NEW d \in deletes, DeferredDelete(d)
  PROVE  IInv'
  <1> DEFINE k == IF channels[d.ch].obj = d.obj THEN NoChannel
                  ELSE channels[d.ch]
  <1>1. d.ch \in ChIds /\ UNCHANGED <<handler, connChannels>>
    BY DEF DeferredDelete, IInv, TypeOK, Delete
  <1>2. channels' = [channels EXCEPT ![d.ch] = k]
    BY <1>1 DEF DeferredDelete, DeleteIfSame, IInv, TypeOK
  <1>3. ChannelOK(k) /\ ConnsOf(k) \subseteq ConnsOf(channels[d.ch]) \ {}
    BY <1>1, EmptyOK DEF IInv
  <1> HIDE DEF k
  <1> QED
    BY <1>1, <1>2, <1>3, RemovalStep

\* The end of a read loop keeps IInv: the copy of Channels is complete.
LEMMA InvCloseConn ==
  ASSUME IInv, TypeOK', NEW c \in Conns, CloseConn(c)
  PROVE  IInv'
  <1>1. /\ Reading(c) /\ UNCHANGED <<channels, connChannels>>
        /\ handler' = [handler EXCEPT ![c] =
             [at |-> "closing", chs |-> connChannels[c]]]
    BY DEF CloseConn
  <1>2. MembersIndexed'
    <2> SUFFICES ASSUME NEW x \in ChIds, NEW d \in ConnsOf(channels[x])
                 PROVE  Indexed(d, x)'
      BY <1>1 DEF MembersIndexed
    <2>1. Indexed(d, x) /\ d \in Conns
      BY ConnsOfType DEF IInv, MembersIndexed, TypeOK
    <2> QED
      BY <1>1, <2>1 DEF Indexed, Reading, IInv, TypeOK
  <1>3. LeaversLeft'
    BY <1>1 DEF LeaversLeft, IInv, TypeOK
  <1> QED
    BY <1>1, <1>2, <1>3 DEF IInv

\* A disconnection keeps IInv.
LEMMA InvUnregisterConn ==
  ASSUME IInv, TypeOK', NEW c \in Conns, UnregisterConn(c)
  PROVE  IInv'
  <1> DEFINE cut == {ch \in handler[c].chs : SlotsOf(channels[ch], c) # {}}
  <1>1. /\ handler[c].at = "closing" /\ cut \subseteq ChIds
        /\ channels' = [ch \in ChIds |-> IF ch \in cut THEN Cut(c, ch)
                                         ELSE channels[ch]]
        /\ connChannels' = [connChannels EXCEPT ![c] = {}]
        /\ handler' = [handler EXCEPT ![c] = At("closed")]
    BY DEF UnregisterConn, IInv, TypeOK, Handler
  <1>2. ASSUME NEW x \in ChIds
        PROVE  /\ ChannelOK(channels'[x])
               /\ ConnsOf(channels'[x]) \subseteq ConnsOf(channels[x]) \ {c}
    <2>1. CASE x \in cut
      <3> DEFINE s == SlotOf(channels[x], c)
      <3>1. s \in Members(channels[x]) /\ channels[x].peers[s].conn = c
        BY <2>1, ConnsAssumption DEF SlotOf, SlotsOf, Members, Slot
      <3>2. channels[x] \in Channel /\ ChannelOK(channels[x])
        BY DEF IInv, TypeOK
      <3>3. /\ ChannelOK(Without(channels[x], s))
            /\ ConnsOf(Without(channels[x], s)) \subseteq
                 ConnsOf(channels[x]) \ {c}
        BY <3>1, <3>2, WithoutOK
      <3>4. channels'[x] \in {NoChannel, Without(channels[x], s)}
        BY <1>1, <2>1 DEF Cut
      <3> QED
        BY <3>3, <3>4, EmptyOK
    <2>2. CASE x \notin cut
      <3>1. channels'[x] = channels[x]
        BY <1>1, <2>2
      <3>2. c \notin ConnsOf(channels[x])
        <4> SUFFICES ASSUME c \in ConnsOf(channels[x])
                     PROVE  FALSE
          OBVIOUS
        <4>1. SlotsOf(channels[x], c) # {}
          BY DEF ConnsOf, SlotsOf, Members
        <4>2. x \in handler[c].chs
          BY <1>1 DEF IInv, MembersIndexed, Indexed
        <4> QED
          BY <2>2, <4>1, <4>2
      <3> QED
        BY <3>1, <3>2 DEF IInv
    <2> QED
      BY <2>1, <2>2
  <1>3. MembersIndexed'
    <2> SUFFICES ASSUME NEW x \in ChIds, NEW d \in ConnsOf(channels'[x])
                 PROVE  Indexed(d, x)'
      BY DEF MembersIndexed
    <2>1. Indexed(d, x) /\ d \in Conns /\ d # c
      BY <1>2, ConnsOfType DEF IInv, MembersIndexed, TypeOK
    <2> QED
      BY <1>1, <2>1 DEF Indexed, IInv, TypeOK
  <1>4. LeaversLeft'
    <2> SUFFICES ASSUME NEW d \in Conns, handler'[d].at = "leaving"
                 PROVE  d \notin ConnsOf(channels'[handler'[d].ch])
      BY DEF LeaversLeft
    <2>1. handler'[d] = handler[d] /\ handler[d].ch \in ChIds
      BY <1>1 DEF IInv, TypeOK, Handler, At
    <2> QED
      BY <1>2, <2>1 DEF IInv, LeaversLeft
  <1> QED
    BY <1>2, <1>3, <1>4 DEF IInv

\* The initial state satisfies IInv.
LEMMA InvInit == Init => IInv
  <1> SUFFICES ASSUME Init PROVE IInv
    OBVIOUS
  <1>1. TypeOK
    BY TypeInit
  <1>2. \A ch \in ChIds : channels[ch] = NoChannel
    BY DEF Init
  <1>3. \A c \in Conns : handler[c].at = "new"
    BY DEF Init, At
  <1> QED
    BY <1>1, <1>2, <1>3, EmptyOK DEF IInv, MembersIndexed, LeaversLeft

\* Every step keeps IInv.
LEMMA InvStep == IInv /\ [Next]_vars => IInv'
  <1> SUFFICES ASSUME IInv, [Next]_vars
               PROVE  IInv'
    OBVIOUS
  <1>0. TypeOK'
    BY TypeStep DEF IInv
  <1>1. ASSUME NEW c \in Conns, Serve(c)
        PROVE  IInv'
    <2>1. CASE RegisterConn(c)
      <3>1. /\ UNCHANGED <<channels, connChannels>>
            /\ handler[c].at = "new"
            /\ handler' = [handler EXCEPT ![c] = At("reading")]
        BY <2>1 DEF RegisterConn
      <3>2. MembersIndexed'
        BY <3>1, ConnsOfType
          DEF IInv, TypeOK, MembersIndexed, Indexed, At
      <3>3. LeaversLeft'
        BY <3>1 DEF IInv, TypeOK, LeaversLeft, At
      <3> QED
        BY <1>0, <3>1, <3>2, <3>3 DEF IInv
    <2>2. ASSUME NEW ch \in ChIds, HandleRelay(c, ch)
          PROVE  IInv'
      BY <1>0, <2>2
        DEF HandleRelay, IInv, MembersIndexed, Indexed, LeaversLeft
    <2>3. CASE SendRejected(c)
      <3>1. /\ UNCHANGED <<channels, connChannels>>
            /\ handler[c].at = "rejecting"
            /\ handler' = [handler EXCEPT ![c] = At("reading")]
        BY <2>3 DEF SendRejected
      <3>2. MembersIndexed'
        BY <3>1, ConnsOfType
          DEF IInv, TypeOK, MembersIndexed, Indexed, At
      <3>3. LeaversLeft'
        BY <3>1 DEF IInv, TypeOK, LeaversLeft, At
      <3> QED
        BY <1>0, <3>1, <3>2, <3>3 DEF IInv
    <2> QED
      BY <1>0, <1>1, <2>1, <2>2, <2>3, InvJoin, InvResponse, InvLeave,
         InvVerifyRejected, InvFinishLeave, InvCloseConn, InvUnregisterConn
        DEF Serve
  <1>2. CASE FireChallenge
    BY <1>0, <1>2, InvChallengeTimeout DEF FireChallenge
  <1>3. CASE FireWait
    BY <1>0, <1>3, InvWaitPeerTimeout DEF FireWait
  <1>4. CASE FinishDelete
    BY <1>0, <1>4, InvDeferredDelete DEF FinishDelete
  <1>5. CASE UNCHANGED vars
    BY <1>0, <1>5 DEF vars, IInv, MembersIndexed, Indexed, LeaversLeft
  <1> QED
    BY <1>1, <1>2, <1>3, <1>4, <1>5 DEF Next

\* IInv holds in every reachable state: the initial one satisfies it and no
\* handler or timer breaks it.
THEOREM Inductive == Spec => []IInv
  BY InvInit, InvStep, PTL DEF Spec

\* Every membership in the channel table is known to the connection it names,
\* so UnregisterConn always finds and removes it: no closed connection stays
\* a member, whatever the interleaving with joins, leaves and timers.
THEOREM MembershipIndexed == Spec => []MembersIndexed
  <1>1. IInv => MembersIndexed
    BY DEF IInv
  <1> QED
    BY <1>1, Inductive, PTL

\* No client is ever paired with itself: the members of a channel have
\* different ids.
THEOREM MembersDistinct == Spec => []DistinctMembers
  <1>1. IInv => DistinctMembers
    BY DEF IInv, ChannelOK, DistinctOK, DistinctMembers
  <1> QED
    BY <1>1, Inductive, PTL

\* Two answers are never left lying: a channel stays in CHALLENGING only
\* while an answer is missing.
THEOREM VerificationNotMissed == Spec => []NoMissedVerification
  <1>1. IInv => NoMissedVerification
    BY DEF IInv, ChannelOK, AnswerMissing, NoMissedVerification
  <1> QED
    BY <1>1, Inductive, PTL

\* With a source of randomness that never fails, the state of a channel
\* always tells how many members it has.
THEOREM StateTellsMembers ==
  ASSUME ~RandMayFail
  PROVE  Spec => []StateMatchesMembers
  <1>1. IInv => StateMatchesMembers
    BY DEF IInv, ChannelOK, StateOK, StateMatchesMembers
  <1> QED
    BY <1>1, Inductive, PTL

=============================================================================
