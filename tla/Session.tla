------------------------------- MODULE Session -------------------------------
(***************************************************************************)
(* The Go client's half of a channel (sdk/go/client.go: PairDirect after   *)
(* the pairing, Rejoin, readLoop and the automatic answers), composed with *)
(* the server's channel table.                                             *)
(*                                                                         *)
(* A client is one LatchClient and its WebSocket: an element of Conns.     *)
(* Two goroutines of a client share the inbox: readLoop fills it, the      *)
(* caller of PairDirect or Rejoin empties it while it is in challengeLoop. *)
(* What the server sends is on the way (down) until readLoop reads it.     *)
(* What a client sends is served in the step that sends it: the delay of a *)
(* frame to the server is the delay of that step, since all that a client  *)
(* does between sending a frame and its being served is local to it.  In   *)
(* the same way a frame that readLoop would only pass on goes straight     *)
(* into the inbox: its delay is that of the server's step.                 *)
(*                                                                         *)
(* Both clients know the channel key, so an answer is right exactly when   *)
(* it was made for the nonce it is shown with.                             *)
(***************************************************************************)
EXTENDS RelayChannels, SequencesExt

CONSTANTS
  Ch,          \* the channel the clients have paired for
  InboxSize,   \* capacity of a client's inbox (64 in the code)
  Before,      \* the clients an application used before each client
  Breakable,   \* bound: the connections that may break
  Impatient    \* bound: the clients whose calls may time out

ASSUME ChAssumption == ChIds = {Ch}
ASSUME InboxAssumption == InboxSize \in Nat \ {0} /\ Breakable \subseteq Conns
                                   /\ Impatient \subseteq Conns
ASSUME BeforeAssumption ==
  Before \in [Conns -> SUBSET Conns]

VARIABLES
  down,     \* frames on the way from the server to each client
  mac,      \* the nonce each member's stored Response was made for
  inbox,    \* LatchClient.inbox
  returned, \* what goroutines of debounceChallenge wait to put back into it
  phase,    \* where the call of PairDirect or Rejoin stands
  taken,    \* the message that call works on
  known     \* LatchClient.channels[Ch]: "none", or whether it is Active

clientVars == <<inbox, returned, phase, taken, known>>
sessionVars == <<vars, down, mac, clientVars>>

-----------------------------------------------------------------------------
Frame == [type : {"challenge", "verify_peer", "peer_left", "error", "none"},
          nonce : Nonce, mac : Nonce, peer : Ids \cup {NoId}]

Plain(type) == [type |-> type, nonce |-> 0, mac |-> 0, peer |-> NoId]
NoFrame == Plain("none")

\* VerifyChallengeMac and the check of the id, on the answer in a verify_peer.
Verifies(c, msg) == msg.mac = msg.nonce /\ msg.peer # IdOf[c]

Waiting == {"joining", "answered"}       \* the caller is in waitForAny
Calling == Waiting \cup {"debouncing", "verifying"}

\* The clients are connected.
SInit ==
  /\ channels = [ch \in ChIds |-> NoChannel]
  /\ connChannels = [c \in Conns |-> {}]
  /\ handler = [c \in Conns |-> At("reading")]
  /\ challengeTimers = [c \in Conns |-> [ch \in ChIds |-> 0]]
  /\ waitTimers = {} /\ deletes = {} /\ reads = 0
  /\ joins = [c \in Conns |-> 0]
  /\ view = [c \in Conns |-> [ch \in ChIds |-> Note("out")]]
  /\ relayed = NoRelay
  /\ down = [c \in Conns |-> << >>]
  /\ mac = [c \in Conns |-> 0]
  /\ inbox = [c \in Conns |-> << >>]
  /\ returned = [c \in Conns |-> << >>]
  /\ phase = [c \in Conns |-> "idle"]
  /\ taken = [c \in Conns |-> NoFrame]
  /\ known = [c \in Conns |-> "none"]

-----------------------------------------------------------------------------
(* The server: steps of RelayChannels and the frames they send.  queue and  *)
(* box are down and inbox without the frame that the step takes from them.  *)

\* The frame a client gets: what its view of the channel has become, or an
\* error if it is no member.
FrameTo(c) ==
  LET v == view'[c][Ch]
      other == channels[Ch].peers[OtherSlot(channels[Ch], c)]
  IN IF c \notin ConnsOf(channels'[Ch]) THEN Plain("error")
     ELSE CASE v.type = "challenge"
                 -> [Plain("challenge") EXCEPT !.nonce = v.nonce]
            [] v.type = "verify_peer"
                 -> [type |-> "verify_peer", nonce |-> other.nonce,
                     mac |-> mac'[other.conn], peer |-> v.peer]
            [] v.type = "peer_left" -> Plain("peer_left")
            [] OTHER                -> Plain("error")

\* The clients in told are sent their frames; one that has closed its end
\* reads no more.  With the channel unregistered, readLoop passes a frame on
\* to the inbox, which drops it when full, and ignores a peer_left.
Deliver(told, queue, box) ==
  /\ down' = [c \in Conns |-> IF c \in told /\ known[c] # "none"
                              THEN Append(queue[c], FrameTo(c)) ELSE queue[c]]
  /\ inbox' = [c \in Conns |->
       IF /\ c \in told /\ known[c] = "none" /\ phase[c] # "closed"
          /\ FrameTo(c).type # "peer_left" /\ Len(box[c]) < InboxSize
       THEN Append(box[c], FrameTo(c)) ELSE box[c]]

Told == {c \in Conns : view'[c] # view[c]}

\* Member.Response is cleared with every new nonce and goes with the member.
KeepMacs ==
  mac' = [c \in Conns |->
            IF \E s \in SlotsOf(channels'[Ch], c) : channels'[Ch].peers[s].answered
            THEN mac[c] ELSE 0]

\* A connection that joins while it is a member is told first that it has been
\* replaced, by itself.
ReplacesItself(c) == c \in ConnsOf(channels[Ch])

ReplacedQueue(c) ==
  IF ReplacesItself(c) /\ known[c] # "none"
  THEN [down EXCEPT ![c] = Append(@, Plain("error"))] ELSE down

ReplacedBox(c) ==
  IF ReplacesItself(c) /\ known[c] = "none" /\ Len(inbox[c]) < InboxSize
  THEN [inbox EXCEPT ![c] = Append(@, Plain("error"))] ELSE inbox

\* A join that fails tells the joining client so.
SendJoin(c) ==
  /\ HandleJoin(c, Ch)
  /\ KeepMacs
  /\ Deliver(Told \cup ({c} \ ConnsOf(channels'[Ch])),
             ReplacedQueue(c), ReplacedBox(c))

\* channel_not_found and not_in_channel are errors.  A second activation shows
\* the members to each other again, with the nonces that the first one cleared.
SendResponse(c, n, queue, box) ==
  LET k == channels[Ch]
      told == IF SlotsOf(k, c) = {} THEN {c}
              ELSE IF Completes(k, SlotOf(k, c)) THEN ConnsOf(k) ELSE {}
  IN
  /\ \/ HandleResponse(c, Ch) /\ mac' = [mac EXCEPT ![c] = n]
     \/ Reading(c) /\ SlotsOf(k, c) = {} /\ UNCHANGED <<vars, mac>>
  /\ Deliver(told, queue, box)

SendVerifyRejected(c) ==
  /\ \/ HandleVerifyRejected(c, Ch)
     \/ Reading(c) /\ ~Mapped(Ch) /\ UNCHANGED vars
  /\ KeepMacs
  /\ UNCHANGED <<down, inbox>>

\* What the server does that no client asked for.  It reads the end of a
\* connection some time after the client has closed or lost it.
Hangup(c) ==
  /\ phase[c] = "closed"
  /\ CloseConn(c)
  /\ UNCHANGED <<down, mac, clientVars>>

Notify ==
  /\ \/ \E c \in Conns : SendRejected(c) \/ UnregisterConn(c)
     \/ FireChallenge \/ FireWait \/ FinishDelete
  /\ KeepMacs
  /\ Deliver(Told, down, inbox)
  /\ UNCHANGED <<returned, phase, taken, known>>

-----------------------------------------------------------------------------
(* The caller of PairDirect (from the join on) or Rejoin                    *)

\* An application uses one client at a time: it goes on with the next when
\* it has seen the last one closed.  It may call again when a call is over,
\* whether that failed or not.  (While the channel is registered readLoop takes
\* the challenges and the answers that the call waits for, so such a call ends
\* by what the inbox still holds, by an error or by its timeout.)
Join(c) ==
  /\ phase[c] \in {"idle", "failed", "done"}
  /\ \A d \in Before[c] : phase[d] = "closed"
  /\ SendJoin(c)
  /\ phase' = [phase EXCEPT ![c] = "joining"]
  /\ UNCHANGED <<returned, taken, known>>

\* The next message of the inbox goes to waitForAny.
Offers(c, type) ==
  /\ phase[c] \in Waiting
  /\ inbox[c] # << >> /\ Head(inbox[c]).type = type

Rest(c) == [inbox EXCEPT ![c] = Tail(@)]

\* Any error ends the call.
TakeError(c) ==
  /\ Offers(c, "error")
  /\ inbox' = Rest(c)
  /\ phase' = [phase EXCEPT ![c] = "failed"]
  /\ UNCHANGED <<vars, down, mac, returned, taken, known>>

\* The first challenge is debounced...
TakeChallenge(c) ==
  /\ phase[c] = "joining" /\ Offers(c, "challenge")
  /\ inbox' = Rest(c)
  /\ taken' = [taken EXCEPT ![c] = Head(inbox[c])]
  /\ phase' = [phase EXCEPT ![c] = "debouncing"]
  /\ UNCHANGED <<vars, down, mac, returned, known>>

\* ... later ones are answered at once.
AnswerAgain(c) ==
  /\ phase[c] = "answered" /\ Offers(c, "challenge")
  /\ SendResponse(c, Head(inbox[c]).nonce, down, Rest(c))
  /\ UNCHANGED <<returned, phase, taken, known>>

TakeVerifyPeer(c) ==
  /\ Offers(c, "verify_peer")
  /\ inbox' = Rest(c)
  /\ taken' = [taken EXCEPT ![c] = Head(inbox[c])]
  /\ phase' = [phase EXCEPT ![c] = "verifying"]
  /\ UNCHANGED <<vars, down, mac, returned, known>>

\* The 15 seconds of waitForAny are over.
WaitTimeout(c) ==
  /\ c \in Impatient
  /\ phase[c] \in Waiting
  /\ phase' = [phase EXCEPT ![c] = "failed"]
  /\ UNCHANGED <<vars, down, mac, inbox, returned, taken, known>>

\* A newer challenge takes the place of the one held.
DebounceChallenge(c) ==
  /\ phase[c] = "debouncing"
  /\ inbox[c] # << >> /\ Head(inbox[c]).type = "challenge"
  /\ inbox' = Rest(c)
  /\ taken' = [taken EXCEPT ![c] = Head(inbox[c])]
  /\ UNCHANGED <<vars, down, mac, returned, phase, known>>

\* The timer, or any other message, ends the debouncing; a goroutine puts
\* the message back.
DebounceOver(c) ==
  /\ phase[c] = "debouncing"
  /\ \/ /\ SendResponse(c, taken[c].nonce, down, inbox)
        /\ UNCHANGED returned
     \/ /\ inbox[c] # << >> /\ Head(inbox[c]).type # "challenge"
        /\ returned' = [returned EXCEPT ![c] = Append(@, Head(inbox[c]))]
        /\ SendResponse(c, taken[c].nonce, down, Rest(c))
  /\ phase' = [phase EXCEPT ![c] = "answered"]
  /\ taken' = [taken EXCEPT ![c] = NoFrame]
  /\ UNCHANGED known

\* Behind what has come since.
PutBack(c) ==
  /\ Len(inbox[c]) < InboxSize
  /\ \E i \in DOMAIN returned[c] :
       /\ inbox' = [inbox EXCEPT ![c] = Append(@, returned[c][i])]
       /\ returned' = [returned EXCEPT ![c] = RemoveAt(@, i)]
  /\ UNCHANGED <<vars, down, mac, phase, taken, known>>

\* Mutant of Accept: the channel is registered without being set active.
AcceptInactive(c) ==
  /\ phase[c] = "verifying" /\ Verifies(c, taken[c])
  /\ known' = [known EXCEPT ![c] = "inactive"]
  /\ phase' = [phase EXCEPT ![c] = "done"]
  /\ taken' = [taken EXCEPT ![c] = NoFrame]
  /\ UNCHANGED <<vars, down, mac, inbox, returned>>

\* The peer's answer is checked and the channel registered as active...
Accept(c) ==
  /\ phase[c] = "verifying" /\ Verifies(c, taken[c])
  /\ known' = [known EXCEPT ![c] = "active"]
  /\ phase' = [phase EXCEPT ![c] = "done"]
  /\ taken' = [taken EXCEPT ![c] = NoFrame]
  /\ UNCHANGED <<vars, down, mac, inbox, returned>>

\* ... or rejected.
Reject(c) ==
  /\ phase[c] = "verifying" /\ ~Verifies(c, taken[c])
  /\ SendVerifyRejected(c)
  /\ phase' = [phase EXCEPT ![c] = "failed"]
  /\ taken' = [taken EXCEPT ![c] = NoFrame]
  /\ UNCHANGED <<returned, known>>

-----------------------------------------------------------------------------
(* readLoop, once the channel is registered                                 *)

Reads(c, type) == down[c] # << >> /\ Head(down[c]).type = type
Unread(c) == [down EXCEPT ![c] = Tail(@)]

\* handlePeerLeft
ReadPeerLeft(c) ==
  /\ Reads(c, "peer_left")
  /\ down' = Unread(c)
  /\ known' = [known EXCEPT ![c] = "inactive"]
  /\ UNCHANGED <<vars, mac, inbox, returned, phase, taken>>

\* autoRespondChallenge
AutoRespond(c) ==
  /\ Reads(c, "challenge")
  /\ SendResponse(c, Head(down[c]).nonce, Unread(c), inbox)
  /\ UNCHANGED <<returned, phase, taken, known>>

\* autoHandleVerifyPeer: a wrong answer is ignored, not rejected.
AutoVerify(c) ==
  /\ Reads(c, "verify_peer")
  /\ down' = Unread(c)
  /\ known' = [known EXCEPT ![c] = IF Verifies(c, Head(down[c])) THEN "active"
                                   ELSE @]
  /\ UNCHANGED <<vars, mac, inbox, returned, phase, taken>>

\* An error still goes to the inbox, where nobody may be waiting for it.
ReadError(c) ==
  /\ Reads(c, "error")
  /\ down' = Unread(c)
  /\ inbox' = [inbox EXCEPT ![c] =
       IF Len(@) < InboxSize THEN Append(@, Head(down[c])) ELSE @]
  /\ UNCHANGED <<vars, mac, returned, phase, taken, known>>

\* Close, or the end of the connection as ws.Read reports it: a call fails,
\* and nothing more is read.
Close(c) ==
  /\ c \in Breakable /\ phase[c] \notin {"idle", "closed"}
  /\ phase' = [phase EXCEPT ![c] = "closed"]
  /\ down' = [down EXCEPT ![c] = << >>]
  /\ inbox' = [inbox EXCEPT ![c] = << >>]
  /\ returned' = [returned EXCEPT ![c] = << >>]
  /\ taken' = [taken EXCEPT ![c] = NoFrame]
  /\ known' = [known EXCEPT ![c] = "none"]
  /\ UNCHANGED <<vars, mac>>

-----------------------------------------------------------------------------
ReadLoop(c) ==
  ReadPeerLeft(c) \/ AutoRespond(c) \/ AutoVerify(c) \/ ReadError(c)

Call(c) ==
  \/ TakeError(c) \/ TakeChallenge(c) \/ AnswerAgain(c) \/ TakeVerifyPeer(c)
  \/ WaitTimeout(c) \/ DebounceChallenge(c) \/ DebounceOver(c)
  \/ Accept(c) \/ Reject(c)

SNext ==
  \/ \E c \in Conns : \/ Hangup(c) \/ Join(c) \/ Close(c)
                      \/ Call(c) \/ PutBack(c) \/ ReadLoop(c)
  \/ Notify

SSpec == SInit /\ [][SNext]_sessionVars

-----------------------------------------------------------------------------
(* Properties *)

\* Every variable has the shape of what it stands for; no inbox overflows.
STypeOK ==
  /\ TypeOK
  /\ down \in [Conns -> Seq(Frame)]
  /\ mac \in [Conns -> Nonce]
  /\ inbox \in [Conns -> Seq(Frame)]
  /\ \A c \in Conns : Len(inbox[c]) <= InboxSize
  /\ returned \in [Conns -> Seq(Frame)]
  /\ phase \in [Conns -> Calling \cup {"idle", "done", "failed", "closed"}]
  /\ taken \in [Conns -> Frame]
  /\ known \in [Conns -> {"none", "inactive", "active"}]

\* What c has been sent and has not dealt with.
Pending(c) ==
  Range(down[c]) \cup Range(inbox[c]) \cup Range(returned[c]) \cup {taken[c]}

Shown(c) == {msg \in Pending(c) : msg.type = "verify_peer"}

\* An answer that does not verify was made for an earlier challenge of the
\* same member, or is shown without its nonce because the channel was active
\* already: a client never has an answer to a challenge that the server has
\* not sent, whatever is put back, retried or sent to a channel made anew.
WrongAnswersAreStale ==
  \A c \in Conns : \A msg \in Shown(c) :
    ~Verifies(c, msg) => msg.mac < msg.nonce \/ msg.nonce = 0

\* c is a member by its connection's own count (Connection.Channels), or the
\* error that says otherwise is on its way or waits to be read.
CountedInOrTold(c) ==
  \/ Ch \in connChannels[c]
  \/ \E msg \in Pending(c) : msg.type = "error"
  \/ \E d \in Conns : handler[d] = [at |-> "rejecting", ch |-> Ch, to |-> c]

\* No eviction goes unsaid: a client that takes the channel for active is
\* counted in by its connection, or has the error that says otherwise still to
\* come.  (A full inbox would lose the error.)
BelieversAreCountedIn ==
  \A c \in Conns : known[c] = "active" => CountedInOrTold(c)

\* Nothing is under way: no call, frame or unfinished handler.
Quiet ==
  \A c \in Conns :
    /\ phase[c] \notin Calling /\ down[c] = << >> /\ returned[c] = << >>
    /\ handler[c] = At(IF phase[c] = "closed" THEN "closed" ELSE "reading")

\* Every connection is in the channels it counts itself in.  (It may not be: a
\* join between the emptying of a Channel and its deletion is seated in a
\* Channel that is then dropped from the table.)
NoOrphans ==
  \A c \in Conns : Reading(c) =>
    \A ch \in connChannels[c] : c \in ConnsOf(channels[ch])

\* No call has failed, no inbox holds a message nobody waits for, and no
\* connection has been left out of a channel it counts itself in.
NothingMissed ==
  /\ \A c \in Conns : inbox[c] = << >> /\ phase[c] # "failed"
  /\ NoOrphans

\* Once nothing is under way and nothing was missed, clients and server agree:
\* both members of an ACTIVE channel take it for active, and who takes it for
\* active is a member.  Automatic answers, peer_left and the registration race
\* each other and still end there, and so do the challenges that a call leaves
\* in the inbox for the next one: a call that answers them has an error to meet.
\* (The member may be alone: a peer_left that is read before the channel is
\* registered is lost.)
QuietAgreement ==
  Quiet /\ NothingMissed =>
    \A c \in Conns : phase[c] # "closed" =>
      /\ c \in ConnsOf(channels[Ch]) /\ channels[Ch].state = "ACTIVE"
           => known[c] = "active"
      /\ known[c] = "active" => c \in ConnsOf(channels[Ch])

-----------------------------------------------------------------------------
(* What the documentation says and the code does not do (see the findings). *)

\* client.go:172: debouncing keeps a client from sending a response for a
\* stale nonce.  So honest clients show each other answers that verify.
HonestAnswersVerify ==
  \A c \in Conns : \A msg \in Shown(c) : Verifies(c, msg)
=============================================================================
