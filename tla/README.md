# Latch Relay in TLA+

Latch Relay is a WebSocket server that introduces two clients to each other
(pairing by a short code, with a PAKE run by the clients), lets them meet again
on a channel (challenge and response by means of the key they derived), and
then forwards their end-to-end encrypted messages. The server never learns a
key and keeps everything in memory; with Redis several servers share pairings
and channels. SDKs in Go, TypeScript (node, browser), Python and Swift speak
the client's side.

This directory holds the formal model of it: modules to be checked by TLC,
their configurations, and proofs for TLAPS. Line numbers below are those of
the sources beside it (`server/...`, `sdk/...`). `PROJECT.json` maps every
definition to its lines.

- [The system](#the-system)
- [Modules and plan](#modules-and-plan)
- [RelayChannels](#relaychannels)
- [Pairing and Rendezvous](#pairing-and-rendezvous)
- [RedisPairing](#redispairing)
- [RateLimiter](#ratelimiter)
- [Session](#session)
- [CrossNode](#crossnode)
- [Locks](#locks)
- [Fairness](#fairness)
- [What is proved](#what-is-proved)
- [Where code and documentation disagree](#where-code-and-documentation-disagree)
- [What is only model-checked, and what is not modelled](#what-is-only-model-checked-and-what-is-not-modelled)
- [Running it](#running-it)

## The system

| Component | State | Operations | Hard behaviour | What makes it correct |
|---|---|---|---|---|
| **Channel table** `relay/bridge.go`, `types.go` | `Bridge.channels` (id → `Channel`: `State`, `WaitGen`, two `Peers` with `Nonce` and `Response`), each `Connection.Channels` | `handleJoin`, `handleResponse`, `handleRelay`, `handleLeave`, `handleVerifyRejected`, `UnregisterConn`; timers `challengeTimeout` (10 s after a join), `waitPeerTimeout` (30 s after each entry into `WAIT_PEER`) | every handler runs in the goroutine of its own connection; timers act on whatever the channel has become; an emptied channel is deleted under a *second* look-up; a client reconnects while its old connection lingers; `rand.Read` fails half-way | the state agrees with the members; no member is left behind by a disconnection; data flows only between peers shown to each other; a lone wait ends; an evicted client is told |
| **Connection lifecycle** `relay/handler.go` | one goroutine per connection, `Connection.Channels` | register, sequential read loop, `UnregisterConn` | the copy of `conn.Channels` made before `Bridge.mu` is taken | see the channel table and pairing |
| **Pairing** `bridge.go` `handlePair`, `cleanupLoop`; `memory_backend.go`, `backend.go` | `waitingPeers` (code → waiting entry with its age) | `StorePairing`, `RemovePairingsByConn`, `CleanupPairings`, then two `pair_matched`, or `pairing_expired` | answers are sent after the backend's lock is released; expiry, retry and disconnection in between | calls meet in pairs, one in each role; no request is lost; every request ends |
| **Rate limiter** `relay/ratelimit.go` | the stored times per key | `Allow`, `Cleanup` | boundaries of the window; keys dropped while others are in use | never more than `limit` in any window; no refusal without cause |
| **Redis backend** `relay/redis_backend.go` | local map, `latch:pair:*` keys, `latch:ch:*` registrations | the same as the memory backend, `RegisterChannelPeer`, pub/sub | `SET GET`, `DEL` and the local map are separate steps of several nodes; a node stops between two | the promise of pairing, across nodes |
| **Cross-node channels** `relay/remote.go`, `bridge.go:915-1188` | stubs of remote members in the channel | `join_notify`, `response`, `relay`, `peer_left` over pub/sub | loss, delay and reordering between nodes | both nodes agree on state and members, or come to |
| **Go client** `sdk/go/client.go` | `channels` with their `Active` flags, an inbox of 64 | `Pair`, `PairDirect`, `Rejoin`, answers to challenges (debounced by 50 ms), `verify_peer` check, `Send`, `Close` | inbox overflow, answers held back while new challenges arrive, windows of 30 s against the server's ten minutes | a client reports a peer only after verifying it |
| **Other SDKs** `sdk/{node,browser,python,swift}` | as above with promises, tasks, actors | as above | differences in queues and retries | as above |
| **Cryptography** `*/crypto.*` | keys | SPAKE2, HKDF, MACs, AEAD | – | equal codes give equal keys |
| **Statistics, configuration, process, e2e driver** | counters, environment | – | – | – |

How they interact: `HandleConnect` owns a connection and calls the handlers of
`Bridge` one message at a time. `handlePair` calls the *backend* and answers on
both connections; `handleJoin` consults the *rate limiter* and (with Redis) the
registration of channels, seats the member, and starts goroutines that come
back as timers. Handlers and timers share `Bridge.channels` under two locks:
`Bridge.mu` for the look-up, `Channel.mu`, taken before `Bridge.mu` is
released, for the work. A client that has paired joins the channel whose id it
derived, on the same or on a later connection.

The hazards of this code, each at its line with the properties that watch it,
are listed in `PROJECT.json` under `hazards`.

## Modules and plan

| # | Module | What it is | Status |
|---|---|---|---|
| 1 | `RelayChannels`, `MCRelayChannels` | channel table, connections and timers of one server | done |
| 2 | `RelayChannelsProofs` | what the table says of members and connections, for all constants | done: five theorems |
| 2 | `RelayViewsProofs` | the same for what clients were told and which timers run | done: the other six invariants of 1 |
| 3 | `Rendezvous` | what pairing promises, abstractly | done |
| 3 | `Pairing`, `MCPairing`, `PairingProofs` | `handlePair`, `cleanupLoop`, memory backend; implements `Rendezvous` | done and proved |
| 4 | `RateLimiter`, `MCRateLimiter`, `RateLimiterProofs` | the sliding window | done and proved |
| 5 | `RedisPairing`, `MCRedisPairing`, `RedisPairingProofs` | pairing over several servers: the shared key, `SET GET` and `DEL`, the pub/sub of matches | done and proved |
| 6 | `CrossNode`, `MCCrossNode`, `CrossNodeProofs` | one channel over several servers: stubs of remote members, the registration in Redis, a lossy pub/sub, restarts | done and proved |
| 7 | `Session`, `MCSession`, `SessionProofs` | the Go client composed with the channel table: inbox, debounced and automatic answers, who believes what | done and proved; the other SDKs would be variants |
| 8 | `Locks`, `MCLocks`, `LocksProofs` | `Bridge.mu`, `Channel.mu`, `Connection.mu` and the backend's mutex: order, deadlock, progress | done; safety proved |

`Session` extends `RelayChannels` and uses its actions for everything the server
does. `CrossNode` and `RedisPairing` share no state in the code but the
connection to Redis and stand by themselves; `Locks` is about the critical
sections that are single steps everywhere else.

Every safety property that a passing run checks is also the statement of a
theorem. What would come next is more of the code: the other SDKs, and the
pairing half of the Go client.

In every module an operator whose comment begins *Mutant of* is a plausible
error in the definition that follows it. Nothing uses it; it is kept to
show that the properties notice such an error.

## RelayChannels

**State.** `channels[ch]` is the `Channel` in `Bridge.channels` under `ch`
(`NONE` if there is no entry); its `peers` are the two slots with the
connection, the nonce last sent and whether `Response` is set; `obj` tells
apart the `Channel` objects one identifier has had, as the pointer comparison
in the code does. `connChannels[c]` is `Connection.Channels`; `handler[c]` is
where the goroutine of `c` stands; `challengeTimers`, `waitTimers` and
`deletes` are the timer goroutines, before and after their critical section.
`view` records the last notice each client got on each channel, and
`relayed` the data message of the latest step: what the clients can tell.

**Steps.** A handler looks its channel up under `Bridge.mu` and takes
`Channel.mu` before releasing it, so one critical section is one action. What
runs after `Channel.mu` was released is an action of its own.

| Action | Code |
|---|---|
| `RegisterConn`, `CloseConn`, `UnregisterConn` | `HandleConnect`; the two halves of `Bridge.UnregisterConn` around the copy of `conn.Channels` |
| `JoinFirst`, `JoinSecond`, `JoinNonceFails`, `JoinSecondNonceFails` | `handleJoin`, by the number of members after the replacement, and by which `rand.Read` fails |
| `HandleResponse`, `HandleRelay` | `handleResponse` (with `verify_peer` once both have answered), `handleRelay` |
| `LeaveMember`, `LeaveStranger`, `FinishLeave` | `handleLeave` and its second look-up |
| `HandleVerifyRejected`, `SendRejected` | `handleVerifyRejected` and its notice, sent without a lock |
| `ChallengeTimeout`, `WaitPeerTimeout`, `DeferredDelete` | the timers and their second look-up |

Messages refused without effect (rate limit, missing fields, unknown channel,
full channel, limits of the table) are the absence of a step; the guards are in
`JoinAllowed`. Writes are fire-and-forget and never fail visibly, as in
`sendMsg`. Time is not modelled: a running timer may fire at any moment. This
includes every order real clocks allow, and more, so safety carries over.

**Runs.**

| Run | Instance | Shows |
|---|---|---|
| `RelayPair` | two clients, one of which joins twice, one channel, fair goroutines and timers | `StateMatchesMembers`, `WaitIsTimed`, `EmptyIsDeleted`: the state agrees with the members, and a waiting or emptied channel always has a goroutine that will end it; `LoneWaitEnds`: it does end |
| `RelayReconnect` | client `a` on two connections, `b` on one | `DistinctMembers`, `ChallengeIsCurrent`, `ActiveMeansVerified`, `RelayReachesVerified`, `EvictedAreTold` while a client's old connection is evicted, leaves, answers and dies late |
| `RelayTwoChannels` | two channels, `rand.Read` may fail | `MembersIndexed`: every disconnection finds its memberships; `NoMissedVerification`: the exchange is never skipped |

**Bounds.** `MaxJoins` bounds how often a connection joins; `MaxChallengeTimers`
and `MaxWaitTimers` bound the timers that are still running when a *join* would
start more (the timers that other handlers start are never held back).
`MaxWaitTimers` has to be at least 2, or a channel whose wait timer has not
run out would let no second peer in. A channel has two slots, and a third connection
is what it takes to have a replacement or a full channel; two joins of one
connection are what it takes for a timer to outlive the membership it was
started for; two channels for a connection with several memberships, with a
second join for one of the connections. `rand.Read` may fail in
`RelayTwoChannels` only: the other properties are about a server whose source of
randomness works, and `StateMatchesMembers` says so in its theorem. A connection
that is gone stays gone, so a run may come to an end: the configurations do not check for
deadlock.

## Pairing and Rendezvous

`Rendezvous` is the promise: calls under one code meet in pairs, the earlier as
the initiator; each call gets one outcome; outcomes are told, once. `Pairing`
is the code: a pair message is a *call* `k` from `Caller[k]` under `Code[k]`.

| Action | Code |
|---|---|
| `PairRefused`, `PairWait`, `PairMatch` | `handlePair` up to the return of `StorePairing` |
| `SendInitiator`, `SendResponder` | the two halves of `pair_matched`, sent without a lock |
| `CloseConn`, `UnregisterConn` | end of the read loop; `RemovePairingsByConn` |
| `Age`, `CleanupPairings`, `SendExpired` | `PairingTTL` passes; a tick of `cleanupLoop`; its `pairing_expired` messages one by one |

`Pairing` implements `Rendezvous` (`ImplementsRendezvous`) by reading the
outcome of a call off the table and the goroutines: what a goroutine has taken
out of the table is decided, although it has yet to be told.

| Run | Instance | Shows |
|---|---|---|
| `PairingMemory` | `x` calls twice under `p` and once under `q`, `y` once under each, with fairness | `RequestsAreHeld`, `ClosedLeavesNoEntry`, `MeetingsArePaired`, `ImplementsRendezvous`, `WaitingEnds` |

Three calls under one code are the least with which a match, a retry and a
stale entry can all be there; two codes are what it takes for a connection to
have several entries to be removed at once, and for one tick to expire several.

## RedisPairing

The same phase over several servers. `local` is `RedisBackend.local` of each
server, `redis` the keys `latch:pair:*` with the call whose data they hold,
`wire` the `pair_matched` messages on their way to each server (Redis delivers
them in order). `handler` has the steps of `StorePairing` apart from each other,
because nothing but `RedisBackend.mu`, held for a few lines at a time, orders
them.

| Action | Code |
|---|---|
| `PairRefused`, `MatchLocal`, `StoreLocal` | `handlePair` and the section of `StorePairing` under the lock |
| `SetGet`, `SetGetFails`, `Del`, `DropLocal` | its commands to Redis, and the second section under the lock |
| `SendInitiator`, `SendResponder`, `RemotePairMatched` | the two halves of `pair_matched`, the first published if the initiator is elsewhere |
| `CloseConn`, `RemovePairingsByConn`, `ClearKeys` | the end of a connection |
| `Age`, `CleanupPairings`, `SendExpired`, `KeyExpires` | expiry, in the server and in Redis |
| `Lose`, `Stop` | a message is not delivered; a server stops and leaves its keys |

This backend does *not* keep the promise of `Rendezvous`: an initiator may be
gone, expired, or matched locally by the time another server is handed its
data, and then a call is matched with a ghost, or twice. What does hold is
checked by `RedisTwoServers` (`x` and `y` on one server, `z` on another, one
call each under one code; the first two are symmetric): Redis hands out a
call once (`HandedOutOnce`), an initiator's peer knows of a match
(`InitiatorsHaveAMatch`), a dead connection leaves no local entry
(`ClosedLeavesNoEntry`), and a request that is the only one under its code on
its server is never lost (`LoneRequestsAreHeld`). Two calls on one server and
one on another are the least with which local and remote matches compete. The
condition in `LoneRequestsAreHeld` is needed: with three requests to one server
and nothing failing, a local match of the first may overtake its `SET GET`,
which then leaves a stale key; a later request of that server reads the key,
deletes it and its own local entry, and returns neither a match nor an error
(`redis_backend.go:126`), which is not what `backend.go:28` promises.
`told` is the set of all messages about a call, since a call may get several.

## RateLimiter

`windows` is the table of stored times, `granted` the history of all grants
(the code keeps none), `refused` the keys refused at the present time. `Allow`
is `Grant` or `Refuse`, after cutting off the expired times (`Live`); `Cleanup`
drops keys without live times. `RateLimits` runs two keys with a limit of 2 and
a window of 2 up to time 7, three and a half windows. `GrantsAreSpaced` says that no window, wherever
placed, holds more than `limit` grants; `RefusalIsJustified` that a refused key
had its limit of grants in the window that ends now.

## Session

The Go client from the `join` on, for `PairDirect` and `Rejoin`, over the
channel table. Two goroutines of a client share its inbox: `readLoop` fills it,
the caller empties it. `down[c]` are the frames on their way to `c`,
`inbox[c]` is `LatchClient.inbox`, `returned[c]` the messages that goroutines of
`debounceChallenge` are about to put back, `phase[c]` where the call stands,
`taken[c]` the message it works on, `known[c]` the entry of
`LatchClient.channels`. A MAC is the nonce it was made for (`mac`): both clients
know the key, so an answer verifies exactly if it was made for the nonce it is
shown with.

| Action | Code |
|---|---|
| `Join`, `TakeChallenge`, `AnswerAgain`, `TakeVerifyPeer`, `TakeError`, `WaitTimeout` | the call: `challengeLoop` and `waitForAny`. A call may follow one that failed and one that succeeded; a connection that joins while it is a member is told first that it has been `replaced`, by itself (`ReplacedQueue`, `ReplacedBox`) |
| `DebounceChallenge`, `DebounceOver`, `PutBack` | `debounceChallenge`: a newer challenge replaces the one held; anything else ends it and is put back *behind* what has come since |
| `Accept`, `Reject` | the check of `verify_peer`, the registration, `verify_rejected` |
| `ReadPeerLeft`, `AutoRespond`, `AutoVerify`, `ReadError` | `readLoop` once the channel is registered |
| `Close`, `Hangup` | the client's and, later, the server's end of the connection |
| `Notify` | what the server does unasked: timers, rejections, disconnections, and the frames they send |

A frame to the server is served in the step that sends it: whatever the client
does in between is local to it, so its delay is that of the step. For the same
reason a frame that `readLoop` would only pass on goes straight into the inbox
until the channel is registered. A client under the same id uses one connection
at a time (`Before`).

| Run | Instance | Shows |
|---|---|---|
| `Session` | client `a`, which may call twice, and a client on `b1`, then `b2`; `b1` may break, `a` and `b1` lose patience | `WrongAnswersAreStale`: an answer that fails the check is one to an earlier challenge; `BelieversAreCountedIn`: no eviction goes unsaid – a client that takes the channel for active is in its connection's `Channels`, or has an error to come; `QuietAgreement`: once nothing is under way and nothing was missed, clients and server agree – who takes the channel for active is a member, and both members of an `ACTIVE` channel take it for active |
| `StaleAnswer` | the same | honest clients can fail each other's check |

Bounds: the reconnection is what it takes for both sides to be re-challenged
while answers are under way, and a second call of the client that does not
reconnect is what it takes for an inbox to hold challenges of an earlier call,
and for `Rejoin` to be called on a channel that is registered. The two are not run
together: the constraint `OneStory` cuts off behaviours in which `b1` is closed
*and* `a` has called twice, which keeps the run within its time (1.8 million
states). `InboxSize` is 6 where the code has 64. No inbox of this instance ever
holds more than five messages, so nothing is dropped, as with 64. It matters: with
smaller inboxes a believer's error may be dropped, and then
`BelieversAreCountedIn` fails.

"Counted in" means in `Connection.Channels`, which is what the server takes the
connection's memberships from. A connection may be in it without a seat in any
`Channel` of the table (see `NoOrphans`); `QuietAgreement` asks for the seat.

What reading and checking showed besides: a `peer_left` that is read before the
channel is registered is lost, and the client is `Active` while it waits alone;
a `verify_peer` left in the inbox by an earlier call is accepted by the next
(`client.go:497-503` says so); `autoHandleVerifyPeer` ignores a wrong answer
where `PairDirect` rejects it. The inbox is not emptied when a call gives up, so a
second call finds the challenges of the first and may answer one of them; a peer
that has the channel registered ignores that answer, and stays inactive in a
channel the server has made `ACTIVE`. Not silently: in this instance the second
call then has the error of its own replacement, or of its eviction, to meet, and
fails or leaves it in the inbox. While a channel is registered `readLoop` keeps the new
challenge and the answer from a call, so that such a `Rejoin` lives on what the
inbox still holds, and ends by an error or its timeout.

Left out: rate-limited joins, data messages, `leave` (the Go client never sends
it), the pairing half of `PairDirect`, and two goroutines that call `PairDirect`
on one client at a time, which would take each other's messages from the inbox.

## CrossNode

One channel over several servers. `channel[n]` is the `Channel` of node `n`,
where a member connected elsewhere is a *stub* (a peer without a connection);
`registered` is the key `latch:ch:...`, `bus[n]` what Redis has yet to deliver
to the `Subscribe` of `n`, in order. `handler`, the timers, `deletes` and `view`
are as in `RelayChannels`; `counts` bounds joins, late answers and faults and
remembers (`cut`) whether a registration was removed from under a member.

| Action | Code |
|---|---|
| `JoinFirst`, `JoinSecond` | `handleJoin` with `RegisterChannelPeer` and `join_notify` |
| `HandleResponse`, `HandleRelay` | the local handlers, which forward to the node of a stub |
| `HandleLeave`, `FinishLeave`, `Unregister` | `handleLeave`, its second look-up, `UnregisterChannelPeer` |
| `Reject`, `RejectStub` | `handleVerifyRejected` without and with a stub |
| `CloseConn`, `UnregisterConn` | the end of a connection |
| `ChallengeTimeout`, `WaitPeerTimeout`, `DeferredDelete`, `DeferredUnregister` | the timers and what they do after `Channel.mu` |
| `HandleRemoteJoinNotify`, `HandleRemoteResponse`, `HandleRemoteRelay`, `HandleRemotePeerLeft` | the handlers of `handleRemoteMsg`, one message at a time |
| `Lose`, `KeyExpires`, `Restart` | a lost message, the 30 minutes of the registration, a node that starts again |

Nonces are left out (`Session` has them); so are a failing `rand.Read` and the
full table (`RelayChannels`).

| Run | Instance | Shows |
|---|---|---|
| `CrossNode` | `a` on one node, `b` and then `b2` under one id on the other; one fault anywhere | `StateFitsMembers`, `ActiveMeansVerified`, `WaitIsTimed`, `EvictedAreTold` on each node under every fault (`EvictedAreTold` is about the seat in the node's table: a member of an emptied `Channel` that is then deleted is marked as dropped by the deletion); `MeetAtRest` and `AgreeAtRest`: what crosses makes the peers meet and agree, unless a message is lost |
| `RejectedRemotely` | `a` and `b2` on one node, `b` on the other, no fault | `verify_rejected` with a stub in the channel deletes nothing: the goroutine panics and keeps both locks |

Bounds: two nodes and a reconnection are the least with which a stub can be
evicted, replaced and come back while messages about it are under way; one
fault suffices to break each property that a fault can break.
`MeetAtRest` and `AgreeAtRest` were also checked with a connection that joins
twice and answers late, and with a third node that neither client is on; the proofs cover any number of both.

What the antecedents are for:

- `Settled`: the two are about two clients, each of which comes back to the node
  it was on. One that comes back elsewhere may lose its peer for good. Its new
  connection, on a third node, replaces the old stub at the peer; when the old
  node then notices the dead connection, its `peer_left` names the id only
  (`bridge.go:1156`) and unseats the new stub. The peer waits, the new node
  keeps a stub of it, and nothing is sent again. Within one node the new
  connection has evicted the old before, so there is no `peer_left` to come.
- `verify_rejected` in `AgreeAtRest`: `SendRejected` runs without a lock, so the
  last thing a client hears may be about the channel before; such a client
  owes an answer that `AtRest` does not ask for.
- `cut`: any node that empties its channel deletes the registration
  (`redis_backend.go:237`, while `backend.go:53` says "for this node"). When `b`
  leaves while `a` waits elsewhere and `b` joins again, `SETNX` succeeds, nobody
  is notified, and the two wait apart until their timers end it.
- a lost `response` leaves one node `ACTIVE` and the other `CHALLENGING`; a lost
  `join_notify` leaves both alone. Nothing is sent again.

Besides: `challengeTimeout` and the replacement of a stub tell the other node
nothing. A node with no client in the channel may be left `ACTIVE` with a single
stub, since `handleRemotePeerLeft` sets the state only for a local member; so
`StateFitsMembers` asks for two members in `ACTIVE` of a node with a client of
its own. The answer to a rejection, sent without a lock, may be the last thing a
member of the *next* channel hears, so `ActiveMeansVerified` admits it.

## Locks

Every goroutine of a server as a sequence of lock and unlock: `task[g]` says
which operation `g` is in, where it stands, what it holds, and what it waits
for. What the sections find in the tables is left open, so every contents is
covered. A write to a socket is the time its `Connection.mu` is held.

| Operation | Locks |
|---|---|
| `pair` (`handlePair`, `cleanupLoop`, the remote `pair_matched`) | the backend's, then messages without any other |
| `serve` (join, response, message, remote handlers) | `Bridge.mu`, `Channel.mu` under it, `Bridge.mu` back, writes |
| `leave`, `timeout` | the same, then `Bridge.mu` again for the deletion, after `Channel.mu` was given back |
| `reject` | `Bridge.mu` *and* `Channel.mu` until the end, a message after |
| `unregister` | the connection's own, the backend's, then `Bridge.mu` with one `Channel.mu` after the other |
| `stats` | `Bridge.mu` for the snapshot, then one `Channel.mu` after the other, then the backend's |

`Locks` runs two goroutines over two channels and two connections with at most
two locks of a connection in an operation: `NoCircularWait`, `OperationsEnd`,
and no deadlock, which this configuration does check. Two goroutines suffice for
an inversion between two locks; three were checked for safety with one write
each (1.6 million states), and any number is covered by the proof.

`Stats` releases `Bridge.mu` "to avoid AB-BA deadlock" (`bridge.go:86`). Nothing
takes `Bridge.mu` under a `Channel.mu` any more, so it could keep it; but
`UnregisterConn` and `handleVerifyRejected` do hold `Bridge.mu` while they wait
for a `Connection.mu`, which a stalled client's write may hold for five seconds:
every look-up of the server waits that long. `OperationsEnd` says that this ends.

## Fairness

`FairSpec` of `RelayChannels` and `Pairing` assumes that a goroutine that has
started runs on (Go's scheduler is fair to runnable goroutines and every write
has a deadline of five seconds), that a timer that was started fires (there
are finitely many), that time passes and that the ticker of `cleanupLoop`
ticks. Fairness is per goroutine for what a connection's goroutine does and for
each message of `cleanupLoop`. No client is assumed to do anything, not even to
disconnect.

`FairSpec` of `Locks` assumes weak fairness of every step of an operation that
has begun, and strong fairness of `Acquire`: a Go mutex in starvation mode is
handed to whoever has waited for a millisecond, so a goroutine that finds its
mutex free again and again does not lose it for ever. Operations need not begin.

## What is proved

TLAPS proves the following for all values of the constants, from the named
assumptions in the modules only (types of the constants, `NoConn` is not a
connection and the like).

`RelayChannelsProofs`:

- `TypeCorrect`: `TypeOK`.
- `MembershipIndexed`: `MembersIndexed` – a disconnection finds every
  membership.
- `MembersDistinct`: `DistinctMembers` – two members have different ids.
- `VerificationNotMissed`: `NoMissedVerification`, also when `rand.Read` fails.
- `StateTellsMembers`: `StateMatchesMembers`, provided `rand.Read` does not fail.

None of these is inductive by itself. The inductive invariant is a statement on
each channel on its own (`ChannelOK`: an empty or unmapped channel has no
member; `WAIT_PEER` has at most one, `CHALLENGING` and `ACTIVE` have two unless
`rand.Read` may fail; the ids differ; a `CHALLENGING` channel misses an answer),
and two statements that tie channels to connections: `MembersIndexed`, and that
a connection in the middle of `handleLeave` is not a member of the channel it is leaving (`LeaversLeft`), without
which `FinishLeave` could remove the index of a member. The effect of each
handler on one channel is a lemma on pure operators (`Without`, `Seat`,
`AfterReplacement`, `Activated`), and each action has a lemma of its own on
what it preserves.

`RelayViewsProofs`, all provided `rand.Read` does not fail:

- `ChallengesCurrent`: `ChallengeIsCurrent`; `ActiveVerified`:
  `ActiveMeansVerified`; `RelaysVerified`: `RelayReachesVerified` – the table
  agrees with the last notice each member was sent.
- `WaitsTimed`: `WaitIsTimed`; `EmptiesDeleted`: `EmptyIsDeleted` – a waiting or
  empty channel always has a goroutine that ends it.
- `EvictionsTold`: `EvictedAreTold`.

They stand on the invariant above, which says in particular who is *not* a
member any more when a notice is sent. The first three are inductive together
with it, channel by channel (`HeardAt`): a notice goes to a member only in a step
that also takes the channel out of `CHALLENGING` and `ACTIVE`, or changes the
nonce or the peer along with it; the one notice sent without a lock is
`verify_rejected`, which both allow for. So are the two on goroutines
(`GuardedAt`): the timer or deletion that guards a channel is lost only in a
step that ends the wait or removes the object. `EvictedAreTold` needs one thing
more (`AwayAt`): a connection that has not yet been served, or is in the middle
of `handleLeave`, does not take itself for a member of what it leaves.

`PairingProofs`:

- `TypeCorrect`: `TypeOK`; `ClosedKeepsNothing`: `ClosedLeavesNoEntry`;
  `RequestsHeld`: `RequestsAreHeld`; `Paired`: `MeetingsArePaired`.
- `Refinement`: `ImplementsRendezvous` – the initial states map to the initial
  state of `Rendezvous`, and each step of the code to one step of the promise or
  to a stutter: `PairWait` is a `Wait`, `PairMatch` a `Meet`, `PairRefused` a
  `Refuse`, `CleanupPairings` an `Expire`, `UnregisterConn` a `Withdraw`, and a
  message that is sent a `Tell`.

The inductive invariant says where a call can be, one place at a time: in the
table under its own code (`Filed`), with `cleanupLoop` (`Placed`), or in the
hands of one goroutine that matched it (`Matches`, `Apart`); what either side of
a match was told fits what the other was or will be told (`Told1`, `Told2`); and
a call that was sent and not answered is in one of these places (`NotLost`). It
is this exclusiveness that makes the outcome read off the table and goroutines a
function that no step revises.

`RateLimiterProofs`:

- `TypeCorrect`: `TypeOK`.
- `LimitKept`: `GrantsAreSpaced`; `RefusalsJustified`: `RefusalIsJustified`,
  for every limit (0 included) and window.

The inductive invariant: the stored times of a key are a suffix of its grants,
every grant that is no longer stored has expired, and grants are in the order
of the clock. So the number of stored live times is the number of grants in the
window, which is what `Allow` compares with the limit.

`LocksProofs`:

- `TypeCorrect`: `TypeOK`.
- `Ordered`: every goroutine holds, at each place of its operation, exactly the
  kinds of locks its code takes there, and waits only for a lock of a higher
  rank (`Bridge.mu` and the backend's below `Channel.mu` below
  `Connection.mu`). This is the order the comment at `bridge.go:205` states.
- `NoDeadlock`: `NoCircularWait`. In a circle every goroutine waits for another
  of it, and who holds the lock that is waited for waits itself for one of a
  higher rank. There are three ranks, so three steps along the circle exhaust
  them.

`RedisPairingProofs`, for any number of servers, calls and codes, whatever
commands fail, messages are lost, keys expire and servers stop:

- `RedisTypeCorrect`: `TypeOK`; `RedisHandsOutOnce`: `HandedOutOnce`;
  `RedisInitiatorsMatched`: `InitiatorsHaveAMatch`; `RedisClosedLeavesNone`:
  `ClosedLeavesNoEntry`; `RedisLoneHeld`: `LoneRequestsAreHeld`.

What a call is *for* Redis goes one way: not stored yet, stored under its code,
handed out. The invariant (`RInv`) says that these exclude each other
(`HandOut`): what has been handed out is not in Redis and no goroutine is about
to store it, although the key it was under may hold another call by now.
`Announced` and `HalfTold` follow a match from the goroutine that made it over
the wire to the initiator, so that an initiator that was told has a match that
somebody made. `NotLost` is why `LoneRequestsAreHeld` holds: a request that was
not answered and whose connection is there is in a table of its server
(`Kept`), in the hands of a goroutine of it, or has a `Twin`, another call under
its code on its server. An entry that `DropLocal` deletes for another call is
that of a twin.

`SessionProofs`, for any number of connections and any capacity of the inboxes:

- `SessionTypeCorrect`: `STypeOK`, the bound on the inboxes included.
- `SessionImplementsServer`: what a client does is a step of `RelayChannels` or
  nothing to it; `SessionServes`: so the invariant of `RelayViewsProofs` holds
  with the client in the loop.
- `SessionAnswersStale`: `WrongAnswersAreStale`, whether `rand.Read` fails or not.
- `SessionEvictionsSaid`: who takes the channel for active is counted in, has an
  error to come, or has seen a later call fail; and
  `SessionQuietMembership`, what `QuietAgreement` says of membership (a client
  that takes the channel for active is a member, and a member has registered
  it). Both for any number of calls, under four hypotheses which the theorems
  state.
- `SessionBelieversCountedIn`: `BelieversAreCountedIn`, which has no exception for
  failed calls, and `SessionQuietAgreement`: `QuietAgreement`; both under the same
  four and `OneCall`: each connection calls once (`Rejoin` on a new connection is a
  first call).

The invariant of the first and third (`SInv`) says of every frame, wherever it
is, that it is `Timely`: a challenge is no newer than the one its client has to
answer now, and the answer in a `verify_peer` was made for no later a nonce than
the one beside it. Both survive every step because the nonce of a member only
grows (`Settled`): a frame may become late, never early. That `taken` holds no
answer while it is being debounced is part of it, since a response is made from
it.

The invariant of the two for any number of calls (`BelieverInv`) says that a client in a call, or after
one that succeeded, was last told that it is a member or has an error in one of
its queues (`Heard`). With `EvictedAreTold` of the server, that gives the
property. The hypotheses are needed:

- no inbox is full (`Roomy`): `readLoop` drops what does not fit, errors
  included. The capacity is 64 in the code;
- `OneAtATime`, `TwoIds`: the connections of one id are used one after the
  other, and a channel is between two ids. A `verify_rejected` that comes from a
  connection which has lost its slot deletes the channel of two others and tells
  one of them. Under these hypotheses a client that checks an answer shares the
  channel with one connection at most (`OneOther`), which takes what `Turns`
  says of the clients before it;
- `rand.Read` does not fail, as in `RelayViewsProofs`.

`MCSession` meets them all; its inboxes never fill up. It does not meet `OneCall`:
`a` calls twice, and what the two theorems prove for single calls holds there all
the same. With one call a client has registered the channel exactly if its call
has succeeded (`Registered`), which is what turns `SessionEvictionsSaid` into
`BelieversAreCountedIn`.

`SessionQuietAgreement` is about a member that has registered the channel and
then lost its peer: it is inactive, or has a `peer_left` under way (it is
`Bereft`). Why will it be active again when the channel is `ACTIVE`? No single
frame says so; the invariant (`ConsoleInv`) follows the good news from where it
begins (`Consoled`):

- while the channel is `CHALLENGING`, its peer is a connection on its first call
  that holds no challenge but its latest one, wherever frames can be (`Latest`
  for the four places of a frame), and has answered, if at all, that one. So its
  answer will be right. This is so because the peer had no challenge before
  it joined (`Uncalled`), and because the bereft member itself calls no second
  time, so that nobody challenges the peer anew except by its own join. A second
  call breaks both, and has to rely on the error it meets, which this invariant
  does not follow;
- when the peer's answer makes the channel `ACTIVE`, the `verify_peer` that
  verifies goes out to the member, which is registered and so has it in order
  with whatever `peer_left` is under way (`GoodNews`: no `peer_left` after it);
- a `peer_left` that is sent later takes the channel out of `ACTIVE`, and the
  member waits for its next peer.

That a registered client's frames are served in order, and that debouncing holds
only challenges (`Debounced`), are parts of it. TLC checked these parts before they were
proved, on an instance with single calls in which every connection may break.

`CrossNodeProofs`, for any number of nodes and finitely many connections:

- `CrossTypeCorrect`: `TypeOK`; `CrossStateFits`: `StateFitsMembers`;
  `CrossActiveVerified`: `ActiveMeansVerified`; `CrossWaitTimed`: `WaitIsTimed`;
  `CrossEvictedTold`: `EvictedAreTold`.
- `CrossMeetAtRest`: `MeetAtRest`; `CrossAgreeAtRest`: `AgreeAtRest`; both from
  `CrossRestInductive`, the invariant on what two nodes know of each other.

The invariant of the first five (`CInv`) is a statement on each node by itself (`NodeOK`), because
that is all a node can know. Nothing is said of what is on the `bus`: the
handlers of remote messages keep `NodeOK` *whatever* message they get, in
whatever state, which is why losses, repetitions and any order are covered. A
step of one node leaves the statement about every other as it is (`Elsewhere`):
goroutines of a node only name connections of that node. The parts are

- `ChannelOK`: a slot holds nothing, a stub, or a connection of this node under
  its id; the ids differ; the state fits;
- `ShownAt`, `TimedAt`: the conjuncts of `ActiveMeansVerified` and `WaitIsTimed`
  for the node. `TimedAt` counts on deletions that have yet to look the channel
  up only, and adds that one which is through has not left its object behind;
- `IndexedAt`: as long as no goroutine is stuck, every member is in its
  `Channels` and none is on its way out. This is what `handleVerifyRejected`
  breaks when it panics half-way, and why `EvictedAreTold` is about nodes that
  serve;
- `ToldAt`: the conjunct of `EvictedAreTold` – a client that believes in its seat
  has it in the node's table, or a rejection is about to be sent to it – and that
  such a rejection comes from a goroutine of the client's own node. A seat is lost
  unmarked in no step: `IndexedAt` says who is still a member when a timer or a
  disconnection looks, and the deletion of an object marks who sits in it.

The object of a new `Channel` is one that no goroutine of the node still has in
hand (`Fresh`). The connections are assumed to be finitely many and the pending
deletions are proved to be, so there always is one (`FreshIs`).

`MeetAtRest` and `AgreeAtRest` relate two nodes, and there the messages under way do
count (`RestInv`). It says of two nodes `m` and `n`, with clients of their own:

- `AInv`: what is on the `bus` of a node, and each stub it has, is of an id that is
  not connected there; two answers do not stay, they make the channel `ACTIVE`;
  and who is in a `CHALLENGING` channel was last sent a challenge (or a late
  rejection). Hence, at rest, it has answered;
- `MeetAt`, while nothing is lost or cut and no deletion is under way: if `m` has
  a member, the channel is registered or `n` has been asked to reply; and if `n` has one as
  well, `m` has a stub or a note of it on the way *with no `peer_left` after it*
  (`HasNote`, `After`), or the ask is still under way to `n`, which will reply.
  Only the order of one node's publications makes this inductive: a
  `peer_left` and the `join_notify` that follows it are not swapped;
- `AgreeAt`: if the member of `m` has answered, then a `join` is on its way to
  `m` and will challenge it anew, or its answer is on its way to `n` with no
  `join` after it, which would wipe it out, or `n` has it, or `n` is about to lose that member.

Most steps of a node add no member: these keep the three together (`Tamely`), and
leave joins, `join_notify` and `peer_left` as the cases with an argument of
their own. A third node publishes nothing under `Settled`, since it has no
client, whatever stubs it has gathered.

## Where code and documentation disagree

Each run below checks one statement of a comment or of `README.md` against the
code, and TLC shows a behaviour in which it fails. `PROJECT.json` quotes the
lines (`findings`).

| Run | What happens |
|---|---|
| `TimeoutAfterAnswer` | both peers answer, the channel is `ACTIVE`; ten seconds after its join a peer is removed with `challenge_timeout`, since `handleResponse` has cleared the `Response` that `challengeTimeout` looks at |
| `StaleAnswer` | a client answers a challenge while the next is on its way; the server takes the answer for one to the later challenge, and the peer's check fails |
| `RejectedRemotely` | `verify_rejected` in a channel with a member on another node: the handler dereferences the stub's nil `Conn` and panics with `Bridge.mu` and `Channel.mu` held |

More that the models show but no run is spent on:

- a peer challenged anew by the other's join has no `challengeTimeout` of its
  own, and once the timer of its own join has run out `CHALLENGING` may last for
  ever (`bridge.go:493`);
- a join between the emptying of a channel and its deletion is seated in a
  `Channel` that is then dropped from the table, since the deletion compares the
  pointer only (`bridge.go:841`; `Session!NoOrphans` names the state);
- the wait timer of a deleted channel acts on the one later created under its
  identifier, because `WaitGen` starts over (`bridge.go:870`);
- a client that asks to pair again under a code whose earlier request still
  waits is matched with itself (`memory_backend.go:30`);
- the request that `StorePairing` loses to a stale key (see RedisPairing);
- `verify_rejected` from a connection that has lost its slot deletes the channel
  and tells only one of its two members (`README.md:356` says both; the model
  marks the other as `dropped`, which `EvictedAreTold` exempts);
- `pairing_expired` about an old request may reach a client whose new request is
  waiting, being sent after the lock was released;
- a failed `rand.Read` leaves an empty channel that nothing removes;
- `handleRemoteJoinNotify` makes a `CHALLENGING` channel of the stub alone on
  every node that has none (`bridge.go:1022`): on a third node, or where the
  local member has just gone. Nobody is told when the last peer leaves
  (`bridge.go:763`), so it stays and counts towards `MaxChannelsTotal`
  (`README.md:340` says that the channel is deleted then);
- `peer_left` names its member by id only (`bridge.go:1156`), so that of a dead
  connection unseats the stub of the one that replaced it from a third node, for
  good (`README.md:386` says that the cleanup handles races with connection
  replacement; see CrossNode);
- a second call on a connection answers a challenge that the first has left in
  the inbox, and the peer, if it has the channel registered, ignores the answer
  and stays inactive in an `ACTIVE` channel, while the caller has an error to meet
  (`client.go:224`, `client.go:439`; see Session);
- `handleRemoteRelay` looks at no state (`bridge.go:998`): data under way reaches
  a connection that has replaced the verified one and is still being challenged
  (`README.md:450` says only if the channel is `ACTIVE`).

## What is only model-checked, and what is not modelled

Only model-checked: everything under fairness (`LoneWaitEnds`, `WaitingEnds`,
`OperationsEnd`), which is beyond TLAPS. No safety property of a passing run is
left to TLC alone; but theorems with hypotheses say less than TLC does on its
instance where the hypotheses fail: in the `Session` run a client calls twice, and
`BelieversAreCountedIn` and `QuietAgreement` are proved for single calls.

Not modelled: the other SDKs (the same protocol with other queues, to be written
as variants of `Session`), the pairing half of the Go client and its two time
windows, and the symbolic side of the key exchange. Left out for good: the
arithmetic of the cryptography, JSON, HTTP, `clientIP`, logging, the numbers of
`Stats`, environment variables, and the actual lengths of timeouts.

## Running it

    tlc -config RelayPair.cfg MCRelayChannels
    tlapm RelayViewsProofs.tla

Every configuration finishes within five minutes (`Session` is the longest). The configurations of
the section on disagreements end with the counterexample they are there for.
