-------------------------------- MODULE Locks --------------------------------
(***************************************************************************)
(* The mutexes of server/internal/relay: Bridge.mu, the mu of each Channel *)
(* and of each Connection, and the backend's.  The other modules take a    *)
(* critical section for one step; here its parts are steps of their own,   *)
(* and the goroutines wait for each other.                                 *)
(*                                                                         *)
(* What is guarded is left out: which channels are found, whether they are *)
(* emptied and whom a section writes to is left open, so that every        *)
(* contents of the tables is covered.  A write to a socket lasts up to     *)
(* five seconds; it is the time its Connection.mu is held.  The limiters'  *)
(* mutexes, which are taken while nothing else is held and in which        *)
(* nothing else is taken, are left out, and so is a goroutine that panics  *)
(* with its locks (CrossNode has that).                                    *)
(***************************************************************************)
EXTENDS Naturals

CONSTANTS
  Tasks,    \* goroutines: read loops, timers, cleanupLoop, Subscribe, Stats
  Chans,    \* *Channel
  Conns,    \* *Connection
  Bridge,   \* Bridge.mu
  Backend,  \* MemoryBackend.mu, RedisBackend.mu
  NoLock,
  MaxWrites \* bound: locks of a Connection taken in one operation

Locks == {Bridge, Backend} \cup Chans \cup Conns

ASSUME LocksAssumption ==
  /\ Bridge # Backend /\ NoLock \notin Locks
  /\ {Bridge, Backend} \cap (Chans \cup Conns) = {}
  /\ Chans \cap Conns = {}
  /\ MaxWrites \in Nat

VARIABLE task  \* where each goroutine stands, what it holds and waits for

\* left: the channels it has yet to visit; writes: the locks of a Connection
\* it has yet to take.
Task == [op : {"none", "pair", "serve", "leave", "timeout", "reject",
               "unregister", "stats"},
         at : {"idle", "backend", "lookup", "found", "section", "write",
               "delete", "index", "tell", "told", "copy", "walk"},
         holds : SUBSET Locks, wants : Locks \cup {NoLock}, left : SUBSET Chans,
         writes : 0..MaxWrites]

Idle == [op |-> "none", at |-> "idle", holds |-> {}, wants |-> NoLock,
         left |-> {}, writes |-> 0]

Running(g, ops, loc) ==
  task[g].op \in ops /\ task[g].at = loc /\ task[g].wants = NoLock

\* Gives back the locks in drop and goes on to loc, where lock is needed.
Goto(g, loc, drop, lock) ==
  task' = [task EXCEPT ![g].at = loc, ![g].holds = @ \ drop, ![g].wants = lock]

GotoWalk(g, drop, chans) ==
  task' = [task EXCEPT ![g].at = "walk", ![g].holds = @ \ drop, ![g].left = chans]

\* sendMsg, or conn.mu around conn.Channels.
WriteTo(g, loc) ==
  /\ task[g].writes > 0
  /\ \E c \in Conns : task' = [task EXCEPT ![g].at = loc, ![g].wants = c,
                                           ![g].writes = @ - 1]

Return(g) == task' = [task EXCEPT ![g] = Idle]

Start(g, op, loc, lock) ==
  /\ task[g] = Idle
  /\ task' = [task EXCEPT ![g] = [op |-> op, at |-> loc, holds |-> {}, wants |-> lock,
                                  left |-> {}, writes |-> MaxWrites]]

Free(l) == \A g \in Tasks : l \notin task[g].holds

Acquire(g) ==
  /\ task[g].wants # NoLock /\ Free(task[g].wants)
  /\ task' = [task EXCEPT ![g].holds = @ \cup {task[g].wants}, ![g].wants = NoLock]

-----------------------------------------------------------------------------
Init == task = [g \in Tasks |-> Idle]

\* handlePair, the remote pair_matched and cleanupLoop: the backend alone, and
\* then messages.  Refusals are messages alone.
StartPair(g) == Start(g, "pair", "backend", Backend)
LeaveBackend(g) ==
  /\ Running(g, {"pair"}, "backend")
  /\ Goto(g, "tell", {Backend}, NoLock)

\* sendMsg by a goroutine that holds nothing.
Tell(g) ==
  /\ Running(g, {"pair", "reject"}, "tell")
  /\ WriteTo(g, "told")
Told(g) ==
  /\ Running(g, {"pair", "reject"}, "told")
  /\ Goto(g, "tell", Conns, NoLock)
EndTelling(g) ==
  /\ Running(g, {"pair", "reject"}, "tell")
  /\ Return(g)

\* Every handler of a channel, local or remote, and every timer looks it up.
\* (RegisterConn only locks and unlocks, as if it had found none.)
StartLookup(g) ==
  \E op \in {"serve", "leave", "timeout", "reject"} : Start(g, op, "lookup", Bridge)

NotFound(g) ==
  /\ Running(g, {"serve", "leave", "timeout", "reject"}, "lookup")
  /\ Return(g)

\* ch.mu.Lock() while Bridge.mu is held...
Found(g) ==
  /\ Running(g, {"serve", "leave", "timeout", "reject"}, "lookup")
  /\ \E ch \in Chans : Goto(g, "found", {}, ch)

\* ... which is then given back, except by handleVerifyRejected.
LeaveBridge(g) ==
  /\ Running(g, {"serve", "leave", "timeout", "reject"}, "found")
  /\ Goto(g, "section", IF task[g].op = "reject" THEN {} ELSE {Bridge}, NoLock)

\* In the section of a channel.
Write(g) ==
  /\ Running(g, {"serve", "leave", "timeout", "reject", "unregister"}, "section")
  /\ WriteTo(g, "write")

\* Mutant of Written: the connection is not unlocked.
WrittenKept(g) ==
  /\ Running(g, {"serve", "leave", "timeout", "reject", "unregister"}, "write")
  /\ Goto(g, "section", {}, NoLock)

Written(g) ==
  /\ Running(g, {"serve", "leave", "timeout", "reject", "unregister"}, "write")
  /\ Goto(g, "section", Conns, NoLock)

\* join, response and message end with the section; so do the others if they
\* find nothing to do.
EndSection(g) ==
  /\ Running(g, {"serve", "timeout"}, "section")
  /\ Return(g)

\* Mutant of Emptied: the deletion while the channel is still locked.
EmptiedInside(g) ==
  /\ Running(g, {"leave", "timeout"}, "section")
  /\ Goto(g, "delete", {}, Bridge)

\* An emptied channel is deleted under Bridge.mu, after ch.mu was given back.
Emptied(g) ==
  /\ Running(g, {"leave", "timeout"}, "section")
  /\ Goto(g, "delete", Chans, Bridge)

Deleted(g) ==
  /\ Running(g, {"leave", "timeout"}, "delete")
  /\ IF task[g].op = "leave"
     THEN \E c \in Conns : Goto(g, "index", {Bridge}, c)
     ELSE Return(g)

\* handleLeave: at last the leaving connection's own Channels.
Left(g) ==
  /\ Running(g, {"leave"}, "section")
  /\ \E c \in Conns : Goto(g, "index", Chans, c)
Unindexed(g) ==
  /\ Running(g, {"leave"}, "index")
  /\ Return(g)

\* handleVerifyRejected gives back both and tells one connection.
Rejected(g) ==
  /\ Running(g, {"reject"}, "section")
  /\ Goto(g, "tell", {Bridge} \cup Chans, NoLock)

-----------------------------------------------------------------------------
(* UnregisterConn and Stats visit several channels. *)

StartUnregister(g) == \E c \in Conns : Start(g, "unregister", "copy", c)

\* Mutant of Copied: the connection stays locked.
CopiedKept(g) ==
  /\ Running(g, {"unregister"}, "copy")
  /\ Goto(g, "backend", {}, Backend)

\* conn.Channels has been copied; RemovePairingsByConn is next.
Copied(g) ==
  /\ Running(g, {"unregister"}, "copy")
  /\ Goto(g, "backend", Conns, Backend)

RemovedPairings(g) ==
  /\ Running(g, {"unregister"}, "backend")
  /\ Goto(g, "lookup", {Backend}, Bridge)

\* The channels of the copy that are still in the table.
Unregister(g) ==
  /\ Running(g, {"unregister"}, "lookup")
  /\ \E chans \in SUBSET Chans : GotoWalk(g, {}, chans)

StartStats(g) == Start(g, "stats", "lookup", Bridge)

\* Stats gives Bridge.mu back before it locks the channels.
Snapshot(g) ==
  /\ Running(g, {"stats"}, "lookup")
  /\ \E chans \in SUBSET Chans : GotoWalk(g, {Bridge}, chans)

Visit(g) ==
  /\ Running(g, {"unregister", "stats"}, "walk")
  /\ \E ch \in task[g].left :
       task' = [task EXCEPT ![g].at = "section", ![g].wants = ch,
                            ![g].left = @ \ {ch}]

Visited(g) ==
  /\ Running(g, {"unregister", "stats"}, "section")
  /\ GotoWalk(g, Chans, task[g].left)

\* The walk is over; Stats asks for the backend's PairingCount.
EndWalk(g) ==
  /\ Running(g, {"unregister", "stats"}, "walk")
  /\ task[g].left = {}
  /\ IF task[g].op = "stats" THEN Goto(g, "backend", {}, Backend) ELSE Return(g)

Counted(g) ==
  /\ Running(g, {"stats"}, "backend")
  /\ Return(g)

-----------------------------------------------------------------------------
Begin(g) == StartPair(g) \/ StartLookup(g) \/ StartUnregister(g) \/ StartStats(g)

Proceed(g) ==
  \/ LeaveBackend(g) \/ Tell(g) \/ Told(g) \/ EndTelling(g)
  \/ NotFound(g) \/ Found(g) \/ LeaveBridge(g) \/ Write(g) \/ Written(g)
  \/ EndSection(g) \/ Emptied(g) \/ Deleted(g) \/ Left(g) \/ Unindexed(g)
  \/ Rejected(g)
  \/ Copied(g) \/ RemovedPairings(g) \/ Unregister(g)
  \/ Snapshot(g) \/ Visit(g) \/ Visited(g) \/ EndWalk(g) \/ Counted(g)

Next == \E g \in Tasks : Begin(g) \/ Proceed(g) \/ Acquire(g)

Spec == Init /\ [][Next]_task

\* An operation once begun goes on: a handler, timer or Stats is not stopped,
\* a write ends after five seconds.  A Go mutex is handed to a goroutine that
\* has waited for a millisecond.
FairSpec == Spec /\ \A g \in Tasks : WF_task(Proceed(g)) /\ SF_task(Acquire(g))

-----------------------------------------------------------------------------
(* Properties *)

\* Every goroutine's record has its shape, no mutex is held twice, and none is
\* asked for by its holder.
TypeOK ==
  /\ task \in [Tasks -> Task]
  /\ \A g, h \in Tasks : g # h => task[g].holds \cap task[h].holds = {}
  /\ \A g \in Tasks : task[g].wants \notin task[g].holds

WaitsFor(g) == {h \in Tasks : task[g].wants \in task[h].holds}

\* No goroutines wait for each other in a circle, nor one for itself: handlers,
\* timers, UnregisterConn, Stats and slow writes, whatever they find in the
\* tables and however they are mixed.
NoCircularWait ==
  \A S \in (SUBSET Tasks) \ {{}} : \E g \in S : WaitsFor(g) \cap S = {}

\* Every operation that has begun ends: nobody is passed over for ever for
\* Bridge.mu, and slow clients hold the others up only for a time.
OperationsEnd == \A g \in Tasks : task[g] # Idle ~> task[g] = Idle
=============================================================================
