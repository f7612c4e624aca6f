------------------------------ MODULE LocksProofs ------------------------------
(***************************************************************************)
(* For any number of goroutines, channels and connections: nobody waits in *)
(* a circle for the mutexes of the relay.                                  *)
(***************************************************************************)
EXTENDS Locks, TLAPS

-----------------------------------------------------------------------------
(* The inductive invariant: what may be held and asked for at each place    *)

\* What a goroutine may be waiting for at each place.
Asked(loc) ==
  CASE loc = "backend"                             -> {Backend}
    [] loc \in {"lookup", "delete"}                -> {Bridge}
    [] loc \in {"found", "section"}                -> Chans
    [] loc \in {"write", "index", "told", "copy"}  -> Conns
    [] OTHER                                       -> {}

\* What it may hold while it waits: Bridge.mu is kept by UnregisterConn and
\* handleVerifyRejected.
Kept(op) == IF op \in {"reject", "unregister"} THEN {Bridge} ELSE {}

Under(t) ==
  CASE t.at = "found"               -> {Bridge}
    [] t.at \in {"section", "walk"} -> Kept(t.op)
    [] t.at = "write"               -> Kept(t.op) \cup Chans
    [] OTHER                        -> {}

InOrder(t) ==
  /\ t \in Task
  /\ t.wants \in Asked(t.at) \cup {NoLock}
  /\ t.holds \subseteq Under(t) \cup Asked(t.at)
  /\ t.wants # NoLock => t.holds \subseteq Under(t)

Exclusive ==
  \A g, h \in Tasks : g # h => task[g].holds \cap task[h].holds = {}

IInv ==
  /\ task = [g \in Tasks |-> task[g]]
  /\ \A g \in Tasks : InOrder(task[g])
  /\ Exclusive

\* The documented order (bridge.go:205-207): Bridge.mu, Channel.mu,
\* Connection.mu; the backend's is taken alone.
Rank(l) == IF l \in {Bridge, Backend} THEN 1 ELSE IF l \in Chans THEN 2 ELSE 3

\* A step of g gives it the record t; its locks are among those it had.
Moves(g, t) ==
  /\ task' = [task EXCEPT ![g] = t]
  /\ t.holds \subseteq task[g].holds
  /\ InOrder(t)

-----------------------------------------------------------------------------
LEMMA InitInv == Init => IInv
BY LocksAssumption DEF Init, IInv, InOrder, Exclusive, Idle, Task, Asked, Under, Locks

\* A step that takes no lock keeps the invariant, if the record is in order.
LEMMA MoveKeeps ==
  ASSUME IInv, NEW g \in Tasks, NEW t, Moves(g, t) PROVE IInv'
<1>1. \A h \in Tasks : task'[h] = IF h = g THEN t ELSE task[h]
  BY DEF Moves, IInv
<1>2. task' = [h \in Tasks |-> task'[h]]
  BY DEF Moves, IInv
<1>3. \A h \in Tasks : InOrder(task'[h])
  BY <1>1 DEF Moves, IInv
<1>4. Exclusive'
  BY <1>1 DEF Moves, IInv, Exclusive
<1> QED BY <1>2, <1>3, <1>4 DEF IInv, InOrder

LEMMA AcquireKeeps == ASSUME IInv, NEW g \in Tasks, Acquire(g) PROVE IInv'
<1> DEFINE t == task[g]
           u == [t EXCEPT !.holds = @ \cup {t.wants}, !.wants = NoLock]
<1>1. task' = [task EXCEPT ![g] = u] /\ t.wants # NoLock /\ Free(t.wants)
  BY DEF Acquire, IInv, InOrder, Task
<1>2. t \in Task /\ InOrder(t)
  BY DEF IInv, InOrder
<1>3. InOrder(u)
  <2>1. u \in Task
    BY <1>1, <1>2 DEF Task
  <2>2. u.at = t.at /\ u.op = t.op /\ u.wants = NoLock /\ u.holds = t.holds \cup {t.wants}
    BY <1>2 DEF Task
  <2>3. Under(u) = Under(t)
    BY <2>2 DEF Under
  <2> QED BY <1>1, <1>2, <2>1, <2>2, <2>3 DEF InOrder
<1>4. \A h \in Tasks : task'[h] = IF h = g THEN u ELSE task[h]
  BY <1>1 DEF IInv
<1>5. \A h \in Tasks : h # g => u.holds \cap task[h].holds = {}
  BY <1>1, <1>2 DEF IInv, Exclusive, Free, Task
<1>6. Exclusive'
  BY <1>4, <1>5 DEF IInv, Exclusive
<1>7. task' = [h \in Tasks |-> task'[h]]
  BY <1>1 DEF IInv
<1> QED BY <1>3, <1>4, <1>6, <1>7 DEF IInv, InOrder

\* What Goto, GotoWalk and WriteTo make of the record t.
After(t, loc, drop, lock) ==
  [t EXCEPT !.at = loc, !.holds = @ \ drop, !.wants = lock]

Walking(t, drop, chans) ==
  [t EXCEPT !.at = "walk", !.holds = @ \ drop, !.left = chans]

LEMMA GotoMoves ==
  ASSUME IInv, NEW g \in Tasks, NEW loc, NEW drop, NEW lock,
         Goto(g, loc, drop, lock), InOrder(After(task[g], loc, drop, lock))
  PROVE  IInv'
<1>1. task[g] \in Task
  BY DEF IInv, InOrder
<1>2. task' = [task EXCEPT ![g] = After(task[g], loc, drop, lock)]
  BY <1>1 DEF Goto, After, IInv, Task
<1>3. Moves(g, After(task[g], loc, drop, lock))
  BY <1>1, <1>2 DEF Moves, After, Task
<1> QED BY <1>3, MoveKeeps

LEMMA WalkMoves ==
  ASSUME IInv, NEW g \in Tasks, NEW drop, NEW chans,
         GotoWalk(g, drop, chans), InOrder(Walking(task[g], drop, chans))
  PROVE  IInv'
<1>1. task[g] \in Task
  BY DEF IInv, InOrder
<1>2. task' = [task EXCEPT ![g] = Walking(task[g], drop, chans)]
  BY <1>1 DEF GotoWalk, Walking, IInv, Task
<1>3. Moves(g, Walking(task[g], drop, chans))
  BY <1>1, <1>2 DEF Moves, Walking, Task
<1> QED BY <1>3, MoveKeeps

LEMMA ReturnMoves == ASSUME IInv, NEW g \in Tasks, Return(g) PROVE IInv'
<1>1. InOrder(Idle)
  BY LocksAssumption DEF InOrder, Idle, Task, Asked, Under
<1>2. Moves(g, Idle)
  BY <1>1 DEF Moves, Return, Idle
<1> QED BY <1>2, MoveKeeps

LEMMA StartMoves ==
  ASSUME IInv, NEW g \in Tasks, NEW op, NEW loc, NEW lock,
         Start(g, op, loc, lock),
         InOrder([op |-> op, at |-> loc, holds |-> {}, wants |-> lock,
                  left |-> {}, writes |-> MaxWrites])
  PROVE  IInv'
<1>1. Moves(g, [op |-> op, at |-> loc, holds |-> {}, wants |-> lock,
                left |-> {}, writes |-> MaxWrites])
  BY DEF Moves, Start
<1> QED BY <1>1, MoveKeeps

LEMMA WriteMoves ==
  ASSUME IInv, NEW g \in Tasks, NEW loc, WriteTo(g, loc),
         loc \in {"write", "told"},
         loc = "write" => task[g].at = "section", loc = "told" => task[g].at = "tell",
         task[g].wants = NoLock
  PROVE  IInv'
<1> DEFINE t == task[g]
<1>1. InOrder(t) /\ t \in Task
  BY DEF IInv, InOrder
<1>2. PICK c \in Conns :
        task' = [task EXCEPT ![g].at = loc, ![g].wants = c, ![g].writes = @ - 1]
  BY DEF WriteTo
<1> DEFINE u == [t EXCEPT !.at = loc, !.wants = c, !.writes = @ - 1]
<1>3. task' = [task EXCEPT ![g] = u]
  BY <1>1, <1>2 DEF IInv, Task
<1>4. t.writes - 1 \in 0..MaxWrites
  BY <1>1, LocksAssumption DEF WriteTo, Task
<1>5. u \in Task
  BY <1>1, <1>4 DEF Task, Locks
<1>6. u.at = loc /\ u.op = t.op /\ u.holds = t.holds /\ u.wants = c
  BY <1>1 DEF Task
<1>7. u.holds \subseteq Under(u)
  BY <1>1, <1>6 DEF InOrder, Under, Asked
<1>8. InOrder(u)
  BY <1>5, <1>6, <1>7 DEF InOrder, Asked
<1>9. Moves(g, u)
  BY <1>3, <1>6, <1>8 DEF Moves
<1> QED BY <1>9, MoveKeeps

-----------------------------------------------------------------------------
\* What a running goroutine's record is like.
LEMMA RunningInOrder ==
  ASSUME IInv, NEW g \in Tasks, NEW ops, NEW loc, Running(g, ops, loc)
  PROVE  /\ task[g] \in Task /\ task[g].op \in ops /\ task[g].at = loc
         /\ task[g].wants = NoLock
         /\ task[g].holds \subseteq Under(task[g]) \cup Asked(loc)
BY DEF IInv, InOrder, Running

LEMMA BeginKeeps == ASSUME IInv, NEW g \in Tasks, Begin(g) PROVE IInv'
<1> USE LocksAssumption DEF InOrder, Task, Asked, Under, Locks
<1>1. CASE StartPair(g)
  BY <1>1, StartMoves DEF StartPair
<1>2. CASE StartLookup(g)
  <2>1. PICK op \in {"serve", "leave", "timeout", "reject"} :
          Start(g, op, "lookup", Bridge)
    BY <1>2 DEF StartLookup
  <2> QED BY <2>1, StartMoves
<1>3. CASE StartUnregister(g)
  <2>1. PICK c \in Conns : Start(g, "unregister", "copy", c)
    BY <1>3 DEF StartUnregister
  <2> QED BY <2>1, StartMoves
<1>4. CASE StartStats(g)
  BY <1>4, StartMoves DEF StartStats
<1> QED BY <1>1, <1>2, <1>3, <1>4 DEF Begin

\* The record a Goto leaves is in order.
LEMMA AfterInOrder ==
  ASSUME NEW t \in Task, NEW loc, NEW drop, NEW lock,
         loc \in {"idle", "backend", "lookup", "found", "section", "write",
                  "delete", "index", "tell", "told", "copy", "walk"},
         lock \in Asked(loc) \cup {NoLock},
         t.holds \ drop \subseteq Under([op |-> t.op, at |-> loc]) \cup Asked(loc),
         lock # NoLock => t.holds \ drop \subseteq Under([op |-> t.op, at |-> loc])
  PROVE  InOrder(After(t, loc, drop, lock))
<1> DEFINE u == After(t, loc, drop, lock)
<1>1. u.at = loc /\ u.op = t.op /\ u.holds = t.holds \ drop /\ u.wants = lock
  BY DEF After, Task
<1>2. Asked(loc) \subseteq Locks
  BY DEF Asked, Locks
<1>3. u \in Task
  BY <1>2 DEF After, Task
<1>4. Under(u) = Under([op |-> t.op, at |-> loc])
  BY <1>1 DEF Under
<1> QED BY <1>1, <1>3, <1>4 DEF InOrder

LEMMA WalkingInOrder ==
  ASSUME NEW t \in Task, NEW drop, NEW chans \in SUBSET Chans,
         t.wants = NoLock, t.holds \ drop \subseteq Kept(t.op)
  PROVE  InOrder(Walking(t, drop, chans))
<1> DEFINE u == Walking(t, drop, chans)
<1>1. u.at = "walk" /\ u.op = t.op /\ u.holds = t.holds \ drop /\ u.wants = NoLock
  BY DEF Walking, Task
<1>2. u \in Task
  BY DEF Walking, Task
<1>3. Under(u) = Kept(t.op)
  BY <1>1 DEF Under
<1> QED BY <1>1, <1>2, <1>3 DEF InOrder

\* One step for each action of an operation that goes on.
LEMMA ProceedKeeps == ASSUME IInv, NEW g \in Tasks, Proceed(g) PROVE IInv'
<1> DEFINE t == task[g]
<1> USE LocksAssumption
<1>1. CASE LeaveBackend(g)
  BY <1>1, RunningInOrder, GotoMoves, AfterInOrder DEF LeaveBackend, Asked, Under
<1>2. CASE Tell(g)
  BY <1>2, RunningInOrder, WriteMoves DEF Tell
<1>3. CASE Told(g)
  BY <1>3, RunningInOrder, GotoMoves, AfterInOrder DEF Told, Asked, Under
<1>4. CASE EndTelling(g) \/ NotFound(g) \/ EndSection(g) \/ Unindexed(g) \/ Counted(g)
  BY <1>4, ReturnMoves DEF EndTelling, NotFound, EndSection, Unindexed, Counted
<1>5. CASE Found(g)
  <2>1. PICK ch \in Chans : Goto(g, "found", {}, ch)
    BY <1>5 DEF Found
  <2>2. InOrder(After(t, "found", {}, ch))
    BY <1>5, <2>1, RunningInOrder, AfterInOrder DEF Found, Asked, Under
  <2> QED BY <2>1, <2>2, GotoMoves
<1>6. CASE LeaveBridge(g)
  BY <1>6, RunningInOrder, GotoMoves, AfterInOrder DEF LeaveBridge, Asked, Under, Kept
<1>7. CASE Write(g)
  BY <1>7, RunningInOrder, WriteMoves DEF Write
<1>8. CASE Written(g)
  BY <1>8, RunningInOrder, GotoMoves, AfterInOrder DEF Written, Asked, Under, Kept
<1>9. CASE Emptied(g)
  BY <1>9, RunningInOrder, GotoMoves, AfterInOrder DEF Emptied, Asked, Under, Kept
<1>10. CASE Deleted(g)
  <2>1. CASE task[g].op # "leave"
    BY <1>10, <2>1, ReturnMoves DEF Deleted
  <2>2. CASE task[g].op = "leave"
    <3>1. PICK c \in Conns : Goto(g, "index", {Bridge}, c)
      BY <1>10, <2>2 DEF Deleted
    <3>2. InOrder(After(t, "index", {Bridge}, c))
      BY <1>10, <3>1, RunningInOrder, AfterInOrder DEF Deleted, Asked, Under
    <3> QED BY <3>1, <3>2, GotoMoves
  <2> QED BY <2>1, <2>2
<1>11. CASE Left(g)
  <2>1. PICK c \in Conns : Goto(g, "index", Chans, c)
    BY <1>11 DEF Left
  <2>2. InOrder(After(t, "index", Chans, c))
    BY <1>11, <2>1, RunningInOrder, AfterInOrder DEF Left, Asked, Under, Kept
  <2> QED BY <2>1, <2>2, GotoMoves
<1>12. CASE Rejected(g)
  BY <1>12, RunningInOrder, GotoMoves, AfterInOrder DEF Rejected, Asked, Under, Kept
<1>13. CASE Copied(g)
  BY <1>13, RunningInOrder, GotoMoves, AfterInOrder DEF Copied, Asked, Under
<1>14. CASE RemovedPairings(g)
  BY <1>14, RunningInOrder, GotoMoves, AfterInOrder DEF RemovedPairings, Asked, Under
<1>15. CASE Unregister(g)
  <2>1. PICK chans \in SUBSET Chans : GotoWalk(g, {}, chans)
    BY <1>15 DEF Unregister
  <2>2. InOrder(Walking(t, {}, chans))
    BY <1>15, RunningInOrder, WalkingInOrder DEF Unregister, Asked, Under, Kept
  <2> QED BY <2>1, <2>2, WalkMoves
<1>16. CASE Snapshot(g)
  <2>1. PICK chans \in SUBSET Chans : GotoWalk(g, {Bridge}, chans)
    BY <1>16 DEF Snapshot
  <2>2. InOrder(Walking(t, {Bridge}, chans))
    BY <1>16, RunningInOrder, WalkingInOrder DEF Snapshot, Asked, Under, Kept
  <2> QED BY <2>1, <2>2, WalkMoves
<1>17. CASE Visit(g)
  <2>1. PICK ch \in t.left :
          task' = [task EXCEPT ![g].at = "section", ![g].wants = ch,
                               ![g].left = @ \ {ch}]
    BY <1>17 DEF Visit
  <2>2. /\ t \in Task /\ t.at = "walk" /\ t.op \in {"unregister", "stats"}
        /\ t.holds \subseteq Kept(t.op)
    BY <1>17, RunningInOrder DEF Visit, Asked, Under
  <2> DEFINE u == [t EXCEPT !.at = "section", !.wants = ch, !.left = @ \ {ch}]
  <2>3. task' = [task EXCEPT ![g] = u]
    BY <2>1, <2>2 DEF IInv, Task
  <2>4. u.at = "section" /\ u.op = t.op /\ u.holds = t.holds /\ u.wants = ch
    BY <2>2 DEF Task
  <2>5. u \in Task
    BY <2>1, <2>2 DEF Task, Locks
  <2>6. InOrder(u)
    BY <2>1, <2>2, <2>4, <2>5 DEF InOrder, Under, Asked, Task
  <2>7. Moves(g, u)
    BY <2>3, <2>4, <2>6 DEF Moves
  <2> QED BY <2>7, MoveKeeps
<1>18. CASE Visited(g)
  <2>1. InOrder(Walking(t, Chans, t.left))
    BY <1>18, RunningInOrder, WalkingInOrder DEF Visited, Asked, Under, Kept, Task
  <2> QED BY <1>18, <2>1, WalkMoves DEF Visited
<1>19. CASE EndWalk(g)
  <2>1. CASE t.op = "stats"
    BY <1>19, <2>1, RunningInOrder, GotoMoves, AfterInOrder
    DEF EndWalk, Asked, Under, Kept
  <2>2. CASE t.op # "stats"
    BY <1>19, <2>2, ReturnMoves DEF EndWalk
  <2> QED BY <2>1, <2>2
<1> QED
  BY <1>1, <1>2, <1>3, <1>4, <1>5, <1>6, <1>7, <1>8, <1>9, <1>10, <1>11, <1>12,
     <1>13, <1>14, <1>15, <1>16, <1>17, <1>18, <1>19 DEF Proceed

\* Every place a goroutine stands at keeps to what it may hold and ask for there.
THEOREM Ordered == Spec => []IInv
<1>1. ASSUME IInv, [Next]_task PROVE IInv'
  <2>1. CASE UNCHANGED task
    BY <1>1, <2>1 DEF IInv, InOrder, Exclusive
  <2>2. CASE Next
    BY <1>1, <2>2, BeginKeeps, ProceedKeeps, AcquireKeeps DEF Next
  <2> QED BY <1>1, <2>1, <2>2
<1> QED BY InitInv, <1>1, PTL DEF Spec

-----------------------------------------------------------------------------
\* What is held under a lock that is waited for comes before it in the order.
LEMMA OrderRises ==
  ASSUME IInv, NEW g \in Tasks, NEW l \in task[g].holds, task[g].wants # NoLock
  PROVE  Rank(l) < Rank(task[g].wants)
<1> DEFINE t == task[g]
<1>1. t \in Task /\ InOrder(t)
  BY DEF IInv, InOrder
<1>2. l \in Under(t) /\ t.wants \in Asked(t.at)
  BY <1>1 DEF InOrder
<1>3. CASE t.at \in {"found", "section"}
  BY <1>2, <1>3, LocksAssumption DEF Under, Asked, Kept, Rank, Locks
<1>4. CASE t.at = "write"
  BY <1>2, <1>4, LocksAssumption DEF Under, Asked, Kept, Rank, Locks
<1>5. CASE t.at \notin {"found", "section", "write"}
  BY <1>2, <1>5 DEF Under, Asked
<1> QED BY <1>3, <1>4, <1>5

LEMMA RankBounds == \A l : Rank(l) \in 1..3
BY DEF Rank

\* Every reachable record of a goroutine has its shape, no mutex is held
\* twice, and no goroutine asks for what it holds.
THEOREM TypeCorrect == Spec => []TypeOK
<1>1. ASSUME IInv PROVE TypeOK
  <2>1. task \in [Tasks -> Task]
    BY <1>1 DEF IInv, InOrder
  <2>2. ASSUME NEW g \in Tasks PROVE task[g].wants \notin task[g].holds
    <3>1. CASE task[g].wants = NoLock
      BY <2>1, <3>1, LocksAssumption DEF Task
    <3>2. CASE task[g].wants # NoLock
      BY <1>1, <3>2, OrderRises, RankBounds
    <3> QED BY <3>1, <3>2
  <2> QED BY <1>1, <2>1, <2>2 DEF TypeOK, IInv, Exclusive
<1> QED BY <1>1, Ordered, PTL

\* However many goroutines run, over however many channels and connections,
\* none wait for each other in a circle: following those who hold what is
\* waited for, three steps exhaust the order of the locks.
THEOREM NoDeadlock == Spec => []NoCircularWait
<1>1. ASSUME IInv PROVE NoCircularWait
  <2> SUFFICES ASSUME NEW S \in (SUBSET Tasks) \ {{}},
                      \A g \in S : WaitsFor(g) \cap S # {}
               PROVE  FALSE
    BY DEF NoCircularWait
  <2>1. ASSUME NEW g \in S
        PROVE  \E h \in S : Rank(task[g].wants) < Rank(task[h].wants)
    <3>1. PICK h \in S : task[g].wants \in task[h].holds
      BY DEF WaitsFor
    <3>2. task[h].wants # NoLock
      <4>1. PICK k \in S : task[h].wants \in task[k].holds
        BY DEF WaitsFor
      <4> QED BY <1>1, <4>1, LocksAssumption DEF IInv, InOrder, Task
    <3> QED BY <1>1, <3>1, <3>2, OrderRises
  <2>2. PICK g1 \in S : TRUE
    OBVIOUS
  <2>3. PICK g2 \in S : Rank(task[g1].wants) < Rank(task[g2].wants)
    BY <2>1
  <2>4. PICK g3 \in S : Rank(task[g2].wants) < Rank(task[g3].wants)
    BY <2>1
  <2>5. PICK g4 \in S : Rank(task[g3].wants) < Rank(task[g4].wants)
    BY <2>1
  <2> QED BY <2>3, <2>4, <2>5, RankBounds
<1> QED BY <1>1, Ordered, PTL
=============================================================================
