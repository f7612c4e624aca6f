----------------------------- MODULE Rendezvous -----------------------------
(***************************************************************************)
(* What pairing promises (server/internal/relay/backend.go, README.md      *)
(* "Phase 1: Pairing"), without tables, locks or goroutines: calls made    *)
(* with the same code meet in pairs, the earlier one as the initiator, and *)
(* each call gets one verdict.                                             *)
(***************************************************************************)
EXTENDS FiniteSets

CONSTANTS
  Calls,   \* the pair messages
  Code,    \* the pairing identifier each of them names
  Caller   \* the connection each of them comes from

VARIABLES
  outcome, \* what has been decided about each call
  told     \* the calls whose outcome has been sent to their caller

Outcome ==
       [is : {"idle", "open", "refused", "expired", "withdrawn"}]
  \cup [is : {"initiator", "responder"}, with : Calls]

Is(verdict) == [is |-> verdict]
Open(k) == outcome[k].is = "open"
Decided(k) == outcome[k].is \in {"refused", "expired", "initiator", "responder"}

Init == outcome = [k \in Calls |-> Is("idle")] /\ told = {}

\* The first call under a code stays open.
Wait(k) ==
  /\ outcome[k].is = "idle"
  /\ \A j \in Calls : Code[j] = Code[k] => ~Open(j)
  /\ outcome' = [outcome EXCEPT ![k] = Is("open")]
  /\ UNCHANGED told

\* The second meets it.
Meet(j, k) ==
  /\ Open(j) /\ outcome[k].is = "idle" /\ Code[j] = Code[k]
  /\ outcome' = [outcome EXCEPT ![j] = [is |-> "initiator", with |-> k],
                                ![k] = [is |-> "responder", with |-> j]]
  /\ UNCHANGED told

Refuse(k) ==
  /\ outcome[k].is = "idle"
  /\ outcome' = [outcome EXCEPT ![k] = Is("refused")]
  /\ told' = told \cup {k}

\* Calls that have been open for too long are given up together.
Expire(late) ==
  /\ late # {} /\ \A k \in late : Open(k)
  /\ outcome' = [k \in Calls |-> IF k \in late THEN Is("expired")
                                 ELSE outcome[k]]
  /\ UNCHANGED told

\* The open calls of a connection go with it.
Withdraw(c) ==
  /\ outcome' = [k \in Calls |-> IF Open(k) /\ Caller[k] = c
                                 THEN Is("withdrawn") ELSE outcome[k]]
  /\ UNCHANGED told

Tell(k) ==
  /\ Decided(k) /\ k \notin told
  /\ told' = told \cup {k}
  /\ UNCHANGED outcome

Next ==
  \/ \E k \in Calls : Wait(k) \/ Refuse(k) \/ Tell(k) \/ Withdraw(Caller[k])
  \/ \E j, k \in Calls : Meet(j, k)
  \/ \E late \in SUBSET Calls : Expire(late)

Spec == Init /\ [][Next]_<<outcome, told>>

\* A meeting is between two calls of one code, one in each role, and each of
\* them is in no other: no call is matched twice or with a call of its own.
MeetingsArePaired ==
  \A j, k \in Calls :
    outcome[j] = [is |-> "initiator", with |-> k]
      <=> /\ outcome[k] = [is |-> "responder", with |-> j]
          /\ j # k /\ Code[j] = Code[k]
=============================================================================
