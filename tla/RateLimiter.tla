---------------------------- MODULE RateLimiter ----------------------------
(***************************************************************************)
(* The sliding-window rate limiter of server/internal/relay/ratelimit.go,  *)
(* which guards connections, pairings and joins.  RateLimiter.mu makes     *)
(* Allow and Cleanup atomic; time.Now is read under it, so the stored      *)
(* times of a key never decrease.                                          *)
(***************************************************************************)
EXTENDS Naturals, Sequences

CONSTANTS
  Keys,     \* IP addresses or channel identifiers
  limit,
  window,
  MaxTime   \* bound on the clock

ASSUME LimiterAssumption ==
  limit \in Nat /\ window \in Nat /\ MaxTime \in Nat

VARIABLES
  now,      \* the monotonic clock
  windows,  \* the stored times of each key; <<>> where the map has no entry
  granted,  \* every time at which Allow has returned true
  refused   \* the keys that Allow has refused at the present time

vars == <<now, windows, granted, refused>>

-----------------------------------------------------------------------------
\* Mutant of Expired: a time exactly one window old is expired.
ExpiredEarly(t) == t + window <= now

\* times[i].Before(now - window)
Expired(t) == t + window < now

\* The loop of Allow: the longest prefix of expired times is cut off.
Live(times) ==
  LET start == CHOOSE n \in 0..Len(times) :
                 /\ \A i \in 1..n : Expired(times[i])
                 /\ n < Len(times) => ~Expired(times[n + 1])
  IN SubSeq(times, start + 1, Len(times))

Init ==
  /\ now = 0
  /\ windows = [k \in Keys |-> <<>>]
  /\ granted = [k \in Keys |-> <<>>]
  /\ refused = {}

Tick ==
  /\ now < MaxTime
  /\ now' = now + 1
  /\ refused' = {}
  /\ UNCHANGED <<windows, granted>>

\* The event is counted ...
Grant(k) ==
  /\ Len(Live(windows[k])) < limit
  /\ windows' = [windows EXCEPT ![k] = Append(Live(@), now)]
  /\ granted' = [granted EXCEPT ![k] = Append(@, now)]
  /\ UNCHANGED <<now, refused>>

\* Mutants of Refuse: the expired times still count; the refused event counts.
RefuseOnStale(k) ==
  /\ Len(windows[k]) >= limit
  /\ windows' = [windows EXCEPT ![k] = Live(@)]
  /\ refused' = refused \cup {k}
  /\ UNCHANGED <<now, granted>>
RefuseCounts(k) ==
  /\ Len(Live(windows[k])) >= limit
  /\ windows' = [windows EXCEPT ![k] = Append(Live(@), now)]
  /\ refused' = refused \cup {k}
  /\ UNCHANGED <<now, granted>>

\* ... or refused, and then it does not count.
Refuse(k) ==
  /\ Len(Live(windows[k])) >= limit
  /\ windows' = [windows EXCEPT ![k] = Live(@)]
  /\ refused' = refused \cup {k}
  /\ UNCHANGED <<now, granted>>

Allow(k) == Grant(k) \/ Refuse(k)

\* Every key whose stored times have all expired is dropped.
Cleanup ==
  /\ windows' = [k \in Keys |->
       IF \A i \in 1..Len(windows[k]) : Expired(windows[k][i]) THEN <<>>
       ELSE windows[k]]
  /\ UNCHANGED <<now, granted, refused>>

Next == Tick \/ Cleanup \/ \E k \in Keys : Allow(k)

Spec == Init /\ [][Next]_vars

-----------------------------------------------------------------------------
(* Properties *)

\* Every variable has the shape of the Go value it stands for, and no key
\* ever stores more than limit times.
TypeOK ==
  /\ now \in Nat
  /\ windows \in [Keys -> Seq(Nat)]
  /\ \A k \in Keys : Len(windows[k]) <= limit
  /\ granted \in [Keys -> Seq(Nat)]
  /\ refused \subseteq Keys

\* No window of time, however it is placed, holds more than limit grants of
\* a key, whatever Cleanup and the refusals in between did to the table.
GrantsAreSpaced ==
  \A k \in Keys : \A i \in 1..Len(granted[k]) :
    i > limit => granted[k][i - limit] + window < granted[k][i]

\* A refusal is justified: the key had its limit of grants in the window
\* that ends now, so old or refused attempts never count against it.
RefusalIsJustified ==
  \A k \in refused :
    /\ Len(granted[k]) >= limit
    /\ limit > 0 => ~Expired(granted[k][Len(granted[k]) - limit + 1])
=============================================================================
