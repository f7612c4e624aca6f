------------------------- MODULE RateLimiterProofs -------------------------
(***************************************************************************)
(* The rate limiter keeps its limit for every limit and every window: the  *)
(* stored times of a key are the last of its grants, and the grants that   *)
(* are no longer stored have all expired.                                  *)
(***************************************************************************)
EXTENDS RateLimiter, WellFoundedInduction, TLAPS

-----------------------------------------------------------------------------
\* The stored times are a suffix of the grants.
StoredIsSuffix(g, w) ==
  /\ Len(w) <= Len(g)
  /\ \A i \in 1..Len(w) : w[i] = g[Len(g) - Len(w) + i]

\* What is no longer stored has expired.
DroppedExpired(g, w) ==
  \A i \in 1..Len(g) : i <= Len(g) - Len(w) => Expired(g[i])

\* Grants are recorded in the order of the clock.
InClockOrder(g) ==
  /\ \A i \in 1..Len(g) : g[i] <= now
  /\ \A i, j \in 1..Len(g) : i <= j => g[i] <= g[j]

KeyOK(k) ==
  /\ StoredIsSuffix(granted[k], windows[k])
  /\ DroppedExpired(granted[k], windows[k])
  /\ InClockOrder(granted[k])

IInv ==
  /\ TypeOK
  /\ \A k \in Keys : KeyOK(k)
  /\ GrantsAreSpaced
  /\ RefusalIsJustified

-----------------------------------------------------------------------------
\* Every non-empty set of naturals has a least element.
LEMMA LeastNatural ==
  ASSUME NEW S \in SUBSET Nat, S # {}
  PROVE  \E m \in S : \A n \in S : m <= n
<1>1. PICK m \in S : \A n \in S : <<n, m>> \notin OpToRel(<, Nat)
  BY WFMin, NatLessThanWellFounded, Zenon
<1>2. \A n \in S : ~(n < m)
  BY <1>1, Zenon DEF OpToRel
<1>3. QED
  BY <1>2

\* The loop of Allow stops: there is a longest expired prefix.
LEMMA PrefixExists ==
  ASSUME NEW times \in Seq(Nat), now \in Nat
  PROVE  \E n \in 0..Len(times) :
           /\ \A i \in 1..n : Expired(times[i])
           /\ n < Len(times) => ~Expired(times[n + 1])
<1> DEFINE Fresh == {n \in 0..Len(times) :
                       n < Len(times) => ~Expired(times[n + 1])}
<1>1. Fresh \in SUBSET Nat /\ Len(times) \in Fresh
  OBVIOUS
<1>2. PICK m \in Fresh : \A n \in Fresh : m <= n
  BY <1>1, LeastNatural
<1>3. \A i \in 1..m : Expired(times[i])
  <2> SUFFICES ASSUME NEW i \in 1..m, ~Expired(times[i]) PROVE FALSE
    OBVIOUS
  <2>1. m \in 0..Len(times) /\ i - 1 \in 0..Len(times) /\ (i - 1) + 1 = i
    OBVIOUS
  <2>2. i - 1 \in Fresh
    BY <2>1
  <2>3. m <= i - 1
    BY <1>2, <2>2
  <2>4. QED
    BY <2>1, <2>3
<1>4. QED
  BY <1>2, <1>3

\* What Live cuts off has expired, and what it keeps starts unexpired.
LEMMA LiveProperties ==
  ASSUME NEW times \in Seq(Nat), now \in Nat
  PROVE  \E n \in 0..Len(times) :
           /\ \A i \in 1..n : Expired(times[i])
           /\ n < Len(times) => ~Expired(times[n + 1])
           /\ Live(times) \in Seq(Nat)
           /\ Len(Live(times)) = Len(times) - n
           /\ \A i \in 1..(Len(times) - n) : Live(times)[i] = times[n + i]
<1> DEFINE start == CHOOSE n \in 0..Len(times) :
                      /\ \A i \in 1..n : Expired(times[i])
                      /\ n < Len(times) => ~Expired(times[n + 1])
<1>1. /\ start \in 0..Len(times)
      /\ \A i \in 1..start : Expired(times[i])
      /\ start < Len(times) => ~Expired(times[start + 1])
  BY PrefixExists
<1>2. Live(times) = SubSeq(times, start + 1, Len(times))
  BY DEF Live
<1> HIDE DEF start
<1>3. /\ Live(times) \in Seq(Nat)
      /\ Len(Live(times)) = Len(times) - start
      /\ \A i \in 1..(Len(times) - start) : Live(times)[i] = times[start + i]
  BY <1>1, <1>2
<1>4. QED
  BY <1>1, <1>3

\* Cutting expired times off a suffix of the grants leaves such a suffix.
LEMMA LiveKeeps ==
  ASSUME now \in Nat, window \in Nat,
         NEW g \in Seq(Nat), NEW w \in Seq(Nat),
         StoredIsSuffix(g, w), DroppedExpired(g, w)
  PROVE  /\ Live(w) \in Seq(Nat)
         /\ Len(Live(w)) <= Len(w)
         /\ StoredIsSuffix(g, Live(w))
         /\ DroppedExpired(g, Live(w))
         /\ Len(Live(w)) > 0 => ~Expired(g[Len(g) - Len(Live(w)) + 1])
<1>1. PICK n \in 0..Len(w) :
        /\ \A i \in 1..n : Expired(w[i])
        /\ n < Len(w) => ~Expired(w[n + 1])
        /\ Live(w) \in Seq(Nat)
        /\ Len(Live(w)) = Len(w) - n
        /\ \A i \in 1..(Len(w) - n) : Live(w)[i] = w[n + i]
  BY LiveProperties
<1>2. StoredIsSuffix(g, Live(w))
  <2>1. Len(g) \in Nat /\ Len(w) \in Nat /\ Len(w) <= Len(g)
    BY DEF StoredIsSuffix
  <2>2. ASSUME NEW i \in 1..(Len(w) - n)
        PROVE  Live(w)[i] = g[Len(g) - (Len(w) - n) + i]
    <3>1. n + i \in 1..Len(w)
      BY <2>1
    <3>2. w[n + i] = g[Len(g) - Len(w) + (n + i)]
      BY <3>1 DEF StoredIsSuffix
    <3>3. Len(g) - Len(w) + (n + i) = Len(g) - (Len(w) - n) + i
      BY <2>1
    <3>4. QED
      BY <1>1, <3>2, <3>3
  <2>3. Len(w) - n <= Len(g)
    BY <2>1
  <2>4. QED
    BY <1>1, <2>2, <2>3 DEF StoredIsSuffix
<1>3. DroppedExpired(g, Live(w))
  <2> SUFFICES ASSUME NEW i \in 1..Len(g), i <= Len(g) - Len(w) + n
               PROVE  Expired(g[i])
    BY <1>1 DEF DroppedExpired
  <2>1. CASE i <= Len(g) - Len(w)
    BY <2>1 DEF DroppedExpired
  <2>2. CASE i > Len(g) - Len(w)
    <3>1. /\ i - (Len(g) - Len(w)) \in 1..n
          /\ i - (Len(g) - Len(w)) \in 1..Len(w)
          /\ i = Len(g) - Len(w) + (i - (Len(g) - Len(w)))
      <4>1. Len(g) \in Nat /\ Len(w) \in Nat
        OBVIOUS
      <4>2. QED
        BY <2>2, <4>1
    <3>2. g[i] = w[i - (Len(g) - Len(w))]
      <4>1. \A m \in 1..Len(w) : w[m] = g[Len(g) - Len(w) + m]
        BY DEF StoredIsSuffix
      <4>2. QED
        BY <3>1, <4>1
    <3>3. QED
      BY <1>1, <3>1, <3>2
  <2>3. QED
    BY <2>1, <2>2 DEF StoredIsSuffix
<1>4. ASSUME Len(Live(w)) > 0
      PROVE  ~Expired(g[Len(g) - Len(Live(w)) + 1])
  <2>1. /\ n + 1 \in 1..Len(w)
        /\ Len(g) - Len(Live(w)) + 1 = Len(g) - Len(w) + (n + 1)
    <3>1. Len(g) \in Nat /\ Len(w) \in Nat /\ Len(Live(w)) = Len(w) - n
      BY <1>1
    <3>2. QED
      BY <1>4, <3>1
  <2>2. g[Len(g) - Len(Live(w)) + 1] = w[n + 1]
    <3>1. w[n + 1] = g[Len(g) - Len(w) + (n + 1)]
      BY <2>1 DEF StoredIsSuffix
    <3>2. QED
      BY <2>1, <3>1
  <2>3. n < Len(w)
    BY <2>1
  <2>4. QED
    BY <1>1, <2>2, <2>3
<1>5. QED
  BY <1>1, <1>2, <1>3, <1>4

-----------------------------------------------------------------------------
\* A key that a step does not touch stays as it was.
LEMMA UntouchedKey ==
  ASSUME NEW k, KeyOK(k), now' = now,
         windows'[k] = windows[k], granted'[k] = granted[k]
  PROVE  KeyOK(k)'
BY DEF KeyOK, StoredIsSuffix, DroppedExpired, InClockOrder, Expired

\* Time only ages: an expired time stays expired.
LEMMA TickKeeps ==
  ASSUME IInv, Tick
  PROVE  IInv'
<1>1. now \in Nat /\ window \in Nat /\ now' = now + 1 /\ refused' = {}
      /\ windows' = windows /\ granted' = granted
  BY LimiterAssumption DEF IInv, TypeOK, Tick
<1>2. TypeOK'
  BY <1>1 DEF IInv, TypeOK
<1>3. GrantsAreSpaced'
  BY <1>1 DEF IInv, GrantsAreSpaced
<1>4. RefusalIsJustified'
  BY <1>1 DEF RefusalIsJustified
<1>5. ASSUME NEW k \in Keys PROVE KeyOK(k)'
  <2>1. KeyOK(k) /\ granted[k] \in Seq(Nat)
    BY DEF IInv, TypeOK
  <2>2. \A i \in 1..Len(granted[k]) : granted[k][i] \in Nat
    BY <2>1
  <2>3. StoredIsSuffix(granted[k], windows[k])'
    BY <1>1, <2>1 DEF KeyOK, StoredIsSuffix
  <2>4. DroppedExpired(granted[k], windows[k])'
    <3>1. ASSUME NEW i \in 1..Len(granted[k]),
                 i <= Len(granted[k]) - Len(windows[k])
          PROVE  granted[k][i] + window < now'
      <4>1. granted[k][i] + window < now /\ granted[k][i] \in Nat
        BY <2>1, <2>2, <3>1 DEF KeyOK, DroppedExpired, Expired
      <4>2. QED
        BY <1>1, <4>1
    <3>2. QED
      BY <1>1, <3>1 DEF DroppedExpired, Expired
  <2>5. InClockOrder(granted[k])'
    <3>1. InClockOrder(granted[k])
      BY <2>1 DEF KeyOK
    <3>2. ASSUME NEW i \in 1..Len(granted[k]) PROVE granted[k][i] <= now'
      <4>1. granted[k][i] \in Nat /\ granted[k][i] <= now
        BY <2>2, <3>1 DEF InClockOrder
      <4>2. QED
        BY <1>1, <4>1
    <3>3. QED
      BY <1>1, <3>1, <3>2 DEF InClockOrder
  <2>6. QED
    BY <2>3, <2>4, <2>5 DEF KeyOK
<1>6. QED
  BY <1>2, <1>3, <1>4, <1>5 DEF IInv

\* A granted event: the grant that is limit places back is no longer stored,
\* so it has expired.
LEMMA GrantKeeps ==
  ASSUME IInv, NEW k \in Keys, Grant(k)
  PROVE  IInv'
<1> DEFINE g == granted[k]
           w == Live(windows[k])
<1>1. /\ now \in Nat /\ window \in Nat /\ limit \in Nat
      /\ g \in Seq(Nat) /\ windows[k] \in Seq(Nat) /\ KeyOK(k)
      /\ granted \in [Keys -> Seq(Nat)] /\ windows \in [Keys -> Seq(Nat)]
  BY LimiterAssumption DEF IInv, TypeOK
<1>2. /\ w \in Seq(Nat) /\ StoredIsSuffix(g, w) /\ DroppedExpired(g, w)
  BY <1>1, LiveKeeps DEF KeyOK
<1>3. /\ Len(w) < limit /\ now' = now /\ refused' = refused
      /\ windows' = [windows EXCEPT ![k] = Append(w, now)]
      /\ granted' = [granted EXCEPT ![k] = Append(g, now)]
  BY DEF Grant
<1> HIDE DEF g, w
<1>4. /\ windows'[k] = Append(w, now) /\ granted'[k] = Append(g, now)
      /\ \A j \in Keys \ {k} : windows'[j] = windows[j] /\ granted'[j] = granted[j]
  BY <1>1, <1>3
<1>5. /\ Len(g) \in Nat /\ Len(w) \in Nat /\ Len(w) <= Len(g)
      /\ Len(Append(g, now)) = Len(g) + 1 /\ Len(Append(w, now)) = Len(w) + 1
      /\ \A i \in 1..Len(g) : Append(g, now)[i] = g[i] /\ g[i] \in Nat
      /\ \A i \in 1..Len(w) : Append(w, now)[i] = w[i]
      /\ Append(g, now)[Len(g) + 1] = now /\ Append(w, now)[Len(w) + 1] = now
  BY <1>1, <1>2 DEF StoredIsSuffix, g
<1>6. TypeOK'
  BY <1>1, <1>2, <1>3, <1>4, <1>5 DEF IInv, TypeOK, g
<1>7. InClockOrder(g)
  BY <1>1 DEF KeyOK, g
<1>8. GrantsAreSpaced'
  <2>1. ASSUME NEW i \in 1..(Len(g) + 1), i > limit
        PROVE  Append(g, now)[i - limit] + window < Append(g, now)[i]
    <3>1. CASE i \in 1..Len(g)
      <4>1. i - limit \in 1..Len(g) /\ g[i - limit] + window < g[i]
        BY <1>1, <1>5, <2>1, <3>1 DEF IInv, GrantsAreSpaced, g
      <4>2. Append(g, now)[i] = g[i] /\ Append(g, now)[i - limit] = g[i - limit]
        BY <1>5, <3>1, <4>1
      <4>3. QED
        BY <4>1, <4>2
    <3>2. CASE i = Len(g) + 1
      <4>1. i - limit \in 1..Len(g) /\ i - limit <= Len(g) - Len(w)
        BY <1>1, <1>3, <1>5, <2>1, <3>2
      <4>2. Expired(g[i - limit])
        BY <1>2, <4>1 DEF DroppedExpired
      <4>3. Append(g, now)[i - limit] = g[i - limit] /\ Append(g, now)[i] = now
        BY <1>5, <3>2, <4>1
      <4>4. QED
        BY <4>2, <4>3 DEF Expired
    <3>3. i \in 1..Len(g) \/ i = Len(g) + 1
      <4>1. Len(g) \in Nat
        BY <1>5
      <4>2. QED
        BY <4>1
    <3>4. QED
      BY <3>1, <3>2, <3>3
  <2>2. QED
    BY <1>1, <1>4, <1>5, <2>1 DEF IInv, GrantsAreSpaced
<1>9. RefusalIsJustified'
  <2>1. ASSUME k \in refused
        PROVE  /\ Len(g) + 1 >= limit
               /\ limit > 0 =>
                    ~Expired(Append(g, now)[(Len(g) + 1) - limit + 1])
    <3>1. /\ Len(g) >= limit /\ limit > 0
          /\ ~Expired(g[Len(g) - limit + 1])
      BY <1>1, <1>3, <1>5, <2>1 DEF IInv, RefusalIsJustified, g
    <3>2. CASE limit = 1
      <4>1. Append(g, now)[(Len(g) + 1) - limit + 1] = now
        BY <1>5, <3>2
      <4>2. QED
        BY <1>1, <1>5, <3>1, <4>1 DEF Expired
    <3>3. CASE limit > 1
      <4>1. /\ Len(g) - limit + 1 \in 1..Len(g)
            /\ (Len(g) + 1) - limit + 1 \in 1..Len(g)
            /\ Len(g) - limit + 1 <= (Len(g) + 1) - limit + 1
        <5>1. Len(g) \in Nat /\ limit \in Nat
          BY <1>1, <1>5
        <5>2. QED
          BY <3>1, <3>3, <5>1
      <4>2. g[Len(g) - limit + 1] <= g[(Len(g) + 1) - limit + 1]
        BY <1>7, <4>1 DEF InClockOrder
      <4>3. Append(g, now)[(Len(g) + 1) - limit + 1]
              = g[(Len(g) + 1) - limit + 1]
        BY <1>5, <4>1
      <4>4. /\ g[Len(g) - limit + 1] \in Nat
            /\ g[(Len(g) + 1) - limit + 1] \in Nat
        BY <1>5, <4>1
      <4>5. ~Expired(g[(Len(g) + 1) - limit + 1])
        <5>1. now \in Nat /\ window \in Nat
          BY <1>1
        <5>2. ~(g[Len(g) - limit + 1] + window < now)
          BY <3>1 DEF Expired
        <5>3. ~(g[(Len(g) + 1) - limit + 1] + window < now)
          BY <4>2, <4>4, <5>1, <5>2
        <5>4. QED
          BY <5>3 DEF Expired
      <4>6. Len(g) + 1 >= limit
        BY <1>1, <1>5, <3>1
      <4>7. QED
        BY <4>3, <4>5, <4>6
    <3>4. QED
      BY <1>1, <3>1, <3>2, <3>3
  <2>2. QED
    BY <1>3, <1>4, <1>5, <2>1 DEF IInv, TypeOK, RefusalIsJustified, Expired
<1>10. ASSUME NEW j \in Keys PROVE KeyOK(j)'
  <2>1. CASE j # k
    <3>1. KeyOK(j) /\ now' = now
          /\ windows'[j] = windows[j] /\ granted'[j] = granted[j]
      BY <1>3, <1>4, <2>1 DEF IInv
    <3>2. QED
      BY <3>1, UntouchedKey
  <2>2. CASE j = k
    <3>1. StoredIsSuffix(Append(g, now), Append(w, now))
      <4>1. ASSUME NEW i \in 1..(Len(w) + 1)
            PROVE  Append(w, now)[i]
                     = Append(g, now)[(Len(g) + 1) - (Len(w) + 1) + i]
        <5>1. CASE i \in 1..Len(w)
          <6>1. Len(g) - Len(w) + i \in 1..Len(g)
            BY <1>5, <5>1
          <6>2. (Len(g) + 1) - (Len(w) + 1) + i = Len(g) - Len(w) + i
            BY <1>5
          <6>3. w[i] = g[Len(g) - Len(w) + i]
            BY <1>2, <5>1 DEF StoredIsSuffix
          <6>4. QED
            BY <1>5, <5>1, <6>1, <6>2, <6>3
        <5>2. CASE i = Len(w) + 1
          <6>1. (Len(g) + 1) - (Len(w) + 1) + i = Len(g) + 1
            BY <1>5, <5>2
          <6>2. QED
            BY <1>5, <5>2, <6>1
        <5>3. QED
          BY <1>5, <5>1, <5>2
      <4>2. /\ Len(Append(w, now)) = Len(w) + 1
            /\ Len(Append(g, now)) = Len(g) + 1
            /\ Len(w) + 1 <= Len(g) + 1
        BY <1>5
      <4>3. QED
        BY <4>1, <4>2 DEF StoredIsSuffix
    <3>2. DroppedExpired(Append(g, now), Append(w, now))
      <4>1. ASSUME NEW i \in 1..(Len(g) + 1),
                   i <= (Len(g) + 1) - (Len(w) + 1)
            PROVE  Expired(Append(g, now)[i])
        <5>1. i \in 1..Len(g) /\ i <= Len(g) - Len(w)
          BY <1>5, <4>1
        <5>2. QED
          BY <1>2, <1>5, <5>1 DEF DroppedExpired
      <4>2. /\ Len(Append(w, now)) = Len(w) + 1
            /\ Len(Append(g, now)) = Len(g) + 1
        BY <1>5
      <4>3. QED
        <5> DEFINE ga == Append(g, now)
                   wa == Append(w, now)
        <5>1. /\ Len(wa) = Len(w) + 1 /\ Len(ga) = Len(g) + 1
              /\ \A i \in 1..(Len(g) + 1) :
                   i <= (Len(g) + 1) - (Len(w) + 1) => Expired(ga[i])
          BY <4>1, <4>2
        <5> HIDE DEF ga, wa
        <5>2. DroppedExpired(ga, wa)
          BY <5>1 DEF DroppedExpired
        <5>3. QED
          BY <5>2 DEF ga, wa
    <3>3. InClockOrder(Append(g, now))
      <4>1. \A i \in 1..(Len(g) + 1) : Append(g, now)[i] <= now
        BY <1>1, <1>5, <1>7, SMTT(30) DEF InClockOrder
      <4>2. ASSUME NEW m \in 1..(Len(g) + 1), NEW n \in 1..(Len(g) + 1), m <= n
            PROVE  Append(g, now)[m] <= Append(g, now)[n]
        <5>1. CASE n = Len(g) + 1
          BY <1>5, <4>1, <5>1
        <5>2. CASE n # Len(g) + 1
          <6>1. m \in 1..Len(g) /\ n \in 1..Len(g)
            BY <1>5, <4>2, <5>2
          <6>2. QED
            BY <1>5, <1>7, <4>2, <6>1 DEF InClockOrder
        <5>3. QED
          BY <5>1, <5>2
      <4>3. QED
        BY <1>5, <4>1, <4>2 DEF InClockOrder
    <3>4. QED
      BY <1>3, <1>4, <2>2, <3>1, <3>2, <3>3
      DEF KeyOK, StoredIsSuffix, DroppedExpired, InClockOrder, Expired
  <2>3. QED
    BY <2>1, <2>2
<1>11. QED
  BY <1>6, <1>8, <1>9, <1>10 DEF IInv

\* A refused event only cuts off expired times.
LEMMA RefuseKeeps ==
  ASSUME IInv, NEW k \in Keys, Refuse(k)
  PROVE  IInv'
<1> DEFINE g == granted[k]
           w == Live(windows[k])
<1>1. /\ now \in Nat /\ window \in Nat /\ limit \in Nat
      /\ g \in Seq(Nat) /\ windows[k] \in Seq(Nat) /\ KeyOK(k)
      /\ granted \in [Keys -> Seq(Nat)] /\ windows \in [Keys -> Seq(Nat)]
      /\ Len(windows[k]) <= limit
  BY LimiterAssumption DEF IInv, TypeOK
<1>2. /\ w \in Seq(Nat) /\ StoredIsSuffix(g, w) /\ DroppedExpired(g, w)
      /\ Len(w) <= Len(windows[k])
      /\ Len(w) > 0 => ~Expired(g[Len(g) - Len(w) + 1])
  BY <1>1, LiveKeeps DEF KeyOK
<1>3. /\ Len(w) >= limit /\ now' = now /\ granted' = granted
      /\ windows' = [windows EXCEPT ![k] = w]
      /\ refused' = refused \cup {k}
  BY DEF Refuse
<1> HIDE DEF w
<1>4. windows'[k] = w /\ \A j \in Keys \ {k} : windows'[j] = windows[j]
  BY <1>1, <1>3
<1>5. Len(w) = limit /\ Len(w) <= Len(g)
  BY <1>1, <1>2, <1>3 DEF StoredIsSuffix
<1>6. TypeOK'
  BY <1>1, <1>2, <1>3, <1>4, <1>5 DEF IInv, TypeOK
<1>7. GrantsAreSpaced'
  BY <1>3 DEF IInv, GrantsAreSpaced
<1>8. RefusalIsJustified'
  BY <1>2, <1>3, <1>5 DEF IInv, RefusalIsJustified, Expired
<1>9. ASSUME NEW j \in Keys PROVE KeyOK(j)'
  <2>1. CASE j # k
    <3>1. KeyOK(j) /\ now' = now
          /\ windows'[j] = windows[j] /\ granted'[j] = granted[j]
      BY <1>3, <1>4, <2>1 DEF IInv
    <3>2. QED
      BY <3>1, UntouchedKey
  <2>2. CASE j = k
    BY <1>1, <1>2, <1>3, <1>4, <2>2
    DEF KeyOK, StoredIsSuffix, DroppedExpired, InClockOrder, Expired
  <2>3. QED
    BY <2>1, <2>2
<1>10. QED
  BY <1>6, <1>7, <1>8, <1>9 DEF IInv

\* Dropping a key drops expired times only.
LEMMA CleanupKeeps ==
  ASSUME IInv, Cleanup
  PROVE  IInv'
<1>1. /\ now' = now /\ granted' = granted /\ refused' = refused
      /\ granted \in [Keys -> Seq(Nat)] /\ windows \in [Keys -> Seq(Nat)]
      /\ limit \in Nat
  BY LimiterAssumption DEF IInv, TypeOK, Cleanup
<1>2. ASSUME NEW k \in Keys
      PROVE  \/ windows'[k] = windows[k]
             \/ /\ windows'[k] = <<>>
                /\ \A i \in 1..Len(windows[k]) : Expired(windows[k][i])
  BY DEF Cleanup
<1>3. windows' \in [Keys -> Seq(Nat)]
  BY <1>1 DEF Cleanup
<1>4. TypeOK'
  BY <1>1, <1>2, <1>3 DEF IInv, TypeOK
<1>5. GrantsAreSpaced' /\ RefusalIsJustified'
  BY <1>1 DEF IInv, GrantsAreSpaced, RefusalIsJustified, Expired
<1>6. ASSUME NEW k \in Keys PROVE KeyOK(k)'
  <2>1. CASE windows'[k] = windows[k]
    BY <1>1, <2>1, UntouchedKey DEF IInv
  <2>2. CASE /\ windows'[k] = <<>>
             /\ \A i \in 1..Len(windows[k]) : Expired(windows[k][i])
    <3> DEFINE g == granted[k]
               w == windows[k]
    <3>1. /\ KeyOK(k) /\ StoredIsSuffix(g, w) /\ DroppedExpired(g, w)
          /\ Len(g) \in Nat /\ Len(w) \in Nat
      BY <1>1 DEF IInv, KeyOK
    <3>2. ASSUME NEW i \in 1..Len(g) PROVE Expired(g[i])
      <4> HIDE DEF g, w
      <4>1. CASE i <= Len(g) - Len(w)
        BY <3>1, <4>1 DEF DroppedExpired
      <4>2. CASE ~(i <= Len(g) - Len(w))
        <5>1. /\ i - (Len(g) - Len(w)) \in 1..Len(w)
              /\ i = Len(g) - Len(w) + (i - (Len(g) - Len(w)))
          BY <3>1, <4>2
        <5>2. g[i] = w[i - (Len(g) - Len(w))]
          BY <3>1, <5>1 DEF StoredIsSuffix
        <5>3. QED
          BY <2>2, <5>1, <5>2 DEF w
      <4>3. QED
        BY <4>1, <4>2
    <3>3. QED
      BY <1>1, <2>2, <3>1, <3>2
      DEF KeyOK, StoredIsSuffix, DroppedExpired, InClockOrder, Expired
  <2>3. QED
    BY <1>2, <2>1, <2>2
<1>7. QED
  BY <1>4, <1>5, <1>6 DEF IInv

-----------------------------------------------------------------------------
\* IInv holds in every reachable state.
THEOREM Inductive == Spec => []IInv
<1>1. Init => IInv
  <2> SUFFICES ASSUME Init PROVE IInv
    OBVIOUS
  <2>1. TypeOK
    BY LimiterAssumption DEF Init, TypeOK
  <2>2. ASSUME NEW k \in Keys PROVE KeyOK(k)
    <3>1. windows[k] = <<>> /\ granted[k] = <<>> /\ Len(<<>>) = 0
      BY DEF Init
    <3>2. QED
      BY <3>1 DEF KeyOK, StoredIsSuffix, DroppedExpired, InClockOrder
  <2>3. GrantsAreSpaced /\ RefusalIsJustified
    BY DEF Init, GrantsAreSpaced, RefusalIsJustified
  <2>4. QED
    BY <2>1, <2>2, <2>3 DEF IInv
<1>2. IInv /\ [Next]_vars => IInv'
  <2> SUFFICES ASSUME IInv, [Next]_vars PROVE IInv'
    OBVIOUS
  <2>1. CASE Tick
    BY <2>1, TickKeeps
  <2>2. CASE Cleanup
    BY <2>2, CleanupKeeps
  <2>3. ASSUME NEW k \in Keys, Grant(k) PROVE IInv'
    BY <2>3, GrantKeeps
  <2>4. ASSUME NEW k \in Keys, Refuse(k) PROVE IInv'
    BY <2>4, RefuseKeeps
  <2>5. CASE UNCHANGED vars
    BY <2>5
    DEF vars, IInv, TypeOK, KeyOK, StoredIsSuffix, DroppedExpired,
        InClockOrder, Expired, GrantsAreSpaced, RefusalIsJustified
  <2>6. QED
    BY <2>1, <2>2, <2>3, <2>4, <2>5 DEF Next, Allow
<1>3. QED
  BY <1>1, <1>2, PTL DEF Spec

\* The limit is kept: of any limit + 1 grants of a key in a row, the first
\* and the last are more than a window apart.
THEOREM LimitKept == Spec => []GrantsAreSpaced
<1>1. IInv => GrantsAreSpaced
  BY DEF IInv
<1>2. QED
  BY <1>1, Inductive, PTL

\* Nobody is refused for events older than the window.
THEOREM RefusalsJustified == Spec => []RefusalIsJustified
<1>1. IInv => RefusalIsJustified
  BY DEF IInv
<1>2. QED
  BY <1>1, Inductive, PTL

\* The stored times, the clock and the grants keep their types: Cleanup and
\* Allow leave a window of times for every key.
THEOREM TypeCorrect == Spec => []TypeOK
<1>1. IInv => TypeOK
  BY DEF IInv
<1>2. QED
  BY <1>1, Inductive, PTL
=============================================================================
