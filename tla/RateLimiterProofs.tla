------------------------- MODULE RateLimiterProofs -------------------------
(***************************************************************************)
(* Proofs about RateLimiter, for any agents, capacity, refill rate and     *)
(* number of calls: its types, the bound on every window, the service of   *)
(* patient agents, and that it implements TokenBucket.                     *)
(***************************************************************************)
EXTENDS RateLimiter, TLAPS

\* The capacity in parts is a natural number.
LEMMA FullNat == Full \in Nat /\ (Capacity # 0 => Full >= Unit)
<1>1. \A c, u \in Nat : c * u \in Nat /\ (c # 0 => c * u >= u)
  <2>1. \A c, u \in Nat : c * u \in Nat
    OBVIOUS
  <2>2. ASSUME NEW c \in Nat, NEW u \in Nat, c # 0 PROVE c * u >= u
    <3>1. c - 1 \in Nat /\ c * u = (c - 1) * u + u
      BY <2>2
    <3>2. (c - 1) * u \in Nat
      BY <2>1, <3>1
    <3>3. QED
      BY <3>1, <3>2
  <2>3. QED
    BY <2>1, <2>2
<1>2. QED
  BY <1>1, RateAssumption DEF Full

\* Refilling over a time span is refilling over its two parts.
LEMMA RefillSplits ==
    \A x, y, z \in Nat : x <= y /\ y <= z =>
        (z - x) * Refill = (y - x) * Refill + (z - y) * Refill
  BY RateAssumption

\* A refill is a natural number of parts.
LEMMA RefillNat == \A x \in Nat : x * Refill \in Nat
  BY RateAssumption

\* The bucket allow() looks at, and its refill, are within the capacity.
LEMMA BucketType ==
    LimiterTypes => \A a \in Agents : /\ Bucket(a).tokens \in 0 .. Full
                                /\ Bucket(a).last \in 0 .. now
                                /\ Refilled(a) \in 0 .. Full
<1> SUFFICES ASSUME LimiterTypes, NEW a \in Agents
             PROVE  /\ Bucket(a).tokens \in 0 .. Full
                    /\ Bucket(a).last \in 0 .. now
                    /\ Refilled(a) \in 0 .. Full
  OBVIOUS
<1>1. Bucket(a).tokens \in 0 .. Full /\ Bucket(a).last \in 0 .. now
  BY FullNat DEF LimiterTypes, Bucket
<1>2. now - Bucket(a).last \in Nat
  BY <1>1 DEF LimiterTypes
<1>3. (now - Bucket(a).last) * Refill \in Nat
  BY <1>2, RefillNat
<1>4. Refilled(a) \in 0 .. Full
  BY <1>1, <1>3, FullNat DEF Refilled, AtMost
<1>5. QED
  BY <1>1, <1>4

-----------------------------------------------------------------------------
\* Every step keeps the variables in their ranges.
LEMMA TypeStep == LimiterTypes /\ [LimiterNext]_limiterVars => LimiterTypes'
<1> SUFFICES ASSUME LimiterTypes, [LimiterNext]_limiterVars PROVE LimiterTypes'
  OBVIOUS
<1> USE RateAssumption, FullNat
<1>1. ASSUME NEW a \in Agents, Grant(a) PROVE LimiterTypes'
  <2>1. Refilled(a) - Unit \in 0 .. Full
    BY <1>1, BucketType DEF Grant
  <2>2. QED
    BY <1>1, <2>1 DEF Grant, Store, LimiterTypes
<1>2. ASSUME NEW a \in Agents, TurnAway(a) PROVE LimiterTypes'
  <2>1. Refilled(a) \in 0 .. Full
    BY BucketType
  <2>2. QED
    BY <1>2, <2>1 DEF TurnAway, Store, LimiterTypes
<1>3. ASSUME ClockTick PROVE LimiterTypes'
  BY <1>3 DEF ClockTick, LimiterTypes
<1>4. CASE UNCHANGED limiterVars
  BY <1>4 DEF limiterVars, LimiterTypes
<1>5. QED
  BY <1>1, <1>2, <1>3, <1>4 DEF LimiterNext

\* Type correctness: a bucket never holds less than nothing or more than the
\* capacity, and was never last seen in the future.
THEOREM TypeCorrect == LimiterSpec => []LimiterTypes
<1>1. LimiterInit => LimiterTypes
  BY RateAssumption DEF LimiterInit, LimiterTypes
<1>2. QED
  BY <1>1, TypeStep, PTL DEF LimiterSpec

-----------------------------------------------------------------------------
\* What a seen agent's bucket and its grants have to do with each other.  With
\* g the time of the i-th of n grants, the tokens left and the grants since
\* do not exceed a full bucket and the refill since g ...
Spent(a) ==
    \A i \in 1 .. Len(grants[a]) :
        /\ grants[a][i] <= buckets[a].last
        /\ (Len(grants[a]) - i + 1) * Unit + buckets[a].tokens
              <= Full + (buckets[a].last - grants[a][i]) * Refill

\* ... and hold at least what was refilled since the last grant.
Kept(a) ==
    IF grants[a] = <<>> THEN buckets[a].tokens = Full
    ELSE \/ buckets[a].tokens = Full
         \/ (buckets[a].last - grants[a][Len(grants[a])]) * Refill
               <= buckets[a].tokens

RateInv ==
    /\ LimiterTypes
    /\ \A a \in Agents \ DOMAIN buckets : grants[a] = <<>>
    /\ \A a \in DOMAIN buckets : Spent(a) /\ Kept(a)

\* The refill of allow() keeps both, as of now.
LEMMA RefilledKeeps ==
    ASSUME RateInv, NEW a \in Agents
    PROVE  /\ \A i \in 1 .. Len(grants[a]) :
                 /\ grants[a][i] \in 0 .. now
                 /\ (Len(grants[a]) - i + 1) * Unit + Refilled(a)
                       <= Full + (now - grants[a][i]) * Refill
           /\ \/ Refilled(a) = Full
              \/ /\ grants[a] # <<>>
                 /\ (now - grants[a][Len(grants[a])]) * Refill <= Refilled(a)
<1> USE RateAssumption, FullNat
<1>1. LimiterTypes
  BY DEF RateInv
<1>2. /\ Bucket(a).tokens \in 0 .. Full /\ Bucket(a).last \in 0 .. now
      /\ Refilled(a) \in 0 .. Full /\ now \in Nat /\ grants[a] \in Seq(Nat)
      /\ Len(grants[a]) \in Nat
      /\ \A i \in 1 .. Len(grants[a]) : grants[a][i] \in Nat
  BY <1>1, BucketType DEF LimiterTypes
<1>3. CASE a \notin DOMAIN buckets
  <2>1. grants[a] = <<>> /\ Bucket(a) = [tokens |-> Full, last |-> now]
    BY <1>3 DEF RateInv, Bucket
  <2>2. Refilled(a) = Full
    BY <1>2, <2>1, RefillNat DEF Refilled, AtMost
  <2>3. QED
    BY <2>1, <2>2
<1>4. CASE a \in DOMAIN buckets
  <2> DEFINE tok == buckets[a].tokens
             last == buckets[a].last
  <2>1. Bucket(a) = buckets[a] /\ Spent(a) /\ Kept(a)
    BY <1>4 DEF RateInv, Bucket
  <2>2. tok \in 0 .. Full /\ last \in 0 .. now
    BY <1>2, <2>1
  <2>3. (now - last) * Refill \in Nat
    BY <1>2, <2>2, RefillNat
  <2>4. /\ Refilled(a) = AtMost(tok + (now - last) * Refill, Full)
        /\ Refilled(a) <= tok + (now - last) * Refill
    BY <1>2, <2>1, <2>2, <2>3 DEF Refilled, AtMost
  <2>5. /\ \A i \in 1 .. Len(grants[a]) :
              /\ grants[a][i] <= last
              /\ (Len(grants[a]) - i + 1) * Unit + tok
                    <= Full + (last - grants[a][i]) * Refill
        /\ \/ tok = Full
           \/ /\ grants[a] # <<>>
              /\ (last - grants[a][Len(grants[a])]) * Refill <= tok
    BY <2>1 DEF Spent, Kept
  <2> HIDE DEF tok, last
  <2>6. ASSUME NEW i \in 1 .. Len(grants[a])
        PROVE  /\ grants[a][i] \in 0 .. now
               /\ (Len(grants[a]) - i + 1) * Unit + Refilled(a)
                     <= Full + (now - grants[a][i]) * Refill
    <3> DEFINE g == grants[a][i]
               n == Len(grants[a]) - i + 1
    <3>1. g \in Nat /\ g <= last /\ n * Unit + tok <= Full + (last - g) * Refill
      BY <1>2, <2>5
    <3>2. n \in Nat
      BY <1>2
    <3> HIDE DEF n, g
    <3>3. (now - g) * Refill = (last - g) * Refill + (now - last) * Refill
      BY <1>2, <2>2, <3>1, RefillSplits
    <3>4. (last - g) * Refill \in Int /\ n * Unit \in Int
      BY <1>2, <2>2, <3>1, <3>2
    <3>5. n * Unit + Refilled(a) <= Full + (now - g) * Refill
      BY <1>2, <2>2, <2>3, <2>4, <3>1, <3>3, <3>4
    <3>6. g \in 0 .. now
      BY <1>2, <2>2, <3>1
    <3>7. QED
      BY <3>5, <3>6 DEF n, g
  <2>7. \/ Refilled(a) = Full
        \/ /\ grants[a] # <<>>
           /\ (now - grants[a][Len(grants[a])]) * Refill <= Refilled(a)
    <3>1. CASE tok = Full
      BY <2>3, <2>4, <3>1 DEF AtMost
    <3>2. CASE tok # Full
      <4> DEFINE g == grants[a][Len(grants[a])]
      <4>1. grants[a] # <<>> /\ (last - g) * Refill <= tok
        BY <2>5, <3>2
      <4>2. Len(grants[a]) \in 1 .. Len(grants[a])
        BY <1>2, <4>1
      <4>3. g \in Nat /\ g <= last
        BY <1>2, <2>5, <4>2
      <4> HIDE DEF g
      <4>4. (now - g) * Refill = (last - g) * Refill + (now - last) * Refill
        BY <1>2, <2>2, <4>3, RefillSplits
      <4>5. (last - g) * Refill \in Int
        BY <2>2, <4>3
      <4>6. Refilled(a) = Full \/ (now - g) * Refill <= Refilled(a)
        BY <1>2, <2>2, <2>3, <2>4, <4>1, <4>4, <4>5 DEF AtMost
      <4>7. QED
        BY <4>1, <4>6 DEF g
    <3>3. QED
      BY <3>1, <3>2
  <2>8. QED
    BY <2>6, <2>7
<1>5. QED
  BY <1>3, <1>4

\* After a call both hold of the stored bucket, with the call's own grant too.
LEMMA StoreKeeps ==
    ASSUME RateInv, NEW a \in Agents, Grant(a) \/ TurnAway(a)
    PROVE  RateInv'
<1> USE RateAssumption, FullNat
<1>1. LimiterTypes /\ LimiterTypes'
  BY TypeStep DEF RateInv, LimiterNext
<1>2. /\ DOMAIN buckets' = DOMAIN buckets \cup {a}
      /\ \A b \in DOMAIN buckets \ {a} : buckets'[b] = buckets[b]
      /\ \A b \in Agents \ {a} : grants'[b] = grants[b]
      /\ buckets'[a].last = now /\ now' = now
  BY <1>1 DEF Grant, TurnAway, Store, LimiterTypes
<1>3. Spent(a)' /\ Kept(a)'
  <2> DEFINE r == Refilled(a)
             w(i) == (now - grants[a][i]) * Refill
  <2>1. /\ r \in 0 .. Full /\ now \in Nat /\ grants[a] \in Seq(Nat)
        /\ Len(grants[a]) \in Nat
    BY <1>1, BucketType DEF LimiterTypes
  <2>2. /\ \A i \in 1 .. Len(grants[a]) :
              /\ grants[a][i] \in 0 .. now
              /\ (Len(grants[a]) - i + 1) * Unit + r <= Full + w(i)
        /\ r = Full \/ (grants[a] # <<>> /\ w(Len(grants[a])) <= r)
    BY RefilledKeeps
  <2> HIDE DEF r
  <2>3. CASE TurnAway(a)
    <3>1. buckets'[a].tokens = r /\ grants' = grants
      BY <2>3 DEF TurnAway, Store, r
    <3>2. Spent(a)'
      <4>1. ASSUME NEW i \in 1 .. Len(grants[a]) PROVE grants[a][i] <= now
        BY <2>1, <2>2
      <4>2. \A i \in 1 .. Len(grants[a]) :
               /\ grants[a][i] <= now
               /\ (Len(grants[a]) - i + 1) * Unit + r <= Full + w(i)
        BY <2>2, <4>1
      <4>3. QED
        BY <1>2, <3>1, <4>2, Zenon DEF Spent
    <3>3. Kept(a)'
      BY <1>2, <2>1, <2>2, <3>1 DEF Kept
    <3>4. QED
      BY <3>2, <3>3
  <2>4. CASE Grant(a)
    <3>1. /\ buckets'[a].tokens = r - Unit
          /\ grants'[a] = Append(grants[a], now)
      BY <1>1, <2>4 DEF Grant, Store, LimiterTypes, r
    <3>2. /\ Len(grants'[a]) = Len(grants[a]) + 1
          /\ \A i \in 1 .. Len(grants[a]) : grants'[a][i] = grants[a][i]
          /\ grants'[a][Len(grants[a]) + 1] = now
          /\ grants'[a] # <<>>
      BY <2>1, <3>1
    <3>3. (now - now) * Refill = 0
      BY <2>1
    <3>4. ASSUME NEW i \in 1 .. Len(grants'[a])
          PROVE  /\ grants'[a][i] <= now
                 /\ (Len(grants'[a]) - i + 1) * Unit + buckets'[a].tokens
                       <= Full + (now - grants'[a][i]) * Refill
      <4>1. CASE i = Len(grants[a]) + 1
        <5>1. (Len(grants'[a]) - i + 1) * Unit = Unit /\ grants'[a][i] = now
          BY <2>1, <3>2, <4>1
        <5>2. QED
          BY <2>1, <3>1, <3>3, <5>1
      <4>2. CASE i # Len(grants[a]) + 1
        <5> HIDE DEF w
        <5>1. i \in 1 .. Len(grants[a]) /\ grants'[a][i] = grants[a][i]
          <6>1. i \in 1 .. Len(grants[a]) + 1
            BY <3>2, Zenon
          <6>2. i \in 1 .. Len(grants[a])
            BY <2>1, <4>2, <6>1
          <6>3. QED
            BY <3>2, <6>2
        <5>2. grants[a][i] \in 0 .. now
              /\ (Len(grants[a]) - i + 1) * Unit + r <= Full + w(i)
          BY <2>2, <5>1
        <5> DEFINE n == Len(grants[a]) - i + 1
        <5>3. n \in Nat /\ Len(grants'[a]) - i + 1 = n + 1
          BY <2>1, <3>2, <5>1
        <5>4. w(i) \in Int
          BY <2>1, <5>2 DEF w
        <5> HIDE DEF n
        <5>5. n * Unit \in Int /\ (n + 1) * Unit = n * Unit + Unit
          BY <5>3
        <5>6. n * Unit + r <= Full + w(i)
          BY <5>2 DEF n
        <5>7. (n + 1) * Unit + (r - Unit) <= Full + w(i)
          BY <2>1, <5>4, <5>5, <5>6
        <5>8. QED
          BY <2>1, <3>1, <5>1, <5>2, <5>3, <5>7 DEF w
      <4>3. QED
        BY <4>1, <4>2
    <3>5. Spent(a)'
      BY <1>2, <3>4 DEF Spent
    <3>6. Kept(a)'
      <4>1. r - Unit \in Nat
        BY <2>1, <2>4 DEF Grant, r
      <4>2. QED
        BY <1>2, <3>1, <3>2, <3>3, <4>1 DEF Kept
    <3>7. QED
      BY <3>5, <3>6
  <2>5. QED
    BY <2>3, <2>4
<1>4. ASSUME NEW b \in DOMAIN buckets', b # a PROVE Spent(b)' /\ Kept(b)'
  <2>1. b \in DOMAIN buckets /\ b \in Agents /\ Spent(b) /\ Kept(b)
    BY <1>1, <1>2, <1>4 DEF RateInv, LimiterTypes
  <2>2. buckets'[b] = buckets[b] /\ grants'[b] = grants[b]
    BY <1>2, <1>4, <2>1
  <2>3. QED
    BY <2>1, <2>2 DEF Spent, Kept
<1>5. \A b \in Agents \ DOMAIN buckets' : grants'[b] = <<>>
  BY <1>2 DEF RateInv
<1>6. QED
  BY <1>1, <1>3, <1>4, <1>5 DEF RateInv

\* The inductive invariant.
LEMMA RateInvariant == LimiterSpec => []RateInv
<1>1. LimiterInit => RateInv
  BY RateAssumption DEF LimiterInit, RateInv, LimiterTypes
<1>2. RateInv /\ [LimiterNext]_limiterVars => RateInv'
  <2> SUFFICES ASSUME RateInv, [LimiterNext]_limiterVars PROVE RateInv'
    OBVIOUS
  <2>1. ASSUME NEW a \in Agents, Grant(a) \/ TurnAway(a) PROVE RateInv'
    BY <2>1, StoreKeeps
  <2>2. ASSUME ClockTick \/ UNCHANGED limiterVars PROVE RateInv'
    <3>1. UNCHANGED <<buckets, grants>> /\ LimiterTypes'
      BY <2>2, TypeStep DEF ClockTick, limiterVars, RateInv, LimiterNext
    <3>2. QED
      BY <3>1 DEF RateInv, Spent, Kept
  <2>3. QED
    BY <2>1, <2>2 DEF LimiterNext
<1>3. QED
  BY <1>1, <1>2, PTL DEF LimiterSpec

-----------------------------------------------------------------------------
\* In every window of time an agent is granted at most a full bucket plus the
\* refill of that window, however its calls are timed (ratelimit.py:47-59).
THEOREM WindowBounded == LimiterSpec => []WindowBound
<1>1. RateInv => WindowBound
  <2> SUFFICES ASSUME RateInv, NEW a \in Agents, NEW i \in 1 .. Len(grants[a])
               PROVE  (Len(grants[a]) - i + 1) * Unit
                        <= Full + (now - grants[a][i]) * Refill
    BY DEF WindowBound
  <2> DEFINE spent == (Len(grants[a]) - i + 1) * Unit
             window == (now - grants[a][i]) * Refill
  <2>1. Refilled(a) \in Nat /\ Full \in Nat
    BY BucketType, FullNat DEF RateInv
  <2>2. spent + Refilled(a) <= Full + window /\ grants[a][i] \in 0 .. now
    BY RefilledKeeps
  <2>3. spent \in Int /\ window \in Int
    BY <2>2, RateAssumption DEF RateInv, LimiterTypes
  <2> HIDE DEF spent, window
  <2>4. spent <= Full + window
    BY <2>1, <2>2, <2>3
  <2>5. QED
    BY <2>4 DEF spent, window
<1>2. QED
  BY <1>1, RateInvariant, PTL

\* An agent is refused only while the refill since its last grant is short of
\* a token: a retry that was refused never delays the next grant.
THEOREM PatienceIsServed == LimiterSpec => PatienceServed
<1> DEFINE P == \A a \in Agents : TurnAway(a) =>
                  \/ Capacity = 0
                  \/ /\ grants[a] # <<>>
                     /\ (now - grants[a][Len(grants[a])]) * Refill < Unit
<1>1. RateInv => P
  <2> SUFFICES ASSUME RateInv, NEW a \in Agents, TurnAway(a), Capacity # 0
               PROVE  /\ grants[a] # <<>>
                      /\ (now - grants[a][Len(grants[a])]) * Refill < Unit
    OBVIOUS
  <2> DEFINE window == (now - grants[a][Len(grants[a])]) * Refill
  <2>1. Refilled(a) < Unit /\ Refilled(a) \in Nat /\ Full >= Unit /\ Full \in Nat
    BY BucketType, FullNat DEF RateInv, TurnAway
  <2>2. grants[a] # <<>> /\ window <= Refilled(a)
    BY <2>1, RefilledKeeps, RateAssumption
  <2>3. Len(grants[a]) \in 1 .. Len(grants[a])
    BY <2>2 DEF RateInv, LimiterTypes
  <2>4. window \in Int
    BY <2>3, RefilledKeeps, RateAssumption DEF RateInv, LimiterTypes
  <2> HIDE DEF window
  <2>5. window < Unit
    BY <2>1, <2>2, <2>4, RateAssumption
  <2>6. QED
    BY <2>2, <2>5 DEF window
<1>2. RateInv => [P]_limiterVars
  BY <1>1
<1>3. QED
  BY <1>2, RateInvariant, PTL DEF PatienceServed

-----------------------------------------------------------------------------
\* Waiting one more tick adds one tick's refill to what the bucket holds.
LEMMA TickDrips ==
    ASSUME LimiterTypes, ClockTick, NEW a \in Agents
    PROVE  Refilled(a)' = AtMost(Refilled(a) + Refill, Full)
<1> USE RateAssumption, FullNat
<1>1. /\ Bucket(a).tokens \in 0 .. Full /\ Bucket(a).last \in 0 .. now
      /\ now \in Nat /\ now' = now + 1 /\ buckets' = buckets
  BY BucketType DEF ClockTick, LimiterTypes
<1>2. CASE a \in DOMAIN buckets
  <2> DEFINE tok == buckets[a].tokens
             last == buckets[a].last
  <2>1. /\ Bucket(a) = buckets[a] /\ Bucket(a)' = buckets[a]
        /\ tok \in 0 .. Full /\ last \in 0 .. now
    BY <1>1, <1>2 DEF Bucket
  <2>2. /\ Refilled(a) = AtMost(tok + (now - last) * Refill, Full)
        /\ Refilled(a)' = AtMost(tok + (now' - last) * Refill, Full)
    BY <2>1 DEF Refilled
  <2> HIDE DEF tok, last
  <2>3. /\ (now' - last) * Refill = (now - last) * Refill + Refill
        /\ (now - last) * Refill \in Nat
    <3>1. now - last \in Nat /\ now' - last = (now - last) + 1
      BY <1>1, <2>1
    <3>2. \A x \in Nat : x * Refill \in Nat /\ (x + 1) * Refill = x * Refill + Refill
      OBVIOUS
    <3>3. QED
      BY <3>1, <3>2
  <2>4. QED
    BY <2>1, <2>2, <2>3 DEF AtMost
<1>3. CASE a \notin DOMAIN buckets
  <2>1. (now - now) * Refill = 0 /\ (now' - now') * Refill = 0
    BY <1>1
  <2>2. Refilled(a) = Full /\ Refilled(a)' = Full
    BY <1>1, <1>3, <2>1 DEF Refilled, Bucket, AtMost
  <2>3. QED
    BY <2>2 DEF AtMost
<1>4. QED
  BY <1>2, <1>3

\* A call changes what its agent's bucket holds as of now to what it stored,
\* and no other bucket.
LEMMA StoreLevels ==
    ASSUME LimiterTypes, NEW a \in Agents, NEW n \in 0 .. Full, Store(a, n), now' = now
    PROVE  \A b \in Agents : Refilled(b)' = IF b = a THEN n ELSE Refilled(b)
<1> USE RateAssumption, FullNat
<1>1. /\ DOMAIN buckets' = DOMAIN buckets \cup {a}
      /\ buckets'[a] = [tokens |-> n, last |-> now]
      /\ \A b \in DOMAIN buckets \ {a} : buckets'[b] = buckets[b]
  BY DEF Store
<1>2. (now - now) * Refill = 0
  BY DEF LimiterTypes
<1>3. Refilled(a)' = n
  <2>1. Bucket(a)' = [tokens |-> n, last |-> now]
    BY <1>1 DEF Bucket
  <2>2. QED
    BY <1>2, <2>1 DEF Refilled, AtMost
<1>4. ASSUME NEW b \in Agents, b # a PROVE Refilled(b)' = Refilled(b)
  <2>1. Bucket(b)' = Bucket(b)
    BY <1>1, <1>4 DEF Bucket
  <2>2. QED
    BY <2>1 DEF Refilled
<1>5. QED
  BY <1>3, <1>4

\* The lazy limiter implements the bucket that drips all the time: refilling
\* only when an agent calls (ratelimit.py:49-55) is not observable.
THEOREM ImplementsTokenBucket == LimiterSpec => IsTokenBucket
<1> DEFINE level == [a \in Agents |-> Refilled(a)]
<1>1. LimiterInit => Dripping!Init
  <2> SUFFICES ASSUME LimiterInit PROVE Dripping!Init
    OBVIOUS
  <2>1. \A a \in Agents : Refilled(a) = Full
    <3>1. (now - now) * Refill = 0 /\ Full \in Nat
      BY RateAssumption, FullNat DEF LimiterInit
    <3>2. QED
      <4> SUFFICES ASSUME NEW a \in Agents PROVE Refilled(a) = Full
        OBVIOUS
      <4>1. DOMAIN buckets = {}
        BY DEF LimiterInit
      <4>2. Bucket(a) = [tokens |-> Full, last |-> now]
        BY <4>1 DEF Bucket
      <4>3. QED
        BY <3>1, <4>2 DEF Refilled, AtMost
  <2>2. QED
    BY <2>1 DEF LimiterInit, Dripping!Init, Dripping!Full, Full
<1>2. LimiterTypes /\ [LimiterNext]_limiterVars => [Dripping!Next]_<<level, answer>>
  <2> SUFFICES ASSUME LimiterTypes, [LimiterNext]_limiterVars PROVE [Dripping!Next]_<<level, answer>>
    OBVIOUS
  <2> USE DEF Dripping!Next
  <2>1. ASSUME ClockTick PROVE Dripping!Next
    <3>1. level' = [a \in Agents |-> AtMost(level[a] + Refill, Full)]
      BY <2>1, TickDrips
    <3>2. answer' = answer
      BY <2>1 DEF ClockTick
    <3>3. QED
      BY <3>1, <3>2 DEF Dripping!Drip, Dripping!AtMost, Dripping!Full, AtMost, Full
  <2>2. ASSUME NEW a \in Agents, Grant(a) PROVE Dripping!Next
    <3>1. Refilled(a) - Unit \in 0 .. Full
      BY <2>2, BucketType, FullNat, RateAssumption DEF Grant
    <3>2. \A b \in Agents :
             Refilled(b)' = IF b = a THEN Refilled(a) - Unit ELSE Refilled(b)
      BY <2>2, <3>1, StoreLevels DEF Grant
    <3>3. level' = [level EXCEPT ![a] = @ - Unit]
      BY <3>2
    <3>4. level[a] >= Unit /\ answer' = [answer EXCEPT ![a] = "granted"]
      BY <2>2 DEF Grant
    <3>5. QED
      BY <3>3, <3>4 DEF Dripping!Take
  <2>3. ASSUME NEW a \in Agents, TurnAway(a) PROVE Dripping!Next
    <3>1. Refilled(a) \in 0 .. Full
      BY BucketType
    <3>2. \A b \in Agents : Refilled(b)' = Refilled(b)
      BY <2>3, <3>1, StoreLevels DEF TurnAway
    <3>3. level' = level
      BY <3>2
    <3>4. level[a] < Unit /\ answer' = [answer EXCEPT ![a] = "refused"]
      BY <2>3 DEF TurnAway
    <3>5. QED
      BY <3>3, <3>4 DEF Dripping!Turn
  <2>4. ASSUME UNCHANGED limiterVars PROVE UNCHANGED <<level, answer>>
    BY <2>4 DEF limiterVars, Refilled, Bucket
  <2>5. QED
    BY <2>1, <2>2, <2>3, <2>4 DEF LimiterNext
<1>3. QED
  BY <1>1, <1>2, TypeCorrect, PTL DEF LimiterSpec, IsTokenBucket, Dripping!Spec

=============================================================================
