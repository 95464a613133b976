------------------------- MODULE RateLimiterProofs -------------------------
(***************************************************************************)
(* The token bucket keeps its promise for every rate, burst and clock      *)
(* resolution.  The inductive invariant follows every granted request i of *)
(* a client with the account of what happened since: the grants from i on  *)
(* and the tokens left never exceed what the bucket can hold plus what it  *)
(* gained since i, and for some i they are equal to it.                    *)
(***************************************************************************)
EXTENDS RateLimiter, TLAPS

\* The account of the grants from the i-th on, at the last use of the bucket.
Used(k, i) == Units(Len(grants[k]) - i + 1) + buckets[k].tokens
Budget(k, i) == Capacity + Gain(buckets[k].lastCheck - grants[k][i])

\* For each client that has called: its grants lie in the past, no account is
\* overdrawn, and one account balances.
BucketInv(k) ==
  /\ buckets[k].lastCheck <= clock
  /\ \A i \in DOMAIN grants[k] : grants[k][i] <= buckets[k].lastCheck /\ Used(k, i) <= Budget(k, i)
  /\ \E i \in DOMAIN grants[k] : Used(k, i) = Budget(k, i)

LimiterInv ==
  /\ LimiterTypeOK
  /\ \A k \in DOMAIN buckets : BucketInv(k)
  /\ \A k \in Key \ DOMAIN buckets : grants[k] = << >>
  /\ WindowBound

-----------------------------------------------------------------------------
\* Capacity holds at least one token (NewRateLimiter is called with burst 200).
LEMMA CapacityNat == Capacity \in Nat /\ Capacity >= Scale /\ Scale > 0 /\ Scale \in Nat
<1>1. Burst \in Nat /\ Burst >= 1 /\ Scale \in Nat /\ Scale >= 1
  BY RateAssumption
<1>2. PICK b \in Nat : Burst = b + 1
  BY <1>1
<1>3. Burst * Scale = b * Scale + Scale /\ b * Scale \in Nat
  BY <1>1, <1>2
<1> QED BY <1>1, <1>3 DEF Capacity, Units

\* The gain of a bucket is additive in time: elapsed * rate.
LEMMA GainFacts ==
  /\ \A a \in Int : Gain(a) \in Int
  /\ \A a \in Nat : Gain(a) \in Nat
  /\ Gain(0) = 0
BY RateAssumption DEF Gain

\* The gain over two stretches of time is the sum of their gains.
LEMMA GainSum == \A a, b \in Int : Gain(a + b) = Gain(a) + Gain(b)
BY RateAssumption DEF Gain

\* A number of tokens is a number of units.
LEMMA UnitsFacts == Units(0) = 0 /\ \A n \in Int : Units(n) \in Int
BY RateAssumption DEF Units

\* One more token is Scale more units.
LEMMA UnitsStep == \A n \in Int : Units(n + 1) = Units(n) + Scale
BY RateAssumption DEF Units

\* The gain from gi to nw is the gain up to lc and the gain from there.
LEMMA GainSplit ==
  ASSUME NEW lc \in Nat, NEW nw \in Nat, NEW gi \in Nat
  PROVE  /\ Gain(nw - gi) = Gain(lc - gi) + Gain(nw - lc)
         /\ Gain(lc - gi) \in Int /\ Gain(nw - lc) \in Int
<1>1. nw - gi = (lc - gi) + (nw - lc) /\ lc - gi \in Int /\ nw - lc \in Int
  OBVIOUS
<1> QED BY <1>1, GainSum, GainFacts

\* An account that is not overdrawn is not overdrawn after a refill.
LEMMA Carry ==
  ASSUME NEW u \in Int, NEW tok \in Nat, NEW lc \in Nat, NEW nw \in Nat, NEW gi \in Nat,
         NEW t \in Nat,
         u + tok <= Capacity + Gain(lc - gi),
         t <= tok + Gain(nw - lc)
  PROVE  u + t <= Capacity + Gain(nw - gi)
<1>1. /\ Gain(nw - gi) = Gain(lc - gi) + Gain(nw - lc)
      /\ Gain(lc - gi) \in Int /\ Gain(nw - lc) \in Int
  BY GainSplit
<1> QED BY <1>1, CapacityNat

\* What Refill computes: never more than the tokens gained, and less only at
\* the capacity.
LEMMA RefillFacts ==
  ASSUME NEW b \in [tokens : 0..Capacity, lastCheck : Nat], clock \in Nat, b.lastCheck <= clock
  PROVE  /\ Refill(b) \in 0..Capacity
         /\ Refill(b) <= b.tokens + Gain(clock - b.lastCheck)
         /\ Refill(b) = Capacity \/ Refill(b) = b.tokens + Gain(clock - b.lastCheck)
<1>1. clock - b.lastCheck \in Nat
  OBVIOUS
<1>2. Gain(clock - b.lastCheck) \in Nat
  BY <1>1, GainFacts
<1> QED BY <1>2, CapacityNat DEF Refill

\* The bucket of a client, old or new, is well formed.
LEMMA BucketFacts ==
  ASSUME LimiterInv, NEW k \in Key
  PROVE  /\ Bucket(k) \in [tokens : 0..Capacity, lastCheck : Nat]
         /\ Bucket(k).lastCheck <= clock
         /\ k \notin DOMAIN buckets => Refill(Bucket(k)) = Capacity
<1>1. CASE k \in DOMAIN buckets
  BY <1>1 DEF LimiterInv, LimiterTypeOK, Bucket, BucketInv
<1>2. CASE k \notin DOMAIN buckets
  <2>1. Bucket(k) = [tokens |-> Capacity, lastCheck |-> clock] /\ clock \in Nat
    BY <1>2 DEF Bucket, LimiterInv, LimiterTypeOK
  <2>2. Gain(clock - clock) = 0
    BY <2>1, GainFacts
  <2> QED BY <1>2, <2>1, <2>2, CapacityNat DEF Refill
<1> QED BY <1>1, <1>2

\* A granted request preserves the invariant.
LEMMA AllowPreserves ==
  ASSUME LimiterInv, NEW k \in Key, Allow(k)
  PROVE  LimiterInv'
<1> DEFINE t == Refill(Bucket(k))
           g == grants[k]
<1>0. PICK n \in Nat : n = Len(g)
  BY DEF LimiterInv, LimiterTypeOK
<1>1. /\ t \in Nat /\ t <= Capacity /\ t >= Scale
      /\ t - Scale \in 0..Capacity
      /\ t <= Bucket(k).tokens + Gain(clock - Bucket(k).lastCheck)
      /\ t = Capacity \/ t = Bucket(k).tokens + Gain(clock - Bucket(k).lastCheck)
      /\ k \notin DOMAIN buckets => t = Capacity
  BY BucketFacts, RefillFacts, CapacityNat, SMTT(60) DEF Allow, LimiterInv, LimiterTypeOK
<1>2. /\ clock' = clock /\ clock \in Nat
      /\ DOMAIN buckets' = DOMAIN buckets \cup {k}
      /\ buckets' = [x \in DOMAIN buckets \cup {k} |->
                       IF x = k THEN [tokens |-> t - Scale, lastCheck |-> clock] ELSE buckets[x]]
      /\ grants' = [grants EXCEPT ![k] = Append(g, clock)]
      /\ g \in Seq(Nat) /\ n \in Nat
  BY <1>0 DEF Allow, Save, LimiterInv, LimiterTypeOK
<1>nat. clock \in Nat /\ n \in Nat /\ clock' = clock
  BY <1>2
<1>old. g = grants[k] /\ n = Len(g) /\ Len(grants[k]) = n
  BY <1>0
<1> HIDE DEF t, g
<1>3. /\ buckets'[k] = [tokens |-> t - Scale, lastCheck |-> clock]
      /\ buckets'[k].tokens = t - Scale /\ buckets'[k].lastCheck = clock
      /\ grants'[k] = Append(g, clock)
      /\ Len(grants'[k]) = n + 1 /\ DOMAIN grants'[k] = 1..(n + 1)
      /\ DOMAIN g = 1..n
      /\ \A i \in 1..n : grants'[k][i] = g[i] /\ g[i] \in Nat
      /\ grants'[k][n + 1] = clock
  BY <1>2, <1>old DEF LimiterInv, LimiterTypeOK
<1>4. \A x \in Key \ {k} : grants'[x] = grants[x]
  BY <1>2 DEF LimiterInv, LimiterTypeOK
<1>5. \A x \in DOMAIN buckets \ {k} : buckets'[x] = buckets[x]
  BY <1>2
<1>6. LimiterTypeOK'
  BY <1>1, <1>2, <1>3, <1>4, <1>5 DEF LimiterInv, LimiterTypeOK
<1>7. k \notin DOMAIN buckets => n = 0
  BY <1>old DEF LimiterInv
<1>8. \A i \in 1..n : /\ k \in DOMAIN buckets
                      /\ Bucket(k) = buckets[k]
                      /\ buckets[k].tokens \in Nat /\ buckets[k].lastCheck \in Nat
                      /\ g[i] <= buckets[k].lastCheck /\ buckets[k].lastCheck <= clock
                      /\ Units(n - i + 1) + buckets[k].tokens
                           <= Capacity + Gain(buckets[k].lastCheck - g[i])
  <2> SUFFICES ASSUME NEW i \in 1..n
               PROVE  /\ k \in DOMAIN buckets
                      /\ Bucket(k) = buckets[k]
                      /\ buckets[k].tokens \in Nat /\ buckets[k].lastCheck \in Nat
                      /\ g[i] <= buckets[k].lastCheck /\ buckets[k].lastCheck <= clock
                      /\ Units(n - i + 1) + buckets[k].tokens
                           <= Capacity + Gain(buckets[k].lastCheck - g[i])
    OBVIOUS
  <2>1. k \in DOMAIN buckets
    BY <1>2, <1>7
  <2>2. BucketInv(k) /\ i \in DOMAIN grants[k]
    BY <1>3, <1>old, <2>1 DEF LimiterInv
  <2>3. buckets[k].tokens \in Nat /\ buckets[k].lastCheck \in Nat
    BY <2>1, CapacityNat DEF LimiterInv, LimiterTypeOK
  <2>4. Used(k, i) = Units(n - i + 1) + buckets[k].tokens
    BY <1>old DEF Used
  <2>5. Budget(k, i) = Capacity + Gain(buckets[k].lastCheck - g[i])
    BY <1>old DEF Budget
  <2> QED BY <1>old, <2>1, <2>2, <2>3, <2>4, <2>5 DEF BucketInv, Bucket
<1>9. \A i \in 1..(n + 1) : Used(k, i)' = Units(n - i + 1) + t
  <2> SUFFICES ASSUME NEW i \in 1..(n + 1) PROVE Used(k, i)' = Units(n - i + 1) + t
    OBVIOUS
  <2>1. Used(k, i)' = Units((n + 1) - i + 1) + (t - Scale)
    BY <1>3 DEF Used
  <2>2. ((n + 1) - i + 1) = (n - i + 1) + 1 /\ n - i + 1 \in Int
    BY <1>2
  <2>3. Units((n - i + 1) + 1) = Units(n - i + 1) + Scale /\ Units(n - i + 1) \in Int
    BY <2>2, UnitsFacts, UnitsStep
  <2> QED BY <2>1, <2>2, <2>3, <1>1, CapacityNat
<1>10. Used(k, n + 1)' = t /\ Budget(k, n + 1)' = Capacity
  <2>1. (n - (n + 1) + 1) = 0 /\ clock - clock = 0
    BY <1>2
  <2>2. Units(0) = 0 /\ Gain(0) = 0
    BY UnitsFacts, GainFacts
  <2>3. Used(k, n + 1)' = Units(n - (n + 1) + 1) + t
    <3>1. n + 1 \in 1..(n + 1)
      BY <1>nat
    <3> QED BY <3>1, <1>9
  <2>4. Used(k, n + 1)' = t
    BY <2>1, <2>2, <2>3, <1>1
  <2>5. Budget(k, n + 1)' = Capacity + Gain(clock - clock)
    BY <1>3 DEF Budget
  <2> QED BY <2>1, <2>2, <2>4, <2>5, CapacityNat
<1>11. \A i \in 1..n : Budget(k, i)' = Capacity + Gain(clock - g[i])
  BY <1>3 DEF Budget
<1>12. \A i \in 1..(n + 1) : grants'[k][i] <= clock /\ Used(k, i)' <= Budget(k, i)'
  <2> SUFFICES ASSUME NEW i \in 1..(n + 1)
               PROVE  grants'[k][i] <= clock /\ Used(k, i)' <= Budget(k, i)'
    OBVIOUS
  <2>1. CASE i = n + 1
    <3>1. grants'[k][i] = clock /\ Used(k, i)' = t /\ Budget(k, i)' = Capacity
      BY <1>3, <1>10, <2>1
    <3>2. t <= Capacity /\ clock <= clock
      BY <1>1, <1>nat
    <3> QED BY <3>1, <3>2
  <2>2. CASE i \in 1..n
    <3>1. Units(n - i + 1) \in Int
      <4>1. n - i + 1 \in Int
        BY <1>2
      <4> QED BY <4>1, UnitsFacts
    <3>2. Units(n - i + 1) + t <= Capacity + Gain(clock - g[i])
      BY <1>1, <1>2, <1>3, <1>8, <2>2, <3>1, Carry
    <3>3. g[i] <= clock
      <4>1. g[i] \in Nat /\ buckets[k].lastCheck \in Nat
            /\ g[i] <= buckets[k].lastCheck /\ buckets[k].lastCheck <= clock
        BY <1>3, <1>8, <2>2
      <4> QED BY <1>nat, <4>1
    <3> QED BY <2>2, <3>2, <3>3, <1>3, <1>9, <1>11
  <2> QED BY <1>nat, <2>1, <2>2
<1>13. \E i \in 1..(n + 1) : Used(k, i)' = Budget(k, i)'
  <2>1. CASE t = Capacity
    <3>1. n + 1 \in 1..(n + 1)
      BY <1>nat
    <3> QED BY <2>1, <3>1, <1>10
  <2>2. CASE t # Capacity
    <3>1. k \in DOMAIN buckets /\ Bucket(k) = buckets[k]
      BY <1>1, <2>2 DEF Bucket
    <3>2. PICK i \in 1..n : Used(k, i) = Budget(k, i)
      BY <1>3, <1>old, <3>1 DEF LimiterInv, BucketInv
    <3>3. Units(n - i + 1) \in Int
      <4>1. n - i + 1 \in Int
        BY <1>2
      <4> QED BY <4>1, UnitsFacts
    <3>4. Units(n - i + 1) + buckets[k].tokens = Capacity + Gain(buckets[k].lastCheck - g[i])
      BY <1>old, <3>2 DEF Used, Budget
    <3>5. Units(n - i + 1) + t = Capacity + Gain(clock - g[i])
      <4>1. g[i] \in Nat /\ buckets[k].lastCheck \in Nat /\ buckets[k].tokens \in Nat
        BY <1>3, <1>8
      <4>2. t \in Nat /\ t = buckets[k].tokens + Gain(clock - buckets[k].lastCheck)
        BY <1>1, <2>2, <3>1
      <4> DEFINE u == Units(n - i + 1)
                 tok == buckets[k].tokens
                 before == Gain(buckets[k].lastCheck - g[i])
                 since == Gain(clock - buckets[k].lastCheck)
                 all == Gain(clock - g[i])
      <4>3. all = before + since /\ before \in Int /\ since \in Int
        BY <1>nat, <4>1, GainSplit
      <4>4. u \in Int /\ tok \in Nat /\ u + tok = Capacity + before /\ t = tok + since
        BY <3>3, <3>4, <4>1, <4>2
      <4>5. Capacity \in Nat
        BY CapacityNat
      <4> HIDE DEF u, tok, before, since, all
      <4>6. u + t = Capacity + all
        BY <4>3, <4>4, <4>5
      <4> QED BY <4>6 DEF u, all
    <3>6. i \in 1..(n + 1)
      BY <1>nat
    <3> QED BY <1>9, <1>11, <3>5, <3>6
  <2> QED BY <2>1, <2>2
<1>14. \A x \in DOMAIN buckets' : BucketInv(x)'
  <2> SUFFICES ASSUME NEW x \in DOMAIN buckets' PROVE BucketInv(x)'
    OBVIOUS
  <2>1. CASE x = k
    <3>1. buckets'[k].lastCheck <= clock'
      BY <1>3, <1>nat
    <3>2. \A i \in DOMAIN grants'[k] :
             grants'[k][i] <= buckets'[k].lastCheck /\ Used(k, i)' <= Budget(k, i)'
      BY <1>3, <1>12
    <3>3. \E i \in DOMAIN grants'[k] : Used(k, i)' = Budget(k, i)'
      BY <1>3, <1>13
    <3> QED BY <2>1, <3>1, <3>2, <3>3 DEF BucketInv
  <2>2. CASE x # k
    <3>1. x \in DOMAIN buckets /\ x \in Key /\ BucketInv(x)
      BY <1>2, <2>2 DEF LimiterInv, LimiterTypeOK
    <3> QED BY <1>2, <1>4, <1>5, <2>2, <3>1 DEF BucketInv, Used, Budget
  <2> QED BY <2>1, <2>2
<1>15. \A x \in Key \ DOMAIN buckets' : grants'[x] = << >>
  BY <1>2, <1>4 DEF LimiterInv
<1>16. WindowBound'
  <2> SUFFICES ASSUME NEW x \in Key, NEW j \in DOMAIN grants'[x], NEW i \in 1..j
               PROVE  Units(j - i + 1) <= Capacity + Gain(grants'[x][j] - grants'[x][i])
    BY DEF WindowBound
  <2>1. CASE x # k
    BY <1>4, <2>1 DEF LimiterInv, WindowBound
  <2>2. CASE x = k /\ j \in 1..n
    <3>1. i \in 1..n /\ j \in DOMAIN grants[k]
      BY <1>2, <1>3, <1>old, <2>2
    <3> QED BY <1>3, <1>old, <2>2, <3>1 DEF LimiterInv, WindowBound
  <2>3. CASE x = k /\ j = n + 1
    <3>1. i \in 1..(n + 1)
      BY <2>3
    <3>2. Used(k, i)' <= Budget(k, i)'
      BY <1>12, <3>1
    <3>3. Used(k, i)' = Units((n + 1) - i + 1) + (t - Scale)
      BY <1>3 DEF Used
    <3>4. Budget(k, i)' = Capacity + Gain(clock - grants'[k][i])
      BY <1>3 DEF Budget
    <3>5. Units((n + 1) - i + 1) \in Int
      <4>1. (n + 1) - i + 1 \in Int
        BY <1>2, <3>1
      <4> QED BY <4>1, UnitsFacts
    <3>6. grants'[k][i] \in Nat
      BY <1>2, <1>3, <3>1
    <3>7. Gain(clock - grants'[k][i]) \in Int
      <4>1. clock - grants'[k][i] \in Int
        BY <1>nat, <3>6
      <4> QED BY <4>1, GainFacts
    <3>8. t - Scale >= 0 /\ t - Scale \in Int /\ Capacity \in Int
      BY <1>1, CapacityNat
    <3>9. Units((n + 1) - i + 1) <= Capacity + Gain(clock - grants'[k][i])
      <4>1. Units((n + 1) - i + 1) + (t - Scale) <= Capacity + Gain(clock - grants'[k][i])
        BY <3>2, <3>3, <3>4
      <4>2. \A a, b, c, d \in Int : a + b <= c + d /\ b >= 0 => a <= c + d
        OBVIOUS
      <4> HIDE DEF t
      <4> QED BY <4>1, <4>2, <3>5, <3>7, <3>8
    <3>10. grants'[k][n + 1] = clock
      BY <1>3
    <3>11. Units(j - i + 1) <= Capacity + Gain(clock - grants'[k][i])
      BY <2>3, <3>9
    <3>12. grants'[x][j] = clock /\ grants'[x][i] = grants'[k][i]
      BY <2>3, <3>10
    <3> QED BY <3>11, <3>12
  <2>4. x = k => j \in 1..(n + 1)
    BY <1>3
  <2>5. n \in Nat
    BY <1>0
  <2>6. \A a \in 1..(n + 1) : a \in 1..n \/ a = n + 1
    BY <2>5
  <2> QED BY <2>1, <2>2, <2>3, <2>4, <2>6
<1> QED BY <1>6, <1>14, <1>15, <1>16 DEF LimiterInv

\* A refused request preserves the invariant: the refill was not capped.
LEMMA DenyPreserves ==
  ASSUME LimiterInv, NEW k \in Key, Deny(k)
  PROVE  LimiterInv'
<1> DEFINE t == Refill(Bucket(k))
           g == grants[k]
<1>0. PICK n \in Nat : n = Len(g)
  BY DEF LimiterInv, LimiterTypeOK
<1>1. k \in DOMAIN buckets /\ Bucket(k) = buckets[k]
  BY BucketFacts, CapacityNat DEF Deny, Bucket
<1>2. /\ buckets[k].tokens \in Nat /\ buckets[k].lastCheck \in Nat
      /\ buckets[k].lastCheck <= clock /\ clock \in Nat /\ clock' = clock /\ grants' = grants
  BY <1>1, CapacityNat DEF LimiterInv, LimiterTypeOK, BucketInv, Deny
<1>3. /\ t \in Nat /\ t \in 0..Capacity
      /\ t = buckets[k].tokens + Gain(clock - buckets[k].lastCheck)
  <2>1. t < Scale
    BY DEF Deny
  <2>2. t \in 0..Capacity /\ (t = Capacity \/ t = Bucket(k).tokens + Gain(clock - Bucket(k).lastCheck))
    BY <1>2, BucketFacts, RefillFacts
  <2> QED BY <1>1, <2>1, <2>2, CapacityNat
<1>4. /\ DOMAIN buckets' = DOMAIN buckets
      /\ buckets' = [x \in DOMAIN buckets |->
                       IF x = k THEN [tokens |-> t, lastCheck |-> clock] ELSE buckets[x]]
  <2>1. DOMAIN buckets \cup {k} = DOMAIN buckets
    BY <1>1
  <2> QED BY <2>1 DEF Deny, Save
<1>5. g \in Seq(Nat) /\ g = grants[k] /\ DOMAIN g = 1..n /\ Len(grants[k]) = n
  BY <1>0 DEF LimiterInv, LimiterTypeOK
<1> HIDE DEF t, g
<1>6. buckets'[k] = [tokens |-> t, lastCheck |-> clock]
      /\ buckets'[k].tokens = t /\ buckets'[k].lastCheck = clock
      /\ \A x \in DOMAIN buckets \ {k} : buckets'[x] = buckets[x]
  BY <1>1, <1>4
<1>7. LimiterTypeOK'
  BY <1>2, <1>3, <1>4, <1>6 DEF LimiterInv, LimiterTypeOK
<1>8. ASSUME NEW i \in 1..n
      PROVE  /\ g[i] \in Nat /\ g[i] <= clock
             /\ Used(k, i) <= Budget(k, i)
             /\ Used(k, i) = Units(n - i + 1) + buckets[k].tokens
             /\ Used(k, i)' = Units(n - i + 1) + t
             /\ Units(n - i + 1) \in Int
             /\ Budget(k, i) = Capacity + Gain(buckets[k].lastCheck - g[i])
             /\ Budget(k, i)' = Capacity + Gain(clock - g[i])
             /\ Gain(clock - g[i]) = Gain(buckets[k].lastCheck - g[i]) + Gain(clock - buckets[k].lastCheck)
             /\ Gain(buckets[k].lastCheck - g[i]) \in Int
             /\ Gain(clock - buckets[k].lastCheck) \in Int
  <2>1. g[i] \in Nat
    BY <1>5
  <2>2. BucketInv(k)
    BY <1>1 DEF LimiterInv
  <2>3. g[i] <= buckets[k].lastCheck /\ Used(k, i) <= Budget(k, i)
    BY <1>5, <2>2 DEF BucketInv
  <2>4. g[i] <= clock
    BY <1>2, <2>1, <2>3
  <2>5. /\ Used(k, i) = Units(n - i + 1) + buckets[k].tokens
        /\ Used(k, i)' = Units(n - i + 1) + t
    BY <1>2, <1>5, <1>6 DEF Used
  <2>6. /\ Budget(k, i) = Capacity + Gain(buckets[k].lastCheck - g[i])
        /\ Budget(k, i)' = Capacity + Gain(clock - g[i])
    BY <1>2, <1>5, <1>6 DEF Budget
  <2>7. n - i + 1 \in Int
    BY <1>0
  <2>8. Units(n - i + 1) \in Int
    BY <2>7, UnitsFacts
  <2> QED BY <1>2, <2>1, <2>3, <2>4, <2>5, <2>6, <2>8, GainSplit
<1>9. ASSUME NEW i \in 1..n
      PROVE  /\ Used(k, i)' <= Budget(k, i)'
             /\ Used(k, i) = Budget(k, i) => Used(k, i)' = Budget(k, i)'
  BY <1>2, <1>3, <1>8, CapacityNat
<1>10. BucketInv(k)'
  <2>1. buckets'[k].lastCheck <= clock'
    BY <1>2, <1>6
  <2>2. \A i \in DOMAIN grants'[k] :
           grants'[k][i] <= buckets'[k].lastCheck /\ Used(k, i)' <= Budget(k, i)'
    BY <1>2, <1>5, <1>6, <1>8, <1>9
  <2>3. PICK i \in 1..n : Used(k, i) = Budget(k, i)
    BY <1>1, <1>5 DEF LimiterInv, BucketInv
  <2>4. i \in DOMAIN grants'[k] /\ Used(k, i)' = Budget(k, i)'
    BY <1>2, <1>5, <1>9, <2>3
  <2> QED BY <2>1, <2>2, <2>4 DEF BucketInv
<1>11. \A x \in DOMAIN buckets' : BucketInv(x)'
  <2> SUFFICES ASSUME NEW x \in DOMAIN buckets, x # k PROVE BucketInv(x)'
    BY <1>4, <1>10
  <2>1. BucketInv(x) /\ buckets'[x] = buckets[x] /\ x \in Key
    BY <1>6 DEF LimiterInv, LimiterTypeOK
  <2> QED BY <1>2, <2>1 DEF BucketInv, Used, Budget
<1> QED BY <1>2, <1>4, <1>7, <1>11 DEF LimiterInv, WindowBound

\* The invariant holds in every reachable state.
THEOREM LimiterInvariant == LimiterSpec => []LimiterInv
<1>1. LimiterInit => LimiterInv
  BY DEF LimiterInit, LimiterInv, LimiterTypeOK, WindowBound
<1>2. LimiterInv /\ [LimiterNext]_limiterVars => LimiterInv'
  <2> SUFFICES ASSUME LimiterInv, [LimiterNext]_limiterVars PROVE LimiterInv'
    OBVIOUS
  <2>1. CASE Tick
    <3>1. clock' = clock + 1 /\ buckets' = buckets /\ grants' = grants /\ clock \in Nat
      BY <2>1 DEF Tick, LimiterInv, LimiterTypeOK
    <3>2. LimiterTypeOK'
      BY <3>1 DEF LimiterInv, LimiterTypeOK
    <3>3. \A k \in DOMAIN buckets : BucketInv(k)'
      <4> SUFFICES ASSUME NEW k \in DOMAIN buckets PROVE BucketInv(k)'
        OBVIOUS
      <4>1. BucketInv(k) /\ buckets[k].lastCheck \in Nat
        BY DEF LimiterInv, LimiterTypeOK
      <4>2. buckets[k].lastCheck <= clock + 1
        BY <3>1, <4>1 DEF BucketInv
      <4> QED BY <3>1, <4>1, <4>2 DEF BucketInv, Used, Budget
    <3> QED BY <3>1, <3>2, <3>3 DEF LimiterInv, WindowBound
  <2>2. ASSUME NEW k \in Key, Allow(k) PROVE LimiterInv'
    BY <2>2, AllowPreserves
  <2>3. ASSUME NEW k \in Key, Deny(k) PROVE LimiterInv'
    BY <2>3, DenyPreserves
  <2>4. CASE UNCHANGED limiterVars
    BY <2>4 DEF limiterVars, LimiterInv, LimiterTypeOK, BucketInv, Used, Budget, WindowBound
  <2> QED BY <2>1, <2>2, <2>3, <2>4 DEF LimiterNext
<1> QED BY <1>1, <1>2, PTL DEF LimiterSpec

\* Every bucket is well typed and within its capacity.
THEOREM LimiterTypeCorrect == LimiterSpec => []LimiterTypeOK
BY LimiterInvariant, PTL DEF LimiterInv

\* For every rate and burst: no interval sees more grants than the burst and
\* the rate times its length.
THEOREM WindowBounded == LimiterSpec => []WindowBound
BY LimiterInvariant, PTL DEF LimiterInv

\* For every rate and burst: a refused client has used its allowance.
THEOREM DeniedOnlyOver == LimiterSpec => []DeniedOnlyOverBudget
<1>1. LimiterInv => DeniedOnlyOverBudget
  <2> SUFFICES ASSUME LimiterInv, NEW k \in Key, Refill(Bucket(k)) < Scale
               PROVE  \E i \in DOMAIN grants[k] :
                        Units(Len(grants[k]) - i + 2) > Capacity + Gain(clock - grants[k][i])
    BY DEF DeniedOnlyOverBudget
  <2> DEFINE t == Refill(Bucket(k))
             n == Len(grants[k])
             b == buckets[k]
  <2>1. k \in DOMAIN buckets /\ Bucket(k) = b
    BY BucketFacts, CapacityNat DEF Bucket
  <2>2. b.tokens \in Nat /\ b.lastCheck \in Nat /\ b.lastCheck <= clock /\ clock \in Nat
    BY <2>1, CapacityNat DEF LimiterInv, LimiterTypeOK, BucketInv
  <2>3. t \in Nat /\ t = b.tokens + Gain(clock - b.lastCheck)
    <3>1. t \in 0..Capacity /\ (t = Capacity \/ t = Bucket(k).tokens + Gain(clock - Bucket(k).lastCheck))
      BY <2>2, BucketFacts, RefillFacts
    <3> QED BY <2>1, <3>1, CapacityNat
  <2>4. PICK i \in DOMAIN grants[k] : Used(k, i) = Budget(k, i)
    BY <2>1 DEF LimiterInv, BucketInv
  <2>5. i \in Nat /\ n \in Nat /\ grants[k][i] \in Nat
    BY DEF LimiterInv, LimiterTypeOK
  <2>6. Units(n - i + 1) + b.tokens = Capacity + Gain(b.lastCheck - grants[k][i])
    BY <2>4 DEF Used, Budget
  <2>7. /\ Gain(clock - grants[k][i]) = Gain(b.lastCheck - grants[k][i]) + Gain(clock - b.lastCheck)
        /\ Gain(b.lastCheck - grants[k][i]) \in Int
        /\ Gain(clock - b.lastCheck) \in Int
    BY <2>2, <2>5, GainSplit
  <2>8. Units(n - i + 2) = Units(n - i + 1) + Scale /\ Units(n - i + 1) \in Int
    <3>1. n - i + 2 = (n - i + 1) + 1 /\ n - i + 1 \in Int
      BY <2>5
    <3> QED BY <3>1, UnitsStep, UnitsFacts
  <2>9. t < Scale
    OBVIOUS
  <2> HIDE DEF t, n, b
  <2>10. Units(n - i + 2) > Capacity + Gain(clock - grants[k][i])
    BY <2>2, <2>3, <2>6, <2>7, <2>8, <2>9, CapacityNat
  <2> QED BY <2>10 DEF n
<1> QED BY <1>1, LimiterInvariant, PTL
=============================================================================
