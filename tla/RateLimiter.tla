---------------------------- MODULE RateLimiter ----------------------------
(***************************************************************************)
(* The token bucket in front of the API (internal/api/middleware.go):      *)
(* one bucket per client address, refilled lazily by Allow.  Allow holds   *)
(* the limiter's mutex from start to end, so a request is one step.        *)
(*                                                                         *)
(* Time advances in ticks of 1/Scale second and one token is Scale units,  *)
(* so elapsed * rate is the integer Rate * ticks: what the code does in    *)
(* float64 is exact here.                                                  *)
(***************************************************************************)
EXTENDS Integers, Sequences

CONSTANTS
  Key,     \* client addresses
  Rate,    \* tokens per second
  Burst,   \* capacity in tokens
  Scale,   \* ticks per second, and units per token
  LastTick \* bound: last tick

ASSUME RateAssumption ==
  /\ Rate \in Nat
  /\ Burst \in Nat \ {0}
  /\ Scale \in Nat \ {0}
  /\ LastTick \in Nat

VARIABLES
  clock,    \* the clock, in ticks
  buckets,  \* key -> [tokens, lastCheck]; a key is in its domain once it called
  grants    \* history: key -> the times of its granted requests

limiterVars == <<clock, buckets, grants>>

Units(n) == n * Scale         \* n tokens
Gain(ticks) == Rate * ticks   \* what a bucket gains in some ticks
Capacity == Units(Burst)

\* Seeded fault: the refill is not capped.
FaultRefill(b) == b.tokens + Gain(clock - b.lastCheck)

\* Seeded fault: the refill counts from the start of the clock, as if lastCheck
\* were not written back.
FaultRefillFromZero(b) ==
  LET t == b.tokens + Gain(clock)
  IN  IF t > Capacity THEN Capacity ELSE t

\* Seeded fault: whole seconds only, the fraction since the last call is lost.
FaultRefillTruncates(b) ==
  LET t == b.tokens + Gain(Units((clock - b.lastCheck) \div Scale))
  IN  IF t > Capacity THEN Capacity ELSE t

Refill(b) ==
  LET t == b.tokens + Gain(clock - b.lastCheck)
  IN  IF t > Capacity THEN Capacity ELSE t

\* A new bucket is full; its zero lastCheck makes the first refill enormous, and
\* the cap brings it back to the capacity.
Bucket(k) ==
  IF k \in DOMAIN buckets THEN buckets[k] ELSE [tokens |-> Capacity, lastCheck |-> clock]

Save(k, b) ==
  buckets' = [x \in DOMAIN buckets \cup {k} |-> IF x = k THEN b ELSE buckets[x]]

-----------------------------------------------------------------------------
LimiterInit ==
  /\ clock = 0
  /\ buckets = << >>
  /\ grants = [k \in Key |-> << >>]

Tick ==
  /\ clock < LastTick
  /\ clock' = clock + 1
  /\ UNCHANGED <<buckets, grants>>

\* Allow returns true.
Allow(k) ==
  LET t == Refill(Bucket(k)) IN
  /\ t >= Scale
  /\ Save(k, [tokens |-> t - Scale, lastCheck |-> clock])
  /\ grants' = [grants EXCEPT ![k] = Append(@, clock)]
  /\ UNCHANGED clock

\* Allow returns false: the request is answered 429, the refill is kept.
Deny(k) ==
  LET t == Refill(Bucket(k)) IN
  /\ t < Scale
  /\ Save(k, [tokens |-> t, lastCheck |-> clock])
  /\ UNCHANGED <<clock, grants>>

LimiterNext == Tick \/ \E k \in Key : Allow(k) \/ Deny(k)

LimiterSpec == LimiterInit /\ [][LimiterNext]_limiterVars

-----------------------------------------------------------------------------
\* Every variable holds a value of its type, and a bucket never holds less than
\* nothing or more than its capacity.
LimiterTypeOK ==
  /\ clock \in Nat
  /\ DOMAIN buckets \subseteq Key
  /\ buckets \in [DOMAIN buckets -> [tokens : 0..Capacity, lastCheck : Nat]]
  /\ grants \in [Key -> Seq(Nat)]

\* In every interval, whatever the arrival pattern, a client is granted at most
\* Burst requests and Rate more per second of the interval.
WindowBound ==
  \A k \in Key : \A j \in DOMAIN grants[k] : \A i \in 1..j :
    Units(j - i + 1) <= Capacity + Gain(grants[k][j] - grants[k][i])

\* A client is refused only when it has really used its allowance: since one of
\* its granted requests it was granted all but less than one token of what the
\* bucket had then and gained since.  Refused requests cost nothing, and
\* fractions of a token are not lost however often the client calls.
DeniedOnlyOverBudget ==
  \A k \in Key :
    Refill(Bucket(k)) < Scale =>
      \E i \in DOMAIN grants[k] :
        Units(Len(grants[k]) - i + 2) > Capacity + Gain(clock - grants[k][i])
=============================================================================
