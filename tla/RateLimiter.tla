---------------------------- MODULE RateLimiter ----------------------------
(***************************************************************************)
(* The rate limiter of the gateway (gateway/ratelimit.py).  It has no      *)
(* timer: a bucket is a pair (tokens, last seen) and is refilled only when *)
(* its agent calls, by the time that passed since it was last seen.        *)
(*                                                                         *)
(* Time is counted in ticks and tokens in parts of 1/Unit, so that the     *)
(* fractions a refill leaves behind are kept; the rounding of Python's     *)
(* floats is not modelled.                                                 *)
(***************************************************************************)
EXTENDS Integers, Sequences

CONSTANTS
    Agents,    \* authenticated agents
    Capacity,  \* GATEWAY_RATE_LIMIT
    Unit,      \* the parts a token is counted in
    Refill,    \* GATEWAY_RATE_REFILL, in parts per tick
    MaxTime    \* bound on the clock

ASSUME RateAssumption ==
    /\ Capacity \in Nat /\ Unit \in Nat \ {0} /\ Refill \in Nat
    /\ MaxTime \in Nat

VARIABLES
    now,      \* the monotonic clock
    buckets,  \* _buckets: agent -> (tokens, last), for the agents seen so far
    answer,   \* answer[a]: what allow told a's last call
    grants    \* history: the times of a's granted calls

limiterVars == <<now, buckets, answer, grants>>

Full == Capacity * Unit

LimiterTypes ==
    /\ now \in 0 .. MaxTime
    /\ DOMAIN buckets \subseteq Agents
    /\ \A a \in DOMAIN buckets :
          buckets[a] \in [tokens : 0 .. Full, last : 0 .. now]
    /\ answer \in [Agents -> {"none", "granted", "refused"}]
    /\ grants \in [Agents -> Seq(0 .. MaxTime)]

\* RateLimiter.__init__: no agent seen.
LimiterInit ==
    /\ now = 0 /\ buckets = <<>>
    /\ answer = [a \in Agents |-> "none"]
    /\ grants = [a \in Agents |-> <<>>]

AtMost(n, max) == IF n > max THEN max ELSE n

\* self._buckets.get(agent, (self.capacity, now)), the bucket of a new agent
\* being full.
Bucket(a) ==
    IF a \in DOMAIN buckets THEN buckets[a] ELSE [tokens |-> Full, last |-> now]

\* The tokens the bucket holds by now: never more than the capacity.
Refilled(a) == AtMost(Bucket(a).tokens + (now - Bucket(a).last) * Refill, Full)

\* Mutant: the time of the refill is not stored.
StoreOldTime(a, n) ==
    buckets' = [b \in DOMAIN buckets \cup {a} |->
                  IF b = a THEN [tokens |-> n, last |-> Bucket(a).last]
                           ELSE buckets[b]]

\* self._buckets[agent] = (n, now).
Store(a, n) ==
    buckets' = [b \in DOMAIN buckets \cup {a} |->
                  IF b = a THEN [tokens |-> n, last |-> now] ELSE buckets[b]]

\* allow: a whole token is there and is taken.
Grant(a) ==
    /\ Refilled(a) >= Unit
    /\ Store(a, Refilled(a) - Unit)
    /\ answer' = [answer EXCEPT ![a] = "granted"]
    /\ grants' = [grants EXCEPT ![a] = Append(@, now)]
    /\ UNCHANGED now

\* Mutants: the fraction of a token is lost; a whole token is refused.
TurnAwayLosesFraction(a) ==
    /\ Refilled(a) < Unit
    /\ Store(a, 0)
    /\ answer' = [answer EXCEPT ![a] = "refused"]
    /\ UNCHANGED <<now, grants>>

TurnAwayWholeToken(a) ==
    /\ Refilled(a) <= Unit
    /\ Store(a, Refilled(a))
    /\ answer' = [answer EXCEPT ![a] = "refused"]
    /\ UNCHANGED <<now, grants>>

\* allow: less than a token.  The refill so far is stored with its time.
TurnAway(a) ==
    /\ Refilled(a) < Unit
    /\ Store(a, Refilled(a))
    /\ answer' = [answer EXCEPT ![a] = "refused"]
    /\ UNCHANGED <<now, grants>>

ClockTick == now < MaxTime /\ now' = now + 1 /\ UNCHANGED <<buckets, answer, grants>>

LimiterNext == ClockTick \/ \E a \in Agents : Grant(a) \/ TurnAway(a)

LimiterSpec == LimiterInit /\ [][LimiterNext]_limiterVars

-----------------------------------------------------------------------------
\* Properties.

\* The limit holds over every window of time, not just on average: between the
\* i-th grant and the latest one, an agent got no more than a full bucket plus
\* what was refilled in between.
WindowBound ==
    \A a \in Agents : \A i \in 1 .. Len(grants[a]) :
        LET w == now - grants[a][i]
        IN  (Len(grants[a]) - i + 1) * Unit <= Full + w * Refill

\* An agent that waits long enough after a grant for one token to be refilled
\* is served, however often it was refused meanwhile: retries cost nothing.
PatienceServed ==
    [][\A a \in Agents : TurnAway(a) =>
          \/ Capacity = 0
          \/ /\ grants[a] # <<>>
             /\ (now - grants[a][Len(grants[a])]) * Refill < Unit]_limiterVars

\* The lazy arithmetic is a token bucket that drips all the time, seen only
\* when its agent calls.
Dripping == INSTANCE TokenBucket WITH level <- [a \in Agents |-> Refilled(a)]

IsTokenBucket == Dripping!Spec

=============================================================================
