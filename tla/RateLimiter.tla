----------------------------- MODULE RateLimiter -----------------------------
(***************************************************************************)
(* packages/model-router/src/rate-limiter.ts: the bucket of one provider   *)
(* (buckets share nothing).  The unit of time is the interval in which the *)
(* bucket gains a token.                                                   *)
(*                                                                         *)
(* The code refills lazily, from the time since the last refill, before    *)
(* every look at the tokens; refilling at every tick gives the same        *)
(* numbers, since the cap is the same.                                     *)
(***************************************************************************)
EXTENDS Integers, FiniteSets, FiniteSetsExt

CONSTANTS
    Waiter,         \* callers of acquire
    TokensPerMinute \* capacity of a bucket

ASSUME RateLimiterAssumption ==
    /\ IsFiniteSet(Waiter)
    /\ TokensPerMinute \in Nat \ {0}

VARIABLES
    tokens,         \* of the bucket in use
    sleeping,       \* per caller, ticks its sleep still lasts; -1: not asleep
    replaced        \* callers asleep for a token of a bucket no longer in use

limiterVars == <<tokens, sleeping, replaced>>

Awake == -1

\* With n callers the tokens never fall below 1 - n, see DebtIsBounded.
Lowest == 1 - Cardinality(Waiter)

LimiterTypeOK ==
    /\ tokens \in -(2 * Cardinality(Waiter)) .. TokensPerMinute
    /\ sleeping \in [Waiter -> Awake .. 2 * Cardinality(Waiter) + 1]
    /\ replaced \subseteq {w \in Waiter : sleeping[w] # Awake}

LimiterInit ==
    /\ tokens = TokensPerMinute
    /\ sleeping = [w \in Waiter |-> Awake]
    /\ replaced = {}

Configure ==
    /\ tokens' = TokensPerMinute
    /\ replaced' = {w \in Waiter : sleeping[w] # Awake}
    /\ UNCHANGED sleeping

\* A defect: the wait for one token, whatever the bucket owes.
TicksToOneToken(owned) == 1

TicksToToken(owned) == 1 - owned

Acquire(w) ==
    /\ sleeping[w] = Awake
    /\ IF tokens >= 1
         THEN tokens' = tokens - 1 /\ UNCHANGED sleeping
         ELSE /\ sleeping' = [sleeping EXCEPT ![w] = TicksToToken(tokens)]
              /\ UNCHANGED tokens
    /\ UNCHANGED replaced

\* The sleeper takes its token without looking whether there is one, from the
\* bucket it asked.
Wake(w) ==
    /\ sleeping[w] = 0
    /\ sleeping' = [sleeping EXCEPT ![w] = Awake]
    /\ tokens' = IF w \in replaced THEN tokens ELSE tokens - 1
    /\ replaced' = replaced \ {w}

\* A timer may fire late, never early.
Refill ==
    /\ tokens' = Min({TokensPerMinute, tokens + 1})
    /\ sleeping' = [w \in Waiter |-> IF sleeping[w] > 0 THEN sleeping[w] - 1 ELSE sleeping[w]]
    /\ UNCHANGED replaced

LimiterNext ==
    \/ Configure
    \/ \E w \in Waiter : Acquire(w) \/ Wake(w)
    \/ Refill

LimiterSpec == LimiterInit /\ [][LimiterNext]_limiterVars

(***************************************************************************)
(* Sleepers that wake together overdraw the bucket (acquire), but by less  *)
(* than one token per caller, since the wait of the next ones counts what  *)
(* is owed.                                                                *)
(***************************************************************************)
DebtIsBounded == tokens >= Lowest
=============================================================================
