-------------------------- MODULE OperationLimiter --------------------------
(***************************************************************************)
(* OperationLimiter: how many operations are in progress for each key, and  *)
(* in total.  start() and finish() each run under mMutex.                   *)
(***************************************************************************)
EXTENDS Integers

CONSTANTS
    KeyType,
    mLimitPerKey,          \* MAX_QUERIES_PER_UID
    MAX_QUERIES_IN_TOTAL

ASSUME LimitAssumption ==
    mLimitPerKey \in Nat /\ MAX_QUERIES_IN_TOTAL \in Nat /\ mLimitPerKey <= MAX_QUERIES_IN_TOTAL

VARIABLES
    mCounters,             \* a key that has no entry counts 0
    mGlobalCounter

LimiterTypeOK ==
    /\ mCounters \in [KeyType -> 0..mLimitPerKey]
    /\ mGlobalCounter \in Nat

LimiterInit ==
    /\ mCounters = [key \in KeyType |-> 0]
    /\ mGlobalCounter = 0

\* A global limit below the limit per key is "misconfiguration".
Effective(globalLimit) ==
    IF globalLimit < mLimitPerKey THEN MAX_QUERIES_IN_TOTAL ELSE globalLimit

Allowed(key, globalLimit) ==
    /\ mGlobalCounter < Effective(globalLimit)
    /\ mCounters[key] < mLimitPerKey

\* start() returns true.
start(key, globalLimit) ==
    /\ Allowed(key, globalLimit)
    /\ mCounters' = [mCounters EXCEPT ![key] = @ + 1]
    /\ mGlobalCounter' = mGlobalCounter + 1

\* start() returns false.
refuse(key, globalLimit) ==
    /\ ~Allowed(key, globalLimit)
    /\ UNCHANGED <<mCounters, mGlobalCounter>>

\* Neither a negative total nor a missing counter aborts: the former leaves the
\* key's counter alone.
finish(key) ==
    /\ mGlobalCounter' = mGlobalCounter - 1
    /\ mCounters' = IF mGlobalCounter' < 0 \/ mCounters[key] = 0 THEN mCounters
                    ELSE [mCounters EXCEPT ![key] = @ - 1]
============================================================================
