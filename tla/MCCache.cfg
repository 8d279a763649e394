\* Two goroutines that race on one key with two answers, under the fairness of
\* the runtime: a Get whose expired entry is replaced while it waits, and then
\* looked up again.
SPECIFICATION FairSpec
CONSTANTS
    Callers = {c1, c2}
    Keys = {k1}
    Values = {v1, v2}
    TTL = 1
    MaxTime = 3
    None = None
INVARIANTS
    TypeOK
    MapAccessExclusive
    HitWithinTTL
    NoDeadlock
PROPERTIES
    ExpiryMonotone
    FreshLostOnlyToStaleGet
    ImplementsFairAtomicCache
