SPECIFICATION FairSpec
CONSTANTS
    Producers = {p1, p2}
    Waiters = {p1}
    Consumers = {c}
    Controllers = {g}
    Values = {v1, v2}
    Nothing = Nothing
    ProducerLimits = {0, 1}
    ConsumerLimits = {0, 1}
    Capacity = 3
INVARIANTS
    SleeperIsNotified
    HeldIsOldest
PROPERTY KeepsPromise
