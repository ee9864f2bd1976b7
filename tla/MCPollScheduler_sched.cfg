\* Two producers, one retry, counters that saturate at 2.
SPECIFICATION FairSpec
CONSTANTS
    N = 2
    Interval <- MCShortInterval
    DefaultInterval = 2
    Jitter = 1
    Second = 1
    RetryCount = 1
    PollTimes = {0, 3}
    Unsupported = Unsupported
    Reasons = {Unsupported, Timeout}
    NoReason = NoReason
    MaxCount = 2
    MaxPending = 1
INVARIANTS
    RetryOwed
    RequestsConserved
    TotalsAgree
PROPERTIES
    RequestsForceEveryEntry
    KeepsDuty
    EveryProducerPolled
    RequestsConsumed
