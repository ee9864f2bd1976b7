\* Three faults: a hang and resets that fail, or errors up to the threshold; queues of one, two frames each way.
SPECIFICATION RadioFairSpec
CONSTANTS
    TxCap = 1
    RxCap = 1
    Threshold = 3
    Factor = 2
    RxDelay = 1
    Airtimes = {1, 2}
    MaxTx = 2
    MaxRx = 2
    MaxFaults = 3
INVARIANTS
    HeardOnceInOrder
PROPERTIES
    SpacedAfterSent
    HangIsReset
    QueueDrains
