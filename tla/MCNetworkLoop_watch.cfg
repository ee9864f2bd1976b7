SPECIFICATION NetSpec
CONSTANTS
    APs = {ap1}
    Addrs = {addr1}
    Backoff <- MCAtOnce
    Deep = 1
    DeepPause = 1
    DhcpAttempts = 1
    N = 1
    Stall = 1
    Clients = {1}
    Cooldown = 2
    PoolStalled = 1
    IdleRecovery = 1
    ErrorWindow = 1
    ErrorThreshold = 2
    AirFaults = FALSE
PROPERTIES
    RecoveriesSpaced
    ErrorsJustifyRecovery
