SPECIFICATION GaugeFairSpec
CONSTANTS
    APs = {ap1, ap2}
    Addrs = {addr1, addr2}
    Backoff <- MCBackoff
    Deep = 6
    DeepPause = 2
    DhcpAttempts = 2
    N = 1
    Stall = 1
    Clients = {}
    Cooldown = 2
    PoolStalled = 1
    IdleRecovery = 1
    ErrorWindow = 1
    ErrorThreshold = 2
    AirFaults = TRUE
INVARIANTS
    ServedOnLease
    GaugesTruthful
PROPERTIES
    ConnectPaced
    LinkComesBack
    ServingComesBack
