SPECIFICATION PoolFairSpec
CONSTANTS
    N = 2
    Stall = 2
    Clients = {1, 2}
INVARIANTS
    OneResponse
PROPERTIES
    SocketsListenAgain
    PoolGoesIdle
