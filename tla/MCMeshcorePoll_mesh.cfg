CONSTANTS
    rep = rep
    comp = comp
    badkey = badkey
    alien = alien
    Producers = {rep, comp, badkey}
    Repeaters = {rep}
    Strangers = {alien}
    Gateway = Gateway
    Route <- MCRoute
    PublicText <- MCPublicText
    PrivateText <- MCPrivateText
    None = None
    PathReturners = {rep}
    Nobody = Nobody
    QUEUE_STARTUP_ADVERT = FALSE
    LoginSteps = 2
    AnswerSteps = 2
    RxCap = 2
    TxCap = 1
    MaxPolls = 2
    MaxExtras = 1
SPECIFICATION MeshFairSpec
INVARIANTS ObservationsKept
PROPERTIES KeepsExchange
