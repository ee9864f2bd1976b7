CONSTANTS
    gate = gate
    sensor = sensor
    relay = relay
    alien = alien
    mute = mute
    None = None
    Unset = Unset
    Gateway = gate
    Route <- MCRoute
    PublicText <- MCPublicText
    PrivateText <- MCPrivateText
    MaxChannels = 2
    SelfChannel = 1
    Producers <- MCProducers
    KeyPrefix <- MCKeyPrefix
    AdvertName <- MCAdvertName
    AdvertBytes <- MCAdvertBytes
    Answers <- MCAnswers
    WireForms <- MCWireForms
    RxCap = 2
    MaxTime = 2
    MaxFrames = 2
    MaxAnswers = 2
SPECIFICATION StoreSpec
INVARIANTS TableMatchesHeard ViewIsCurrent SeriesOnce
PROPERTY HeardNeverGoesBack
CHECK_DEADLOCK FALSE
