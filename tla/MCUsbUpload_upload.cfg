\* A nine-byte buffer, two uploads out of fourteen, a window of three seconds.
SPECIFICATION UsbFairSpec
CONSTANTS
    None = None
    Long = Long
    MaxProducers = 2
    MaxTokens = 1
    MinInterval = 1
    DefaultInterval = 2
    MaxInterval = 3
    DefaultJitter = 0
    MaxJitter = 1
    MaxPathMode = 2
    DisplayValues = {"soc"}
    HttpServer = TRUE
    UsbSerial = TRUE
    Documents <- MCDocuments
    Content <- MCContent
    Texts <- MCTexts
    Cap = 9
    LineCap = 2
    IdleTimeout = 2
    WindowLength = 3
    ReadyEvery = 1
    MaxUploads = 2
    MaxBoots = 1
CHECK_DEADLOCK FALSE
INVARIANTS
    FramingAgreesWithParser
    StoredRuns
PROPERTIES
    UploadsAnswered
    ReadyComesBack
