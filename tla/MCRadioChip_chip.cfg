\* Five faults: a reset after three and one that fails, or a hang and resets that fail at four commands.
SPECIFICATION FairSpec
CONSTANTS
    Threshold = 3
    MaxFaults = 5
INVARIANTS
    SentIsOurs
    SuccessListens
PROPERTIES
    DeafnessEnds
