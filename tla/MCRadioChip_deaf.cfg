\* A hang, and a reset that fails.
SPECIFICATION FairSpec
CONSTANTS
    Threshold = 3
    MaxFaults = 2
PROPERTIES
    KeepsListening
