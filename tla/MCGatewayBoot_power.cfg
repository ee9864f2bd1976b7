\* Two supported documents and one this board cannot serve, four sequence numbers, tags 2 .. 9 in reservations of two.
SPECIFICATION BootSpec
CONSTANTS
    Docs = {D1, D2, D3}
    NoDoc = NoDoc
    Blank = Blank
    NoCall = NoCall
    Half = 2
    TagMax = 9
    Callers = {"provision", "update", "reserve"}
    Unsupported = {D3}
    TagBase = 2
    Reserve = 2
    MaxUse = 2
INVARIANTS
    SectorsOneApart
    AckedSurvives
    NeverRollsBack
    SeedCoversTags
PROPERTIES
    TagsFresh
