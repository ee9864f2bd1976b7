\* A boot that takes one tag more than its reservation holds.
SPECIFICATION BootSpec
CONSTANTS
    Docs = {D1, D2, D3}
    NoDoc = NoDoc
    Blank = Blank
    NoCall = NoCall
    Half = 2
    TagMax = 9
    Callers = {"provision", "update", "reserve"}
    Unsupported = {D3}
    TagBase = 2
    Reserve = 2
    MaxUse = 3
PROPERTIES
    TagsFresh
