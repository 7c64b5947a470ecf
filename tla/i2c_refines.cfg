SPECIFICATION QuietSpec
CONSTANTS
    Users = {u1}
    Pm = Pm
    Worker = Worker
    NoOne = NoOne
    NumChips = 2
    NumPages = 1
    Values = {v0, v1}
    Blank = v0
    Nothing = Nothing
    Failed = Failed
    MaxBulk = 2
INVARIANTS
    TransferReady
    RightPage
PROPERTIES
    Refines
CHECK_DEADLOCK FALSE
