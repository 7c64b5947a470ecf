SPECIFICATION FairSpec
CONSTANTS
    Users = {u1}
    Pm = Pm
    Worker = Worker
    NoOne = NoOne
    NumChips = 1
    NumPages = 1
    Values = {v0}
    Blank = v0
    Nothing = Nothing
    Failed = Failed
    MaxBulk = 2
INVARIANTS
    TypeOK
    ClockHasStopper
    RemovedIsQuiet
PROPERTIES
    CallReturns
    ClockRests
