SPECIFICATION FairSpec
CONSTANTS
    Tasks = {1}
    Intervals <- MCIntervals
    Cap = 2
    Handlers = {u1, u2}
    MaxFaults = 2
INVARIANTS
    TypeOK
PROPERTIES
    NotEarly
    RunsAgain
CHECK_DEADLOCK FALSE
