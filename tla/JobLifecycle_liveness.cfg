SPECIFICATION FairSpec
CONSTANTS
    Jobs = {j1}
    Slots = {s1, s2}
    NoJob = NoJob
    Requests <- NoSample
    MaxSubmits = 1
    MaxFaults = 1
    MaxDelays = 0
PROPERTY Settles
PROPERTY WorkDrains
CHECK_DEADLOCK FALSE
