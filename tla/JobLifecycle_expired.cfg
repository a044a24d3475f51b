SPECIFICATION FairSpec
CONSTANTS
    Jobs = {j1}
    Slots = {s1}
    NoJob = NoJob
    Requests <- OneSample
    MaxSubmits = 1
    MaxFaults = 0
    MaxDelays = 0
PROPERTY ExpiryIsTerminal
CHECK_DEADLOCK FALSE
