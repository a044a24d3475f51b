SPECIFICATION Spec
CONSTANTS
    Jobs = {j1}
    Slots = {s1, s2}
    NoJob = NoJob
    Requests <- OneHarmony
    MaxSubmits = 2
    MaxFaults = 1
    MaxDelays = 0
INVARIANT SubmittedByOne
CHECK_DEADLOCK FALSE
