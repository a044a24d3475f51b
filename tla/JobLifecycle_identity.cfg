SPECIFICATION Spec
CONSTANTS
    Jobs = {j1}
    Slots = {s1}
    NoJob = NoJob
    Requests <- OneHarmony
    MaxSubmits = 2
    MaxFaults = 0
    MaxDelays = 0
INVARIANT IdentityKept
CHECK_DEADLOCK FALSE
