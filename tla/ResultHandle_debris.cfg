SPECIFICATION Spec
CONSTANTS
    Calls = {c1}
    Kinds = {"retrieve"}
    Sweeps = {w1}
    MaxJobs = 1
    MaxFaults = 0
    MaxClashes = 0
    MaxEvictions = 0
INVARIANT ReadyResolves
CHECK_DEADLOCK FALSE
