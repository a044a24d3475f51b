SPECIFICATION Spec
CONSTANTS
    Calls = {c1, c2, c3}
    Kinds = {"retrieve"}
    Sweeps = {w1}
    MaxJobs = 3
    MaxFaults = 0
    MaxClashes = 0
    MaxEvictions = 0
INVARIANT OneLiveJob
CHECK_DEADLOCK FALSE
