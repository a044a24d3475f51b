SPECIFICATION Spec
CONSTANTS
    Results <- MCResults
    Workspaces = {"A", "B"}
    Owner <- MCOwner
    Bytes <- MCBytes
    Keys <- MCKeys
    Blob <- MCBlob
    NextWindow <- MCNextWindow
    None = 0
    Slots = {s1, s2}
    Cubes = {5}
    Kept = {2, 5}
    Wanted = {1, 2, 4}
    Cap = 4
    PinCeiling = 2
    GuessBytes = 2
    Budget = 1
    MaxRequests = 2
    MaxUpsets = 1
    MaxPins = 2
    Settled = {1, 2, 3, 4}
SYMMETRY SlotSymmetry
INVARIANT TypeOK
INVARIANT PinHolds
INVARIANT PinsBounded
 
INVARIANT QuotaKept
PROPERTY GuessesGoFirst
PROPERTY FairEviction
PROPERTY SweepFits
CHECK_DEADLOCK FALSE
