SPECIFICATION Spec
CONSTANTS
    Jobs = {j1}
    Slots = {s1, s2}
    NoJob = NoJob
    Requests <- EveryRequest
    MaxSubmits = 2
    MaxFaults = 0
    MaxDelays = 1
SYMMETRY SlotSymmetry
INVARIANT TypeOK
INVARIANT CredentialErased
INVARIANT NeverUnwatched
INVARIANT DeliveredWhenReady
INVARIANT ProducedWhenReady
CHECK_DEADLOCK FALSE
