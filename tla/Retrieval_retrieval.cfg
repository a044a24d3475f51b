SPECIFICATION Spec
CONSTANTS
    None = None
    Cases <- MCCases
    Service = "server"
    Urls <- MCUrls
    FileName <- MCFileName
    MaxGranules = 3
    Concurrency = 2
    Attempts = 2
    Burst = 1
    MaxPolls = 1
INVARIANT TypeOK
INVARIANT PinnedServiceSuffices
INVARIANT TraceExplains
INVARIANT NeverGuesses
INVARIANT ProjectsReal
INVARIANT BracketPerDimension
INVARIANT SlabsCover
INVARIANT RunsAsCaller
INVARIANT RecordTrue
INVARIANT SignatureDecides
PROPERTY Delivers
PROPERTY Answered
CHECK_DEADLOCK FALSE
