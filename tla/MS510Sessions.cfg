SPECIFICATION FairSpec
CONSTANTS
    exporter = exporter
    provider = provider
    operator = operator
    Reusers <- Exporter
    PerCall <- Provider
    Uploaders <- Operator
    Slots = 3
    Expired404 = FALSE
    MaxMishaps = 1
    MaxUploads = 1
INVARIANTS
    TypeOK
    PerCallLeavesNothing
    FailuresStrandNothing
    WritesCarryToken
PROPERTIES
    CallsEnd
    ExporterRecovers
