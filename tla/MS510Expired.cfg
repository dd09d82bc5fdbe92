SPECIFICATION FairSpec
CONSTANTS
    exporter = exporter
    provider = provider
    operator = operator
    Reusers <- Exporter
    PerCall <- Provider
    Uploaders <- Operator
    Slots = 3
    Expired404 = TRUE
    MaxMishaps = 1
    MaxUploads = 0
PROPERTY
    ExporterRecovers
