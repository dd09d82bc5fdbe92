SPECIFICATION Spec
CONSTANTS
    exporter = exporter
    provider = provider
    operator = operator
    Reusers <- Exporter
    PerCall <- Provider
    Uploaders <- Operator
    Slots = 3
    Expired404 = FALSE
    MaxMishaps = 0
    MaxUploads = 1
INVARIANT
    UploadStrandsNothing
