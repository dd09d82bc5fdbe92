SPECIFICATION Spec
CONSTANTS
    j1 = j1
    j2 = j2
    t1 = t1
    Jobs <- TwoJobs
    Appliers <- OneApplier
    Certs = {c1, c2}
    FactoryRow = factoryRow
    SilentRefusals = FALSE
INVARIANTS
    TypeOK
    NoWedge
    HttpsServable
    ConfigRestored
PROPERTIES
    DoneInstalled
    SwapDiscipline
CHECK_DEADLOCK FALSE
