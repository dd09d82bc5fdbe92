SPECIFICATION Spec
CONSTANTS
    j1 = j1
    j2 = j2
    t1 = t1
    Jobs <- OneJob
    Appliers <- OneApplier
    Certs = {c1, c2}
    FactoryRow = factoryRow
    SilentRefusals = TRUE
INVARIANTS
    NoWedge
CHECK_DEADLOCK FALSE
