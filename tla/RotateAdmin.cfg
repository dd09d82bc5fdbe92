SPECIFICATION Spec
CONSTANTS
    r1 = r1
    r2 = r2
    r3 = r3
    t1 = t1
    InitialPw = initialPw
    Runs <- ThreeRuns
    MaxVersions = 8
    Texts <- OneText
    NoText = noText
    MaxEdits = 1
INVARIANTS
    TypeOK
    Recoverable
    AgreeUnlessFault
PROPERTIES
    SuccessAgrees
    OtherFieldsKept
    CustodyHolds
CHECK_DEADLOCK FALSE
