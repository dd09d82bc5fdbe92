SPECIFICATION Spec
CONSTANTS
    r1 = r1
    r2 = r2
    r3 = r3
    t1 = t1
    InitialPw = initialPw
    Runs <- TwoRuns
    MaxVersions = 8
    Texts <- OneText
    NoText = noText
    MaxEdits = 0
PROPERTIES
    RolledBackAgrees
CHECK_DEADLOCK FALSE
