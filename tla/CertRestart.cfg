SPECIFICATION FairSpec
CONSTANTS
    Devices <- Sw2
    Order <- Sw2Only
    Primary <- RestPrimary
    Fallback <- NoFallback
    CopiesAtBoot = {}
    Supervised <- Sw2
    Fragile = {}
    Attempts = 2
    MaxIssued = 1
    MaxFaults = 0
    MaxKills = 1
PROPERTY
    RestartHarmless
