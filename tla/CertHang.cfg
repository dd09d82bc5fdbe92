SPECIFICATION FairSpec
CONSTANTS
    Devices <- Wap1AndSw2
    Order <- Sw2First
    Primary <- FleetPrimary
    Fallback <- FleetFallback
    CopiesAtBoot <- Wap1
    Supervised <- Sw2
    Fragile = {}
    Attempts = 2
    MaxIssued = 1
    MaxFaults = 1
    MaxKills = 0
PROPERTY
    OthersGoOn
