SPECIFICATION FairSpec
CONSTANTS
    Devices <- Wap1AndSw2
    Order <- Sw2First
    Primary <- FleetPrimary
    Fallback <- FleetFallback
    CopiesAtBoot <- Wap1
    Supervised <- Sw2
    Fragile <- Wap1AndSw2
    Attempts = 2
    MaxIssued = 2
    MaxFaults = 2
    MaxKills = 1
INVARIANTS
    TypeOK
    RootKeepsServing
    MatchSurvivesReboot
PROPERTIES
    EveryDeviceVisited
    RootConverges
    NeverLeftStale
    DeliversForward
