SPECIFICATION MCSpec
CONSTANTS
    period_ms = 2
    decision_timeout_ms = 3
    MaxJitter = 1
    MaxTime = 20
    LastInput = 6
    MaxFailures = 2
    MaxFrames = 3
    MaxFaults = 2
    Noise <- MCNoise
    SafetyData <- MCSafetyData
    Requests = {1, 2}
INVARIANTS
    StaleStops
    WorseReachesWire
    LineIsFaithful
PROPERTIES
    SilenceStops
    PageFollows
CHECK_DEADLOCK FALSE
