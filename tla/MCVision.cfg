SPECIFICATION MCSpec
CONSTANTS
    kModelSize = 8
    cols = 12
    rows = 9
    Sub = 2
    confidence_threshold = 10
    nms_iou_threshold = 45
    max_candidates = 3
    Margin = 3
    Outputs <- MCOutputs
    MaxOutputs = 4
    NoOutputBoxes <- MCNoOutputBoxes
    AccBits = 12
    ActMax = 15
    HighWeights <- MCHighWeights
    SomeAcc <- MCSomeAcc
    Size = 8
    Channels <- ChannelCounts
    OcPar = 2
    IcPar = 2
    Images <- TestImages
    Models <- TestModels
    MaxRuns = 2
INVARIANTS
    ArithmeticIsExact
    OutputIsReference
    NothingLost
    WindowHoldsBox
CHECK_DEADLOCK FALSE
