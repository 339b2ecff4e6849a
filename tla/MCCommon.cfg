SPECIFICATION MCSpec
CONSTANTS
    min_score = 25
    zone_x_min = 25
    zone_x_max = 75
    zone_y_min = 55
    stop_height = 45
    slow_height = 25
    sign_slow_width = 12
    Detections <- MCDetections
    MaxItems = 3
    hold_ms = 3
    release_frames = 2
    release_ms = 2
    MaxTime = 8
    MaxBurst = 2
    Frames <- MCFrames
    debounce_frames = 3
    release_hold_ms = 2
    MaxCalls = 9
    MaxStep = 2
    kMaxDetections = 2
    max_retries = 1
    MaxMessages = 2
INVARIANTS
    LoopComputesWorst
    WholeSnapshot
PROPERTIES
    HoldsStop
    NoEarlyRetrigger
    NewHazardStops
    ReleaseIsEarned
CHECK_DEADLOCK FALSE
