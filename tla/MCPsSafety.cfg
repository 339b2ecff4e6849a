SPECIFICATION MCSpec
CONSTANTS
    min_score = 25
    zone_x_min = 7200
    zone_x_max = 21600
    zone_y_min = 15840
    stop_height = 12960
    slow_height = 7200
    sign_slow_width = 3456
    hold_ms = 2
    release_frames = 1
    release_ms = 1
    period_ms = 1
    decision_timeout_ms = 2
    MaxJitter = 0
    MaxTime = 5
    LastInput = 4
    MaxFailures = 0
    Unit = 28800
    min_objectness = 25
    frame_width = 640
    frame_height = 360
    sign_hold_ms = 2
    kMaxDetections = 2
    MaxRois = 2
    MaxBurst = 2
    FrameIds = {0, 1}
    NoRequest = NoRequest
    Boxes <- MCBoxes
    Results <- MCResults
INVARIANTS
    NoMoveWithoutFrame
    HazardStops
    SignKeepsSlow
    HoldIsPublished
PROPERTY
    UsesTransmitter
CHECK_DEADLOCK FALSE
