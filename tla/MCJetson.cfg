SPECIFICATION MCSpec
CONSTANTS
    heartbeat_interval_ms = 3
    decision_timeout_ms = 10
    MaxCapture = 3
    MaxRtt = 2
    MaxRois = 2
    capture_timeout = 20
    MaxAge = 11
    FrameIdSpan = 6
    BufferCount = 2
    MaxTaken = 3
    Formats <- SomeFormats
    Lengths = {8, 10}
    Viewers = {v1}
    MaxFrames = 3
INVARIANTS
    StaysFresh
    WholeFramesJudged
    BuffersAreSafe
PROPERTIES
    JudgingResumes
    LossIsNoticed
    NewestIsShown
    StopReturns
CHECK_DEADLOCK FALSE
