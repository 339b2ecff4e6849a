SPECIFICATION MCSpec
CONSTANTS
    Components = {"arbiter", "chain"}
    safety_timeout = 2
    joy_timeout = 2
    timer_period = 1
    slow_lin = 500
    slow_ang = 3000
    MAX_LINEAR = 22
    MAX_ANGULAR = 284
    NEUTRAL_THRESH = 5
    linear_axis_sign <- MinusOne
    stick_deadzone = 12
    cardinal_snap_ratio = 45
    SafetyData <- MCSafetyData
    JoyMessages <- MCJoy
    ManualTwists <- MCManual
    NoJoy = NoJoy
    StartTime = 3
    MaxTime = 8
    MaxBurst = 2
    Pads <- MCPads
    LIN = 10
    ANG = 50
    DEADZONE = 15
    teleop_period = 1
    script_sleep = 2
    command_time = 1
INVARIANTS
    SilenceHalts
    ResumeAfterNeutral
    SlowIsCapped
    ReleasedPadStops
    ShutdownStops
CHECK_DEADLOCK FALSE
