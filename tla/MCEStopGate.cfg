SPECIFICATION ClaimSpec
CONSTANTS
    safety_timeout = 2
    joy_timeout = 1
    timer_period = 1
    slow_lin = 500
    slow_ang = 3000
    MAX_LINEAR = 22
    MAX_ANGULAR = 284
    NEUTRAL_THRESH = 5
    linear_axis_sign <- MinusOne
    stick_deadzone = 12
    cardinal_snap_ratio = 45
    SafetyData = {0, 2}
    JoyMessages <- MCJoy
    ManualTwists <- MCManual
    NoJoy = NoJoy
    StartTime = 3
    MaxTime = 7
    MaxBurst = 2
INVARIANT
    EStopArmsGate
CHECK_DEADLOCK FALSE
