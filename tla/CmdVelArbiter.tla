--------------------------- MODULE CmdVelArbiter ---------------------------
(***************************************************************************)
(* The velocity arbiter of the robot,                                      *)
(* turtlebot/.../rpi_adas_demo/cmd_vel_arbiter.py: the controller (or, in  *)
(* no_joy_mode, another teleoperation node) and the safety state decide    *)
(* together which velocity is commanded.                                   *)
(*                                                                         *)
(* rclpy.spin runs one callback at a time, so each callback is one step;   *)
(* messages and the timer come in any order.  Stick positions are in units *)
(* of 1/100 and velocities, a position times a maximum, of 1/10000.  now   *)
(* is the clock of the node: it starts far beyond the stamps of 0 that     *)
(* stand for "never".                                                      *)
(***************************************************************************)
EXTENDS SafetyState, Integers

CONSTANTS
    safety_timeout, joy_timeout,
    timer_period,               \* 1 / publish_hz
    slow_lin, slow_ang,         \* caps of Slow
    MAX_LINEAR, MAX_ANGULAR,    \* limits of the robot, in 1/100
    NEUTRAL_THRESH,             \* in 1/100
    linear_axis_sign,
    stick_deadzone,             \* in 1/100
    cardinal_snap_ratio,        \* in 1/100
    SafetyData,                 \* values the safety topic may carry
    JoyMessages,                \* controller messages; buttons: those pressed
    ManualTwists,               \* messages of the other teleoperation node
    NoJoy,                      \* no controller message has arrived
    StartTime,                  \* the clock when the node starts
    MaxTime,                    \* bound: the clock stops here
    MaxBurst                    \* bound: messages in one unit of time

Button == {"Y", "A", "X", "B", "LB", "Back"}
Joy    == [buttons : SUBSET Button, lin : Int, ang : Int]
Twist  == [lin : Int, ang : Int]

ASSUME ArbiterAssumption ==
    /\ {safety_timeout, joy_timeout, slow_lin, slow_ang, MAX_LINEAR, MAX_ANGULAR,
        cardinal_snap_ratio, MaxBurst} \subseteq Nat
    /\ {timer_period, NEUTRAL_THRESH} \subseteq Nat \ {0}
    /\ linear_axis_sign \in {-1, 1}
    /\ stick_deadzone \in 0 .. 95
    /\ SafetyData \subseteq Int
    /\ JoyMessages \subseteq Joy
    /\ ManualTwists \subseteq Twist
    /\ NoJoy \notin Joy
    /\ StartTime \in Nat /\ StartTime > safety_timeout /\ StartTime > joy_timeout
    /\ MaxTime \in Nat /\ MaxTime >= StartTime

VARIABLES
    no_joy_mode,
    safety, safety_stamp,
    joy, joy_stamp,
    manual_twist, manual_stamp,
    require_resume, seen_neutral,   \* the resume gate
    prev_safety,
    estop, prev_estop_btn,
    cmd,                            \* the velocity commanded last
    now,
    due,                            \* when the timer fires next
    (* history *)
    burst,                          \* messages since the clock last advanced
    owed,                           \* no neutral input since the last Stop
    slow_since                      \* when the safety state last became Slow

inputVars == <<joy, joy_stamp, manual_twist, manual_stamp>>
gateVars  == <<require_resume, seen_neutral>>
vars      == <<no_joy_mode, safety, safety_stamp, inputVars, gateVars, prev_safety,
               estop, prev_estop_btn, cmd, now, due, burst, owed, slow_since>>

zero == [lin |-> 0, ang |-> 0]

TypeOK ==
    /\ no_joy_mode \in BOOLEAN
    /\ safety \in State
    /\ safety_stamp \in Nat
    /\ joy \in JoyMessages \cup {NoJoy}
    /\ joy_stamp \in Nat
    /\ manual_twist \in ManualTwists \cup {zero}
    /\ manual_stamp \in Nat
    /\ require_resume \in BOOLEAN
    /\ seen_neutral \in BOOLEAN
    /\ prev_safety \in State
    /\ estop \in BOOLEAN
    /\ prev_estop_btn \in BOOLEAN
    /\ cmd \in Twist
    /\ now \in StartTime .. MaxTime
    /\ due \in Nat
    /\ burst \in 0 .. MaxBurst
    /\ owed \in BOOLEAN
    /\ slow_since \in Nat

Init ==
    /\ no_joy_mode \in BOOLEAN
    /\ safety = Stop
    /\ safety_stamp = 0
    /\ joy = NoJoy
    /\ joy_stamp = 0
    /\ manual_twist = zero
    /\ manual_stamp = 0
    /\ require_resume = FALSE
    /\ seen_neutral = FALSE
    /\ prev_safety = Stop
    /\ estop = FALSE
    /\ prev_estop_btn = FALSE
    /\ cmd = zero
    /\ now = StartTime
    /\ due = StartTime + timer_period
    /\ burst = 0
    /\ owed = ~no_joy_mode
    /\ slow_since = 0

-----------------------------------------------------------------------------
(* Reading the controls *)
abs(v)          == IF v < 0 THEN -v ELSE v
clamp(v, limit) == IF v > limit THEN limit ELSE IF v < -limit THEN -limit ELSE v

btn(j, b) == j # NoJoy /\ b \in j.buttons

(* The dead zone is cut out and the rest of the axis rescaled; the result  *)
(* is a float in the code and a whole 1/100, rounded towards 0, here.      *)
applyDeadzone(v) ==
    LET scaled == ((abs(v) - stick_deadzone) * 100) \div (100 - stick_deadzone)
        limited == IF scaled > 100 THEN 100 ELSE scaled
    IN  IF abs(v) <= stick_deadzone THEN 0
        ELSE IF v > 0 THEN limited ELSE -limited

(* One axis that clearly dominates silences the other. *)
snapped(lin, ang) ==
    LET minor(a, b) == abs(a) < abs(b) /\ abs(a) * 100 <= abs(b) * cardinal_snap_ratio
    IN  [lin |-> IF minor(lin, ang) THEN 0 ELSE lin,
         ang |-> IF minor(ang, lin) THEN 0 ELSE ang]

(* A face button overrides the stick. *)
directionInput(j) ==
    LET pressed(plus, minus) == (IF btn(j, plus) THEN 100 ELSE 0)
                                  - (IF btn(j, minus) THEN 100 ELSE 0)
        buttons == [lin |-> pressed("Y", "A"), ang |-> pressed("X", "B")]
    IN  IF j = NoJoy THEN zero
        ELSE IF buttons # zero THEN buttons
        ELSE snapped(applyDeadzone(linear_axis_sign * j.lin), applyDeadzone(j.ang))

(* The threshold is one number, compared with stick positions or, in       *)
(* no_joy_mode, with velocities.                                           *)
atNeutral(t) ==
    LET thresh == IF no_joy_mode THEN NEUTRAL_THRESH * 100 ELSE NEUTRAL_THRESH
    IN  abs(t.lin) < thresh /\ abs(t.ang) < thresh

(* The input of the mode, its age, and the velocity it asks for. *)
input        == IF no_joy_mode THEN manual_twist ELSE directionInput(joy)
inputStale   == now - (IF no_joy_mode THEN manual_stamp ELSE joy_stamp) > joy_timeout
safetyStale  == now - safety_stamp > safety_timeout
asked        == IF no_joy_mode THEN manual_twist
                ELSE [lin |-> input.lin * MAX_LINEAR, ang |-> input.ang * MAX_ANGULAR]
capped(t)    == [lin |-> clamp(t.lin, slow_lin), ang |-> clamp(t.ang, slow_ang)]

-----------------------------------------------------------------------------
(* The timer callback is a chain of early returns that command zero; what  *)
(* is left at its end commands the input.                                  *)
armResume == require_resume' = TRUE /\ seen_neutral' = FALSE

Halt(rearm) ==
    /\ cmd' = zero
    /\ IF rearm THEN armResume ELSE UNCHANGED gateVars

(* Slip: the gate opens on any input once it is armed. *)
ResumeGate_Slip_NoNeutral(armed, seen) ==
    IF ~armed
    THEN cmd' = (IF safety = Slow THEN capped(asked) ELSE asked)
            /\ require_resume' = FALSE /\ seen_neutral' = seen
    ELSE /\ seen_neutral' = (seen \/ atNeutral(input))
         /\ require_resume' = atNeutral(input)
         /\ cmd' = IF atNeutral(input) THEN zero
                   ELSE IF safety = Slow THEN capped(asked) ELSE asked

(* Slip: in Slow only the linear velocity is capped. *)
ResumeGate_Slip_Linear(armed, seen) ==
    LET open  == ~armed \/ (seen /\ ~atNeutral(input))
        speed == IF safety = Slow THEN [asked EXCEPT !.lin = clamp(@, slow_lin)]
                 ELSE asked
    IN  /\ require_resume' = ~open
        /\ seen_neutral' = (seen \/ (armed /\ atNeutral(input)))
        /\ cmd' = IF open THEN speed ELSE zero

(* The end of the callback: an armed gate opens at an input that is not    *)
(* neutral after one that was; behind it, Slow caps the velocity.          *)
ResumeGate(armed, seen) ==
    LET open == ~armed \/ (seen /\ ~atNeutral(input))
    IN  /\ require_resume' = ~open
        /\ seen_neutral' = (seen \/ (armed /\ atNeutral(input)))
        /\ cmd' = IF ~open THEN zero
                  ELSE IF safety = Slow THEN capped(asked) ELSE asked

(* no_joy_mode *)
TimerManual ==
    /\ IF safetyStale \/ safety = Stop \/ inputStale
       THEN Halt(TRUE)
       ELSE ResumeGate(require_resume, seen_neutral)
    /\ UNCHANGED <<prev_safety, estop, prev_estop_btn>>

(* Slip: the age of the safety state is not looked at. *)
TimerJoy_Slip_NoStale ==
    /\ LET pressed == btn(joy, "Back")
       IN  /\ estop' = IF pressed /\ ~prev_estop_btn THEN ~estop ELSE estop
           /\ prev_estop_btn' = IF joy = NoJoy THEN prev_estop_btn ELSE pressed
    /\ IF estop' \/ inputStale \/ ~btn(joy, "LB")
       THEN Halt(~estop' /\ inputStale) /\ UNCHANGED prev_safety
       ELSE /\ prev_safety' = safety
            /\ IF safety = Stop THEN Halt(TRUE)
               ELSE LET leaving == prev_safety = Stop
                    IN  ResumeGate(require_resume \/ leaving, seen_neutral /\ ~leaving)

(* Controller mode.  An emergency stop and a released deadman button halt  *)
(* without arming the gate; leaving Stop arms it.                          *)
TimerJoy ==
    /\ LET pressed == btn(joy, "Back")
       IN  /\ estop' = IF pressed /\ ~prev_estop_btn THEN ~estop ELSE estop
           /\ prev_estop_btn' = IF joy = NoJoy THEN prev_estop_btn ELSE pressed
    /\ IF estop' \/ inputStale \/ ~btn(joy, "LB") \/ safetyStale
       THEN /\ Halt(~estop' /\ (inputStale \/ btn(joy, "LB")))
            /\ UNCHANGED prev_safety
       ELSE /\ prev_safety' = safety
            /\ IF safety = Stop THEN Halt(TRUE)
               ELSE LET leaving == prev_safety = Stop
                    IN  ResumeGate(require_resume \/ leaving, seen_neutral /\ ~leaving)

Timer ==
    /\ now >= due
    /\ due' = due + timer_period
    /\ IF no_joy_mode THEN TimerManual ELSE TimerJoy
    /\ UNCHANGED <<no_joy_mode, safety, safety_stamp, inputVars, now, burst, owed,
                   slow_since>>

-----------------------------------------------------------------------------
(* The subscriptions.  owed follows from the messages alone: a Stop raises *)
(* it, a neutral input outside Stop settles it.                            *)
Settle(stopped) ==
    /\ burst < MaxBurst
    /\ burst' = burst + 1
    /\ owed' = (stopped \/ (owed /\ (safety' = Stop \/ ~atNeutral(input'))))

(* Anything that is not a state counts as Stop, and Stop halts at once. *)
onSafety(data) ==
    /\ safety' = IF data \in State THEN data ELSE Stop
    /\ safety_stamp' = now
    /\ slow_since' = IF safety' = Slow /\ safety # Slow THEN now ELSE slow_since
    /\ IF safety' = Stop THEN Halt(TRUE) ELSE UNCHANGED <<cmd, gateVars>>
    /\ UNCHANGED <<no_joy_mode, inputVars, prev_safety, estop, prev_estop_btn, now, due>>
    /\ Settle(safety' = Stop)

onJoy(msg) ==
    /\ joy' = msg
    /\ joy_stamp' = now
    /\ UNCHANGED <<no_joy_mode, safety, safety_stamp, manual_twist, manual_stamp,
                   gateVars, prev_safety, estop, prev_estop_btn, cmd, now, due,
                   slow_since>>
    /\ Settle(FALSE)

onManual(msg) ==
    /\ no_joy_mode
    /\ manual_twist' = msg
    /\ manual_stamp' = now
    /\ UNCHANGED <<no_joy_mode, safety, safety_stamp, joy, joy_stamp, gateVars,
                   prev_safety, estop, prev_estop_btn, cmd, now, due, slow_since>>
    /\ Settle(FALSE)

(* The timer is served before the clock moves on. *)
Advance ==
    /\ now < MaxTime
    /\ now < due
    /\ now' = now + 1
    /\ burst' = 0
    /\ UNCHANGED <<no_joy_mode, safety, safety_stamp, inputVars, gateVars, prev_safety,
                   estop, prev_estop_btn, cmd, due, owed, slow_since>>

Next ==
    \/ Timer
    \/ \E data \in SafetyData : onSafety(data)
    \/ \E msg \in JoyMessages : onJoy(msg)
    \/ \E msg \in ManualTwists : onManual(msg)
    \/ Advance

Spec == Init /\ [][Next]_vars

-----------------------------------------------------------------------------
(* From the moment the safety state is Stop (or not a state at all), and   *)
(* until it is something else, zero is the last velocity commanded,        *)
(* whatever the timer and the controller do meanwhile.                     *)
StopHalts == safety = Stop => cmd = zero

(* A safety topic that has gone silent, or an input that has, halts the    *)
(* robot within one period of the timer.                                   *)
SilenceHalts ==
    cmd # zero =>
        /\ now <= safety_stamp + safety_timeout + timer_period
        /\ now <= (IF no_joy_mode THEN manual_stamp ELSE joy_stamp)
                    + joy_timeout + timer_period

(* After a Stop the robot does not move before a neutral input has come    *)
(* that is later than the Stop: neither a stick that is held through the   *)
(* Stop nor one that was neutral during it is enough.                      *)
ResumeAfterNeutral == cmd # zero => ~owed

(* One period after the safety state has become Slow, both velocities are  *)
(* within its caps.                                                        *)
SlowIsCapped ==
    safety = Slow /\ now > slow_since + timer_period =>
        abs(cmd.lin) <= slow_lin /\ abs(cmd.ang) <= slow_ang
=============================================================================
